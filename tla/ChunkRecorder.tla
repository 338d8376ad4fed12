---------------------------- MODULE ChunkRecorder ----------------------------
(***************************************************************************)
(* The chunks of a live broadcast (src/src/niconico/nico_hls.go,           *)
(* nico_db.go, nico_mem_db.go): getPlaylist fetches the chunks the index   *)
(* names and goes back to older ones, saveMedia stores them by writes that *)
(* run in goroutines of their own, and the table in memory remembers what  *)
(* need not be fetched again.  The process may be interrupted or die, and  *)
(* be started again with the same database.                                *)
(*                                                                         *)
(* The addresses of the chunks differ in the sequence number only          *)
(* (hls.playlist.format), so that older chunks can be asked for.  The      *)
(* server may answer every request in every way.                           *)
(***************************************************************************)
EXTENDS Integers, FiniteSets

CONSTANTS
  MaxSeq,      \* bound: the broadcast has the chunks 0..MaxSeq
  ListLength,  \* chunks in an index
  Keep,        \* memdbDelete keeps this many older chunks: 100 in the code
  Reload,      \* memdbOpen loads this many rows: 10 in the code
  MaxFault,    \* bound: answers 404 and 500, aborted passes
  MaxStart,    \* bound: how often the process is started
  MayDie       \* whether the process may die, too, or is only interrupted

ASSUME ChunkRecorderAssumption ==
  /\ {MaxSeq, MaxFault} \subseteq Nat
  /\ {ListLength, Keep, Reload, MaxStart} \subseteq Nat \ {0}
  /\ MayDie \in BOOLEAN

VARIABLES
  pc,        \* "down", "idle" (between two passes), "back" or "list"
  head,      \* hls.playlist.seqNo: the first chunk of the index
  next,      \* the chunk to look at next
  minSeq, maxSeq, found404,
  is200,     \* the rows of memdb with is200 = 1
  stopback,  \* the rows of memdb with stopback = 1
  db,        \* table media: "none", "notfound" or "data" for every chunk
  writes,    \* the statements that gmDB has yet to execute
  stopped,   \* interrupted()
  gone, failed,  \* the chunks the server once answered 404, or 500, for
  lost,      \* chunks missing in the database the process was started with
  faults, starts

memdb   == <<is200, stopback>>
pass    == <<minSeq, maxSeq, found404>>
process == <<stopped, lost, starts>>
vars    == <<pc, head, next, pass, memdb, db, writes, gone, failed, process,
             faults>>

Seq  == 0..MaxSeq
None == MaxSeq + 1       \* math.MaxInt32, the minSeq of a pass without chunks

\* The chunks of the index.
Last == IF head + ListLength - 1 < MaxSeq THEN head + ListLength - 1 ELSE MaxSeq

Smaller(a, b) == IF a < b THEN a ELSE b
Larger(a, b)  == IF a > b THEN a ELSE b

-----------------------------------------------------------------------------
(***************************************************************************)
(* saveMedia and the statements it hands to gmDB.  After an interrupt      *)
(* nothing is handed over any more, memdb is changed all the same.  An     *)
(* INSERT OR REPLACE of a row of memdb clears its other columns.           *)
(***************************************************************************)
Write(s, row) == IF stopped THEN writes ELSE writes \cup {<<s, row>>}

Save200(s) ==
  /\ writes' = Write(s, "data")
  /\ is200' = is200 \cup {s}
  /\ stopback' = stopback \ {s}
  /\ UNCHANGED <<gone, failed, faults>>

Save404As200(s) ==                   \* mutant: a missing chunk is marked as 200
  /\ faults < MaxFault /\ faults' = faults + 1
  /\ writes' = Write(s, "notfound")
  /\ is200' = is200 \cup {s}
  /\ stopback' = stopback \ {s}
  /\ gone' = gone \cup {s}
  /\ UNCHANGED failed

Save404(s) ==
  /\ faults < MaxFault /\ faults' = faults + 1
  /\ writes' = Write(s, "notfound")
  /\ is200' = is200 \ {s}
  /\ stopback' = stopback \ {s}
  /\ gone' = gone \cup {s}
  /\ UNCHANGED failed

Answer500(s) ==
  /\ faults < MaxFault /\ faults' = faults + 1
  /\ failed' = failed \cup {s}
  /\ UNCHANGED <<memdb, writes, gone>>

AbortOnlyLoop ==                     \* mutant: break where the code returns
  /\ faults < MaxFault /\ faults' = faults + 1
  /\ pc' = "list" /\ next' = None
  /\ UNCHANGED <<pass, memdb, writes, gone, failed>>

\* 403 or a network error: getPlaylist returns, the session is restarted.
Abort ==
  /\ faults < MaxFault /\ faults' = faults + 1
  /\ pc' = "idle"
  /\ UNCHANGED <<next, pass, memdb, writes, gone, failed>>

-----------------------------------------------------------------------------
(***************************************************************************)
(* getPlaylist has read an index.  The window of a broadcast only moves    *)
(* forward, and by any number of chunks between two requests.              *)
(***************************************************************************)
GetPlaylist ==
  /\ pc = "idle" /\ ~stopped
  /\ pc' = "back"
  /\ \E seqStart \in head..MaxSeq : head' = seqStart /\ next' = seqStart - 1
  /\ minSeq' = None /\ maxSeq' = -1 /\ found404' = FALSE
  /\ UNCHANGED <<memdb, db, writes, gone, failed, process, faults>>

GoesOnForEver == next \notin stopback  \* mutant: i >= 0 is not tested

\* The loop that goes back ends at a chunk with stopback, or at the first one.
GoesOn == next >= 0 /\ next \notin stopback

BackStop ==
  /\ pc = "back" /\ ~GoesOn
  /\ pc' = "list" /\ next' = head
  /\ UNCHANGED <<head, pass, memdb, db, writes, gone, failed, process, faults>>

Counted ==
  /\ minSeq' = Smaller(minSeq, next)
  /\ maxSeq' = Larger(maxSeq, next)
  /\ UNCHANGED found404

BackFetch ==
  /\ pc = "back" /\ GoesOn
  /\ \/ /\ Save200(next) \/ Answer500(next)
        /\ Counted
        /\ next' = next - 1 /\ UNCHANGED pc
     \/ /\ Save404(next)
        /\ Counted
        /\ pc' = "list" /\ next' = head
     \/ Abort
  /\ UNCHANGED <<head, db, process>>

ListSkip ==
  /\ pc = "list" /\ next <= Last
  /\ next \in is200
  /\ next' = next + 1
  /\ UNCHANGED <<pc, head, pass, memdb, db, writes, gone, failed, process,
                 faults>>

ListFetch ==
  /\ pc = "list" /\ next <= Last
  /\ next \notin is200
  /\ \/ /\ \/ Save200(next) /\ UNCHANGED found404
           \/ Answer500(next) /\ UNCHANGED found404
           \/ Save404(next) /\ found404' = TRUE
        /\ minSeq' = Smaller(minSeq, next)
        /\ maxSeq' = IF found404' THEN maxSeq ELSE next
        /\ next' = next + 1 /\ UNCHANGED pc
     \/ Abort
  /\ UNCHANGED <<head, db, process>>

(***************************************************************************)
(* After the loops the chunks of the pass, up to the first one of the      *)
(* index that was missing, need not be gone back to.                       *)
(***************************************************************************)
Mark ==
  /\ pc = "list" /\ next > Last
  /\ pc' = "idle"
  /\ IF minSeq # None /\ maxSeq > 0
       THEN /\ stopback' = {s \in stopback \cup (minSeq..maxSeq) : s >= head - Keep}
            /\ is200' = {s \in is200 : s >= head - Keep}
       ELSE UNCHANGED memdb
  /\ UNCHANGED <<head, next, pass, db, writes, gone, failed, process, faults>>

-----------------------------------------------------------------------------
(***************************************************************************)
(* dbExec.  The goroutines get dbMtx in any order.  dbInsert is INSERT OR  *)
(* IGNORE, dbReplace INSERT OR REPLACE.                                    *)
(***************************************************************************)
DBExecReplacing(w) ==                \* mutant: dbInsert replaces, too
  /\ w \in writes
  /\ writes' = writes \ {w}
  /\ db' = [db EXCEPT ![w[1]] = w[2]]
  /\ UNCHANGED <<pc, head, next, pass, memdb, gone, failed, process, faults>>

DBExec(w) ==
  /\ w \in writes
  /\ writes' = writes \ {w}
  /\ db' = IF w[2] = "data" \/ db[w[1]] = "none"
             THEN [db EXCEPT ![w[1]] = w[2]] ELSE db
  /\ UNCHANGED <<pc, head, next, pass, memdb, gone, failed, process, faults>>

Interrupt ==
  /\ pc # "down" /\ ~stopped
  /\ stopped' = TRUE
  /\ UNCHANGED <<pc, head, next, pass, memdb, db, writes, gone, failed, lost,
                 starts, faults>>

\* The pass is over and Wait has waited for gmDB.
Stop ==
  /\ pc = "idle" /\ stopped /\ writes = {}
  /\ pc' = "down"
  /\ UNCHANGED <<head, next, pass, memdb, db, writes, gone, failed, process,
                 faults>>

\* The second interrupt, a failing statement or a kill.
Exit ==
  /\ MayDie /\ pc # "down"
  /\ pc' = "down"
  /\ writes' = {}
  /\ UNCHANGED <<head, next, pass, memdb, db, gone, failed, process, faults>>

(***************************************************************************)
(* memdbOpen loads the last rows of the database.  Those before the first  *)
(* missing chunk among them get stopback.                                  *)
(***************************************************************************)
Rows == {s \in Seq : db[s] # "none"}

LastRows == {s \in Rows : Cardinality({t \in Rows : t > s}) < Reload}

Start ==
  /\ pc = "down" /\ starts < MaxStart
  /\ starts' = starts + 1
  /\ pc' = "idle"
  /\ stopped' = FALSE
  /\ is200' = {s \in LastRows : db[s] = "data"}
  /\ stopback' = {s \in LastRows : \A t \in LastRows : t <= s => db[t] = "data"}
  /\ lost' = {s \in Seq : db[s] = "none" /\ \E t \in Rows : s < t}
  /\ UNCHANGED <<head, next, pass, db, writes, gone, failed, faults>>

Init ==
  /\ pc = "down"
  /\ head = 0 /\ next = 0
  /\ minSeq = None /\ maxSeq = -1 /\ found404 = FALSE
  /\ is200 = {} /\ stopback = {}
  /\ db = [s \in Seq |-> "none"]
  /\ writes = {}
  /\ stopped = FALSE
  /\ gone = {} /\ failed = {} /\ lost = {}
  /\ faults = 0 /\ starts = 0

Next ==
  \/ GetPlaylist \/ BackStop \/ BackFetch \/ ListSkip \/ ListFetch \/ Mark
  \/ \E w \in writes : DBExec(w)
  \/ Interrupt \/ Stop \/ Exit \/ Start

Spec == Init /\ [][Next]_vars
-----------------------------------------------------------------------------
TypeOK ==
  /\ pc \in {"down", "idle", "back", "list"}
  /\ head \in Seq /\ next \in -1..None
  /\ minSeq \in 0..None /\ maxSeq \in -1..MaxSeq
  /\ found404 \in BOOLEAN /\ stopped \in BOOLEAN
  /\ {is200, stopback, gone, failed, lost} \subseteq SUBSET Seq
  /\ db \in [Seq -> {"none", "notfound", "data"}]
  /\ writes \subseteq Seq \X {"notfound", "data"}

(***************************************************************************)
(* A chunk that is in the database stays there, in whatever order the      *)
(* writes run, even if it is asked for again and is missing by then.       *)
(***************************************************************************)
ChunksAreKept ==
  [][\A s \in Seq : db[s] = "data" => db'[s] = "data"]_vars

(***************************************************************************)
(* A chunk that will not be fetched again because memdb has it as 200 is   *)
(* in the database or about to be written to it.  (An interrupt ends that: *)
(* what is fetched afterwards is thrown away.)                             *)
(***************************************************************************)
Stored(s) == db[s] = "data" \/ <<s, "data">> \in writes

Is200MeansStored == pc # "down" /\ ~stopped => \A s \in is200 : Stored(s)

(***************************************************************************)
(* No silent gap: going back ends at a chunk with stopback, so everything  *)
(* below such a chunk must be settled.  Every older chunk is stored, or    *)
(* has been asked for in vain, or the server has said 404 for a younger    *)
(* one, or it was missing when the process was started again.              *)
(***************************************************************************)
Settled(s, top) == Stored(s) \/ s \in failed \/ gone \cap (s..top) # {}

NoSilentGap ==
  pc # "down" /\ ~stopped =>
    \A top \in stopback : \A s \in 0..top : Settled(s, top) \/ s \in lost

(***************************************************************************)
(* "Go back and fetch chunks until 404": also in a process that goes on    *)
(* with the database of an earlier one, where the earlier one was told to  *)
(* stop while it went back.                                                *)
(***************************************************************************)
BackUntil404 ==
  pc # "down" /\ ~stopped =>
    \A top \in stopback : \A s \in 0..top : Settled(s, top)
==============================================================================
