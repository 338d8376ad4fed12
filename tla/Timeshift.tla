------------------------------ MODULE Timeshift ------------------------------
(***************************************************************************)
(* The recording of a timeshift (src/src/niconico/nico_hls.go getPlaylist, *)
(* startPlaylist, saveMedia; nico_db.go): in the fast mode the index is    *)
(* asked for with start=timeshiftStart, a position that moves on with the  *)
(* chunks; with the first chunk of an index its position is stored, and    *)
(* the next process goes on from the largest one.                          *)
(*                                                                         *)
(* Positions count half chunks: chunk s plays from 2 s, and 0.49 seconds,  *)
(* which are less than half a chunk, count 1.  The server gives an index   *)
(* that begins with the chunk in which start lies.  memdbDelete only       *)
(* forgets what no index comes back to.                                    *)
(***************************************************************************)
EXTENDS Integers, FiniteSets, FiniteSetsExt

CONSTANTS
  MaxSeq,      \* bound: the broadcast has the chunks 0..MaxSeq
  ListLength,  \* chunks in an index
  Reload,      \* memdbOpen loads this many rows: 10 in the code
  TsStarts,    \* values of -nico-ts-start, as positions; 0 is none
  MaxFault,    \* bound: answers other than 200, and aborted passes
  MaxRuns      \* bound: how often the process is started

\* What the constants are to be.
Assumption ==
  /\ {MaxSeq, MaxFault} \subseteq Nat /\ {ListLength, Reload, MaxRuns} \subseteq Nat \ {0}
  /\ TsStarts \subseteq Nat

Seq == 0..MaxSeq

VARIABLES
  fastTimeshift, fastTimeshiftOrig, tsStart,  \* of the options
  pc, runs,
  timeshiftStart,
  joined,      \* without the fast mode: the server plays on, after the first index
  head, next,  \* hls.playlist.seqNo; the chunk to look at next
  is500,
  is200,       \* the table in memory
  writes,      \* what gmDB has yet to store: chunks, with or without a position
  stored, notfound, marked,  \* table media: chunks, missing ones, a position
  interrupted, \* nInterrupt
  failed, lost, \* answered otherwise than with 200; pending when a process died
  faults

options == <<fastTimeshiftOrig, tsStart, runs>>
pass    == <<joined, head, next, is500>>
media   == <<stored, notfound, marked>>
history == <<failed, lost, faults>>
vars    == <<fastTimeshift, options, pc, timeshiftStart, pass, is200, writes,
             media, interrupted, history>>

Chunk(position) == position \div 2
last == IF head + ListLength - 1 < MaxSeq THEN head + ListLength - 1 ELSE MaxSeq

-----------------------------------------------------------------------------
\* dbGetLastPosition: 0 if there is none.
LastPosition == IF marked = {} THEN 0 ELSE 2 * Max(marked)

\* memdbOpen.
rows     == stored \cup notfound
LastRows == {s \in stored : Cardinality({t \in rows : t > s}) < Reload}

\* A process is started.
Start(fast, start) ==
  /\ pc = "down" /\ runs < MaxRuns /\ runs' = runs + 1
  /\ IF runs = 0
     THEN fastTimeshiftOrig' = fast /\ tsStart' = start
     ELSE UNCHANGED <<fastTimeshiftOrig, tsStart>>
  /\ fastTimeshift' = fastTimeshiftOrig'
  /\ timeshiftStart' = tsStart' /\ is200' = LastRows /\ pc' = "session"
  /\ UNCHANGED <<pass, writes, media, interrupted, history>>

\* startPlaylist.
StartPlaylist ==
  /\ pc = "session" /\ ~interrupted /\ pc' = "idle"
  /\ joined' = FALSE /\ head' = 0
  /\ timeshiftStart' =
       IF timeshiftStart = 0 THEN LastPosition ELSE timeshiftStart
  /\ UNCHANGED <<fastTimeshift, options, next, is500, is200, writes, media,
                 interrupted, history>>

\* A server that plays does not get ahead of a client that asks in time.
First == IF joined /\ ~fastTimeshift THEN head .. last + 1 ELSE {Chunk(timeshiftStart)}
NoMargin == 0      \* mutant: currentPos itself
Margin == 1

GetPlaylist(s) ==
  /\ pc = "idle" /\ ~interrupted /\ s \in First
  /\ head' = s /\ next' = s /\ is500' = FALSE /\ pc' = "list"
  /\ fastTimeshift' = IF s \in 1..9 THEN fastTimeshiftOrig ELSE fastTimeshift
  /\ joined' = ~fastTimeshift
  /\ timeshiftStart' = 2 * s - Margin
  /\ UNCHANGED <<options, is200, writes, media, interrupted, history>>

-----------------------------------------------------------------------------
(***************************************************************************)
(* The loop over the index.  The position moves before a chunk is fetched. *)
(***************************************************************************)
Listed ==
  /\ pc = "list" /\ next <= last
  /\ timeshiftStart' = timeshiftStart + 2

\* dbSetPosition is done at once, and finds the row only if it is there.
PositionedAnyway(s) == {s}      \* mutant: the row is made if it is not
Positioned(s) == {s} \cap rows

Skip ==
  /\ Listed /\ next \in is200 /\ next' = next + 1
  /\ marked' = IF next = head THEN marked \cup Positioned(next) ELSE marked
  /\ UNCHANGED <<fastTimeshift, options, pc, joined, head, is500, is200, writes,
                 stored, notfound, interrupted, history>>

\* startDBGoroutine: after an interrupt no goroutine is started any more.
Writes(w) == writes' = IF interrupted THEN writes ELSE writes \cup {w}

Save200 ==
  /\ Listed /\ next \notin is200 /\ next' = next + 1 /\ is500' = FALSE
  /\ is200' = is200 \cup {next}
  /\ Writes([seqno |-> next, found |-> TRUE, position |-> next = head])
  /\ UNCHANGED <<fastTimeshift, options, pc, joined, head, media, interrupted,
                 history>>

Fault == faults < MaxFault /\ faults' = faults + 1

Save404 ==
  /\ Listed /\ next \notin is200 /\ next' = next + 1 /\ is500' = FALSE
  /\ Fault /\ failed' = failed \cup {next}
  /\ Writes([seqno |-> next, found |-> FALSE, position |-> FALSE])
  /\ UNCHANGED <<fastTimeshift, options, pc, joined, head, is200, media,
                 interrupted, lost>>

\* At the very beginning the fast mode is given up for a while.
Save500 ==
  /\ Listed /\ next \notin is200 /\ next' = next + 1 /\ is500' = TRUE
  /\ Fault /\ failed' = failed \cup {next}
  /\ IF fastTimeshift /\ next = 0
     THEN pc' = "session" /\ fastTimeshift' = FALSE
     ELSE UNCHANGED <<pc, fastTimeshift>>
  /\ UNCHANGED <<options, joined, head, is200, writes, media, interrupted, lost>>

\* 403 or a network error.
Abort ==
  /\ Listed /\ next \notin is200 /\ Fault /\ pc' = "session"
  /\ UNCHANGED <<fastTimeshift, options, pass, is200, writes, media, interrupted,
                 failed, lost>>

\* is500 is the answer to the last chunk asked for, and comes before isEnd.
PassEnds ==
  /\ pc = "list" /\ next > last /\ next' = 0 /\ is500' = FALSE
  /\ pc' = IF is500 THEN "session" ELSE IF last = MaxSeq THEN "ended" ELSE "idle"
  /\ UNCHANGED <<fastTimeshift, options, timeshiftStart, joined, head, is200,
                 writes, media, interrupted, history>>

-----------------------------------------------------------------------------
\* In any order.  dbReplace: a row without a position loses the one it had.
Replaces(w) ==
  /\ stored' = stored \cup {w.seqno} /\ notfound' = notfound \ {w.seqno}
  /\ marked' = IF w.position THEN marked \cup {w.seqno} ELSE marked \ {w.seqno}

\* dbInsert: a row that is there is left alone.
Inserts(w) ==
  /\ notfound' = IF w.seqno \in rows THEN notfound ELSE notfound \cup {w.seqno}
  /\ UNCHANGED <<stored, marked>>

Write(w) ==
  /\ w \in writes /\ writes' = writes \ {w}
  /\ IF w.found THEN Replaces(w) ELSE Inserts(w)
  /\ UNCHANGED <<fastTimeshift, options, pc, timeshiftStart, pass, is200,
                 interrupted, history>>

Interrupt ==
  /\ pc \in {"session", "idle", "list"} /\ ~interrupted /\ interrupted' = TRUE
  /\ UNCHANGED <<fastTimeshift, options, pc, timeshiftStart, pass, is200, writes,
                 media, history>>

\* Nothing is left of a process but its database.
Down ==
  /\ pc' = "down" /\ timeshiftStart' = 0 /\ is200' = {} /\ writes' = {}
  /\ joined' = FALSE /\ head' = 0 /\ next' = 0 /\ is500' = FALSE
  /\ fastTimeshift' = FALSE /\ interrupted' = FALSE
  /\ UNCHANGED <<options, media, failed, faults>>

\* Wait has waited for gmDB.
Stops ==
  /\ pc \in {"session", "idle"} /\ interrupted /\ writes = {}
  /\ Down /\ UNCHANGED lost

Dies ==
  /\ pc # "down" /\ Down
  /\ lost' = lost \cup {w.seqno : w \in writes}

Init ==
  /\ fastTimeshift = FALSE /\ fastTimeshiftOrig = FALSE /\ tsStart = 0
  /\ pc = "down" /\ runs = 0 /\ timeshiftStart = 0
  /\ joined = FALSE /\ head = 0 /\ next = 0 /\ is500 = FALSE
  /\ is200 = {} /\ writes = {}
  /\ stored = {} /\ notfound = {} /\ marked = {}
  /\ interrupted = FALSE /\ failed = {} /\ lost = {} /\ faults = 0

Next ==
  \/ \E fast \in BOOLEAN, start \in TsStarts : Start(fast, start)
  \/ StartPlaylist \/ \E s \in Seq : GetPlaylist(s)
  \/ Skip \/ Save200 \/ Save404 \/ Save500 \/ Abort \/ PassEnds
  \/ \E w \in writes : Write(w)
  \/ Interrupt \/ Stops \/ Dies

Spec == Init /\ [][Next]_vars

-----------------------------------------------------------------------------
\* Every variable has its type; only a row that is there has a position.
TypeOK ==
  /\ {fastTimeshift, fastTimeshiftOrig, joined, is500, interrupted} \subseteq BOOLEAN
  /\ tsStart \in TsStarts \cup {0} /\ runs \in 0..MaxRuns /\ timeshiftStart \in Int
  /\ pc \in {"down", "session", "idle", "list", "ended"}
  /\ head \in Seq /\ next \in 0..MaxSeq+1 /\ is200 \subseteq Seq
  /\ writes \subseteq [seqno : Seq, found : BOOLEAN, position : BOOLEAN]
  /\ stored \subseteq Seq /\ notfound \subseteq Seq \ stored /\ marked \subseteq rows
  /\ failed \subseteq Seq /\ lost \subseteq Seq /\ faults \in 0..MaxFault

\* What the recording has gone past.  What is fetched after an interrupt is not
\* stored, even in the pass that comes to the end of the playlist.
Passed ==
  IF interrupted THEN {}
  ELSE CASE pc = "ended" -> Chunk(tsStart)..MaxSeq
         [] pc \in {"session", "idle"} ->
              Chunk(tsStart)..Chunk(timeshiftStart)-1
         [] OTHER -> {}

\* However passes are cut short, and with whatever is stored, in any order, before
\* a process is interrupted or dies and another one goes on from the position in
\* the database: a chunk that the recording has gone past is there or about to be,
\* or the server has once not given it, or its write was pending at a death.
GapExplained ==
  \A s \in Passed :
    s \in stored \cup {w.seqno : w \in writes} \cup failed \cup lost
=============================================================================
