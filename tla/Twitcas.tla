------------------------------- MODULE Twitcas -------------------------------
(***************************************************************************)
(* TwitcasRecord (src/src/twitcas/twicas.go) and the loop of main that     *)
(* calls it again (src/src/livedl.go), in several processes started for    *)
(* the same user.  A recorder takes the write lock of tmp/tcas-<movie>-    *)
(* lock.db, which it creates and which it removes before it closes it; the *)
(* lock belongs to the file (the inode) and not to the name.  One movie is *)
(* enough: another has a file of its own.                                  *)
(***************************************************************************)
EXTENDS Naturals, FiniteSets

CONSTANTS
  Process,   \* the processes that record the user
  Once,      \* those started with -tcas-retry=off
  Endless,   \* those whose -tcas-retry-timeout is negative
  Limit      \* the others' timeout, counted in ticks

\* What the constants are to be.
Assumption ==
  /\ {Once, Endless} \subseteq SUBSET Process /\ Limit \in Nat
  /\ IsFiniteSet(Process)

None == Limit + 2       \* no time yet
Far  == Limit + 1       \* any time over the limit
NoFile == 0
Inode  == 1..(Cardinality(Process) + 1)

VARIABLES
  live,       \* the broadcast is on
  file,       \* the inode that has the name of the lock file
  pc,
  ino,        \* the inode each process has open
  locked,     \* whether it holds that inode's lock
  fileOpened, done, \* of TwitcasRecord: ffmpeg has been started; the result
  doneTime    \* of main, as the time since

lockFile == <<file, ino, locked>>
result   == <<fileOpened, done>>
vars     == <<live, pc, lockFile, result, doneTime>>

-----------------------------------------------------------------------------
Goes(r, from, to) == pc[r] = from /\ pc' = [pc EXCEPT ![r] = to]

\* main has read its options.
Starts(r) ==
  /\ Goes(r, "none", "getStream")
  /\ UNCHANGED <<live, lockFile, result, doneTime>>

\* getStream: an error leaves done = FALSE.
Offline(r) ==
  /\ Goes(r, "getStream", "main")
  /\ UNCHANGED <<live, lockFile, result, doneTime>>

Connects(r) ==
  /\ live /\ Goes(r, "getStream", "open")
  /\ UNCHANGED <<live, lockFile, result, doneTime>>

\* db.Exec opens the file, and creates it if there is none.
Unused == CHOOSE i \in Inode : i # file /\ \A r \in Process : ino[r] # i

OpenDb(r) ==
  /\ Goes(r, "open", "begin")
  /\ file' = IF file = NoFile THEN Unused ELSE file
  /\ ino' = [ino EXCEPT ![r] = file']
  /\ UNCHANGED <<live, locked, result, doneTime>>

\* BEGIN EXCLUSIVE waits as long as the busy timeout for another's lock.
FreeAnyway(r) == TRUE    \* mutant: BEGIN, which takes no lock
Free(r) == \A s \in Process : ~(locked[s] /\ ino[s] = ino[r])

Locks(r) ==
  /\ Free(r) /\ Goes(r, "begin", "record")
  /\ locked' = [locked EXCEPT ![r] = TRUE]
  /\ UNCHANGED <<live, file, ino, result, doneTime>>

Ends(r, to) ==
  /\ pc' = [pc EXCEPT ![r] = to] /\ ino' = [ino EXCEPT ![r] = NoFile]
  /\ locked' = [locked EXCEPT ![r] = FALSE] /\ UNCHANGED file

\* dbLocked, whatever the error is: main leaves its loop.
DbLocked(r) ==
  /\ pc[r] = "begin" /\ Ends(r, "ended")
  /\ UNCHANGED <<live, result, doneTime>>

\* The first data starts ffmpeg.
OpenFF(r) ==
  /\ pc[r] = "record" /\ live
  /\ fileOpened' = [fileOpened EXCEPT ![r] = TRUE]
  /\ UNCHANGED <<live, pc, lockFile, done, doneTime>>

\* Code 504: closeFF, and the result is whether anything was recorded.
LiveEnded(r) ==
  /\ ~live /\ Goes(r, "record", "remove")
  /\ done' = [done EXCEPT ![r] = fileOpened[r]]
  /\ UNCHANGED <<live, lockFile, fileOpened, doneTime>>

\* Another code, a read or write error, or 60 seconds of silence.
Fails(r) ==
  /\ Goes(r, "record", "remove")
  /\ UNCHANGED <<live, lockFile, result, doneTime>>

\* The deferred os.Remove: the name goes, whatever file has it now.
Removes(r) ==
  /\ Goes(r, "remove", "close") /\ file' = NoFile
  /\ UNCHANGED <<live, ino, locked, result, doneTime>>

\* Windows does not remove a file that is open.
RemoveFails(r) ==
  /\ Goes(r, "remove", "close")
  /\ UNCHANGED <<live, lockFile, result, doneTime>>

\* The deferred db.Close.
CloseDb(r) ==
  /\ pc[r] = "close" /\ Ends(r, "main")
  /\ UNCHANGED <<live, result, doneTime>>

-----------------------------------------------------------------------------
\* The loop of main.
KeepDoneTime(r) == doneTime[r]   \* mutant: the first failure sets no time
NewDoneTime(r) ==
  IF r \notin Endless /\ (done[r] \/ doneTime[r] = None) THEN 0 ELSE doneTime[r]

GivesUp(r) ==
  r \in Once \/ (r \notin Endless /\ ~done[r] /\ doneTime[r] = Far)

Again(r) ==
  /\ ~GivesUp(r) /\ Goes(r, "main", "sleep")
  /\ doneTime' = [doneTime EXCEPT ![r] = NewDoneTime(r)]
  /\ UNCHANGED <<live, lockFile, result>>

GiveUp(r) ==
  /\ GivesUp(r) /\ Goes(r, "main", "ended")
  /\ UNCHANGED <<live, lockFile, result, doneTime>>

\* -tcas-retry-interval is over: the next call, with variables of its own.
Wakes(r) ==
  /\ Goes(r, "sleep", "getStream")
  /\ fileOpened' = [fileOpened EXCEPT ![r] = FALSE]
  /\ done' = [done EXCEPT ![r] = FALSE]
  /\ UNCHANGED <<live, lockFile, doneTime>>

\* The user stops the process, or it dies: the lock goes, the file stays.
Dies(r) ==
  /\ pc[r] \notin {"none", "ended"} /\ Ends(r, "ended")
  /\ UNCHANGED <<live, result, doneTime>>

\* A second of all clocks, and the broadcaster.
Later(t) == IF t < Far THEN t + 1 ELSE t

Tick ==
  /\ doneTime' = [r \in Process |-> Later(doneTime[r])]
  /\ UNCHANGED <<live, pc, lockFile, result>>

Broadcast ==
  /\ live' = ~live
  /\ UNCHANGED <<pc, lockFile, result, doneTime>>

Init ==
  /\ live = FALSE /\ file = NoFile
  /\ pc = [r \in Process |-> "none"] /\ ino = [r \in Process |-> NoFile]
  /\ locked = [r \in Process |-> FALSE]
  /\ fileOpened = [r \in Process |-> FALSE] /\ done = [r \in Process |-> FALSE]
  /\ doneTime = [r \in Process |-> None]

Records(r) == \/ Offline(r) \/ Connects(r) \/ OpenDb(r) \/ Locks(r) \/ DbLocked(r)
              \/ Removes(r) \/ RemoveFails(r) \/ CloseDb(r)
Leaves(r)  == LiveEnded(r) \/ Fails(r)
Main(r)    == Again(r) \/ GiveUp(r) \/ Wakes(r)

Next ==
  \/ \E r \in Process : Starts(r) \/ Dies(r) \/ Main(r)
  \/ \E r \in Process : Records(r) \/ OpenFF(r) \/ Leaves(r)
  \/ Tick \/ Broadcast

Spec == Init /\ [][Next]_vars

\* Every call has a timeout, or a deadline while the server is silent; a server
\* that has ended the broadcast says so or falls silent.  Time goes on.
Fairness ==
  \A r \in Process : /\ WF_vars(Records(r) \/ Main(r))
                     /\ WF_vars(~live /\ Leaves(r))

FairSpec == Spec /\ Fairness /\ WF_vars(Tick)

-----------------------------------------------------------------------------
\* Every variable has its type; a lock is held from Locks to CloseDb.
TypeOK ==
  /\ live \in BOOLEAN /\ file \in {NoFile} \cup Inode
  /\ pc \in [Process -> {"none", "getStream", "open", "begin", "record", "remove",
                         "close", "main", "sleep", "ended"}]
  /\ ino \in [Process -> {NoFile} \cup Inode]
  /\ locked = [r \in Process |-> pc[r] \in {"record", "remove", "close"}]
  /\ fileOpened \in [Process -> BOOLEAN] /\ done \in [Process -> BOOLEAN]
  /\ doneTime \in [Process -> 0..None]

\* Two processes record the same movie at once only when the lock file of one of
\* them has been removed by name: no two hold the file that the next will find.
OneRecorder ==
  \A r, s \in Process :
    r # s /\ pc[r] = "record" /\ pc[s] = "record" => ino[r] # file \/ ino[s] # file

\* Once the broadcast is off for good, a process whose timeout is not negative
\* ends, whatever it was doing and however often it has recorded before.
RetryEnds ==
  (<>[]~live) =>
    \A r \in Process \ Endless : (pc[r] # "none") ~> (pc[r] = "ended")

\* The time after which a process gives up counts from the end of a recording:
\* after a call that has recorded, the loop goes on.
RetriesAfterRecording ==
  \A r \in Process \ Once : pc[r] = "main" /\ fileOpened[r] => ~GivesUp(r)
=============================================================================
