--------------------------- MODULE YoutubeRecorder ---------------------------
(***************************************************************************)
(* youtube.Record (src/src/youtube/youtube.go): streamlink, and youtube-dl *)
(* if that does not do, are run as programs whose two output pipes are     *)
(* read by goroutines of gm; the comments are fetched by a goroutine of    *)
(* gmCom; an interrupt stops both groups.                                  *)
(*                                                                         *)
(* For each program three goroutines are started: two readers, which move  *)
(* lines from a pipe to a channel and report the end of the pipe on chEof, *)
(* and outputs, which takes what comes and leaves at the first end.  A     *)
(* line is told apart only by what outputs does about it, or by being too  *)
(* long for the scanner's buffer.  What a program writes, when it ends,    *)
(* and the user are the environment.                                       *)
(***************************************************************************)
EXTENDS Naturals, Sequences, FiniteSets

CONSTANTS
  ChanSize,   \* capacity of chStdout and chStderr: 10 in the code
  PipeSize,   \* bound: lines an operating system's pipe holds
  MaxLine,    \* bound: lines each program writes
  Opts        \* bound: the options and broadcasts Record is called for

Streamlink == "streamlink"
YoutubeDl  == "youtube-dl"
Program == {Streamlink, YoutubeDl}
Pipe    == {"stdout", "stderr"}
Line    == {"text", "error", "traceback"}  \* "[cli][error]", "Traceback (most ..."
TooLong == "too long"   \* 64 KB without CR or LF
Written == Line \cup {TooLong}

Chat == {"none", "live", "replay"}
Opt  == [noStreamlink : BOOLEAN, noYoutubeDl : BOOLEAN, chat : Chat]

\* What the constants are to be.
Assumption ==
  /\ {ChanSize, PipeSize} \subseteq Nat \ {0}
  /\ MaxLine \in [Program -> Nat] /\ Opts \subseteq Opt

VARIABLES
  opt,         \* ytNoStreamlink, ytNoYoutube_dl, and the chat of the broadcast
  pc,          \* where Record is
  process,     \* each program: "none", "running", "exited", or "missing"
  left,        \* how many lines it may still write
  pipe, closed, \* its pipes; whether Wait has closed our ends of them
  reader,      \* the two readers: a line stands for the send of that line
  chan, chEof, \* the channels, and how many ends are reported
  outputs,     \* the third goroutine
  notSupport, retry,
  interrupt,   \* the flag that Record reads
  intr, waiter, told,  \* the other goroutines of gm, and who is told to stop
  com, comTold \* the goroutine that fetches comments

programs == <<process, left, pipe, closed, reader, chan, chEof, outputs>>
comments == <<com, comTold>>
signals  == <<interrupt, intr, waiter, told>>
vars     == <<opt, pc, programs, notSupport, retry, signals, comments>>

-----------------------------------------------------------------------------
(***************************************************************************)
(* The program and its pipes.                                              *)
(***************************************************************************)
Writes(p, q, line) ==
  /\ process[p] = "running" /\ left[p] > 0 /\ Len(pipe[p][q]) < PipeSize
  /\ p = YoutubeDl => line \in {"text", TooLong}   \* nothing is made of what it says
  /\ left' = [left EXCEPT ![p] = @ - 1]
  /\ pipe' = [pipe EXCEPT ![p][q] = Append(@, line)]
  /\ UNCHANGED <<opt, pc, process, closed, reader, chan, chEof, outputs,
                 notSupport, retry, signals, comments>>

Ended(p) ==
  /\ process' = [process EXCEPT ![p] = "exited"]
  /\ left' = [left EXCEPT ![p] = 0]

Exits(p) ==
  /\ process[p] = "running" /\ Ended(p)
  /\ UNCHANGED <<opt, pc, pipe, closed, reader, chan, chEof, outputs,
                 notSupport, retry, signals, comments>>

-----------------------------------------------------------------------------
(***************************************************************************)
(* The goroutines of one program.                                          *)
(***************************************************************************)
EofSizeOne == 1      \* mutant: room for one end only
EofSize == 2

\* scanner.Scan() returns a line.
ReaderScans(p, q) ==
  /\ reader[p][q] = "scan" /\ pipe[p][q] # <<>> /\ ~closed[p]
  /\ Head(pipe[p][q]) # TooLong
  /\ reader' = [reader EXCEPT ![p][q] = Head(pipe[p][q])]
  /\ pipe' = [pipe EXCEPT ![p][q] = Tail(@)]
  /\ UNCHANGED <<opt, pc, process, left, closed, chan, chEof, outputs, notSupport, retry, signals, comments>>

\* It returns false: the program has ended, or Wait has closed the pipe.
ReaderEof(p, q) ==
  /\ reader[p][q] = "scan"
  /\ closed[p] \/ (pipe[p][q] = <<>> /\ process[p] = "exited")
  /\ reader' = [reader EXCEPT ![p][q] = "eof"]
  /\ UNCHANGED <<opt, pc, process, left, pipe, closed, chan, chEof, outputs,
                 notSupport, retry, signals, comments>>

\* It returns false while the program runs: bufio.ErrTooLong.  The buffer has
\* taken what it holds, and the rest of the piece may still be in the pipe.
ReaderGivesUp(p, q) ==
  /\ reader[p][q] = "scan" /\ pipe[p][q] # <<>> /\ ~closed[p]
  /\ Head(pipe[p][q]) = TooLong
  /\ reader' = [reader EXCEPT ![p][q] = "eof"]
  /\ pipe' \in {pipe, [pipe EXCEPT ![p][q] = Tail(@)]}
  /\ UNCHANGED <<opt, pc, process, left, closed, chan, chEof, outputs, notSupport, retry, signals, comments>>

ReaderSends(p, q) ==
  /\ reader[p][q] \in Line /\ Len(chan[p][q]) < ChanSize
  /\ chan' = [chan EXCEPT ![p][q] = Append(@, reader[p][q])]
  /\ reader' = [reader EXCEPT ![p][q] = "scan"]
  /\ UNCHANGED <<opt, pc, process, left, pipe, closed, chEof, outputs, notSupport, retry, signals, comments>>

\* The deferred send, and the end of the goroutine.
ReaderLeaves(p, q) ==
  /\ reader[p][q] = "eof" /\ chEof[p] < EofSize
  /\ chEof' = [chEof EXCEPT ![p] = @ + 1]
  /\ reader' = [reader EXCEPT ![p][q] = "done"]
  /\ UNCHANGED <<opt, pc, process, left, pipe, closed, chan, outputs, notSupport, retry, signals, comments>>

\* outputs takes a line and prints it.
OutputsTakes(p, q) ==
  /\ outputs[p] = "loop" /\ chan[p][q] # <<>> /\ Head(chan[p][q]) # "error"
  /\ chan' = [chan EXCEPT ![p][q] = Tail(@)]
  /\ notSupport' = (notSupport \/ Head(chan[p][q]) = "traceback")
  /\ UNCHANGED <<opt, pc, process, left, pipe, closed, reader, chEof, outputs,
                 retry, signals, comments>>

TakesError(p, q) ==
  /\ outputs[p] = "loop" /\ chan[p][q] # <<>> /\ Head(chan[p][q]) = "error"
  /\ notSupport' = TRUE

\* At "[cli][error]" it kills streamlink and leaves.
OutputsKills(p, q) ==
  /\ TakesError(p, q) /\ Ended(p)
  /\ chan' = [chan EXCEPT ![p][q] = Tail(@)]
  /\ outputs' = [outputs EXCEPT ![p] = "done"]
  /\ UNCHANGED <<opt, pc, pipe, closed, reader, chEof, retry, signals,
                 comments>>

NoneOf == [p \in Program |-> [q \in Pipe |-> <<>>]]

\* On other systems than Windows procs.Kill is log.Fatalf: nothing of ours is left.
OutputsDies(p, q) ==
  /\ TakesError(p, q) /\ pc' = "exited"
  /\ process' = [r \in Program |-> "exited"] /\ left' = [r \in Program |-> 0]
  /\ pipe' = NoneOf /\ chan' = NoneOf
  /\ outputs' = [r \in Program |-> "done"]
  /\ reader' = [r \in Program |-> [s \in Pipe |-> "done"]]
  /\ intr' = "done" /\ waiter' = "done" /\ com' = "done"
  /\ UNCHANGED <<opt, closed, chEof, retry, interrupt, told, comTold>>

\* outputs takes an end, whatever the channels still hold.
OutputsEof(p) ==
  /\ outputs[p] = "loop" /\ chEof[p] > 0
  /\ chEof' = [chEof EXCEPT ![p] = @ - 1]
  /\ outputs' = [outputs EXCEPT ![p] = "done"]
  /\ UNCHANGED <<opt, pc, process, left, pipe, closed, reader, chan, notSupport, retry, signals, comments>>

-----------------------------------------------------------------------------
(***************************************************************************)
(* Record.                                                                 *)
(***************************************************************************)
Begin(o) ==
  /\ pc = "begin" /\ opt' = o
  /\ pc' = IF o.noStreamlink THEN "decide" ELSE "open"
  /\ com' = IF o.chat = "none" THEN "none" ELSE "running"
  /\ UNCHANGED <<programs, notSupport, retry, signals, comTold>>

\* The program is started and its three goroutines with it.
Run(p) ==
  /\ process' = [process EXCEPT ![p] = "running"]
  /\ reader' = [reader EXCEPT ![p] = [q \in Pipe |-> "scan"]]
  /\ outputs' = [outputs EXCEPT ![p] = "loop"]
  /\ UNCHANGED <<left, pipe, closed, chan, chEof>>

OpenStreamlink ==
  /\ pc = "open" /\ Run(Streamlink) /\ pc' = "streamlink"
  /\ UNCHANGED <<opt, notSupport, retry, signals, comments>>

\* No command of the list can be started.
Missing(p) ==
  /\ process' = [process EXCEPT ![p] = "missing"]
  /\ UNCHANGED <<left, pipe, closed, reader, chan, chEof, outputs>>

\* err is not nil, which Record takes as it takes retry.
NoStreamlink ==
  /\ pc = "open" /\ Missing(Streamlink) /\ pc' = "decide"
  /\ retry' = TRUE
  /\ UNCHANGED <<opt, notSupport, signals, comments>>

\* cmd.Wait returns and closes the pipes, with what is left in them.
Waited(p) ==
  /\ process[p] = "exited" /\ closed' = [closed EXCEPT ![p] = TRUE]
  /\ pipe' = [pipe EXCEPT ![p] = [q \in Pipe |-> <<>>]]
  /\ UNCHANGED <<process, left, reader, chan, chEof, outputs>>

StreamlinkReturns ==
  /\ pc = "streamlink" /\ Waited(Streamlink)
  /\ retry' = notSupport /\ pc' = "decide"
  /\ UNCHANGED <<opt, notSupport, signals, comments>>

WithoutStreamlink == opt.noStreamlink /\ ~opt.noYoutubeDl
WantsYoutubeDl    == ~interrupt /\ (retry \/ WithoutStreamlink)

OpenYoutubeDl ==
  /\ pc = "decide" /\ WantsYoutubeDl /\ Run(YoutubeDl) /\ pc' = "youtube-dl"
  /\ UNCHANGED <<opt, notSupport, retry, signals, comments>>

NoYoutubeDl ==
  /\ pc = "decide" /\ WantsYoutubeDl /\ Missing(YoutubeDl) /\ pc' = "comments"
  /\ UNCHANGED <<opt, notSupport, retry, signals, comments>>

SkipYoutubeDl ==
  /\ pc = "decide" /\ ~WantsYoutubeDl /\ pc' = "comments"
  /\ UNCHANGED <<opt, programs, notSupport, retry, signals, comments>>

YoutubeDlReturns ==
  /\ pc = "youtube-dl" /\ Waited(YoutubeDl) /\ pc' = "comments"
  /\ UNCHANGED <<opt, notSupport, retry, signals, comments>>

\* Only the comments of a live broadcast are told to stop: a replay's end.
StopComments ==
  /\ pc = "comments" /\ pc' = "comWait"
  /\ comTold' = (comTold \/ opt.chat = "live")
  /\ UNCHANGED <<opt, programs, notSupport, retry, signals, com>>

CancelNone == UNCHANGED told      \* mutant: gm.Wait without gm.Cancel
CancelAll == told' = {"intr", "waiter"}

\* gmCom.Wait has returned; gm.Cancel.
CommentsDone ==
  /\ pc = "comWait" /\ com # "running" /\ pc' = "gmWait" /\ CancelAll
  /\ UNCHANGED <<opt, programs, notSupport, retry, interrupt, intr,
                 waiter, comments>>

\* Everything that gm.Wait waits for.
Quiet ==
  /\ intr = "done" /\ waiter = "done"
  /\ \A p \in Program : /\ outputs[p] # "loop"
                        /\ \A q \in Pipe : reader[p][q] \in {"none", "done"}

Returns ==
  /\ pc = "gmWait" /\ Quiet /\ pc' = "returned"
  /\ UNCHANGED <<opt, programs, notSupport, retry, signals, comments>>

-----------------------------------------------------------------------------
(***************************************************************************)
(* The interrupt, the goroutine that waits to call cancel, the comments.   *)
(***************************************************************************)
Recording == pc \notin {"begin", "returned", "exited"}

\* The goroutine ends with cancel and gm.Cancel, and its code 1 makes the checker
\* call gm.Cancel and gmCom.Cancel.
IntrStops ==
  /\ intr = "wait" /\ intr' = "done"
  /\ told' = {"intr", "waiter"} /\ comTold' = TRUE
  /\ UNCHANGED <<opt, pc, programs, notSupport, retry, waiter, com>>

IntrSignal == Recording /\ IntrStops /\ interrupt' = TRUE
IntrTold   == "intr" \in told /\ IntrStops /\ UNCHANGED interrupt

WaiterTold ==
  /\ waiter = "wait" /\ "waiter" \in told /\ waiter' = "done"
  /\ UNCHANGED <<opt, pc, programs, notSupport, retry, interrupt,
                 intr, told, comments>>

\* cancel() has been called: both goroutines end with it.
ctxDone == intr = "done" \/ waiter = "done"

\* getComment looks at ctx and sig before each request.
ComStops ==
  /\ com = "running" /\ (ctxDone \/ comTold) /\ com' = "done"
  /\ UNCHANGED <<opt, pc, programs, notSupport, retry, signals, comTold>>

\* The replay has ended, or an answer cannot be used.
ComEnds ==
  /\ com = "running" /\ com' = "done"
  /\ UNCHANGED <<opt, pc, programs, notSupport, retry, signals, comTold>>

-----------------------------------------------------------------------------
Init ==
  /\ opt = [noStreamlink |-> FALSE, noYoutubeDl |-> FALSE, chat |-> "none"]
  /\ pc = "begin"
  /\ process = [p \in Program |-> "none"] /\ left = MaxLine
  /\ pipe = NoneOf
  /\ closed = [p \in Program |-> FALSE]
  /\ reader = [p \in Program |-> [q \in Pipe |-> "none"]]
  /\ chan = NoneOf
  /\ chEof = [p \in Program |-> 0] /\ outputs = [p \in Program |-> "none"]
  /\ notSupport = FALSE /\ retry = FALSE
  /\ interrupt = FALSE /\ intr = "wait" /\ waiter = "wait" /\ told = {}
  /\ com = "none" /\ comTold = FALSE

Record ==
  \/ OpenStreamlink \/ NoStreamlink \/ StreamlinkReturns
  \/ OpenYoutubeDl \/ NoYoutubeDl \/ SkipYoutubeDl \/ YoutubeDlReturns
  \/ StopComments \/ CommentsDone \/ Returns

Reads(p, q) ==
  \/ ReaderScans(p, q) \/ ReaderGivesUp(p, q) \/ ReaderEof(p, q)
  \/ ReaderSends(p, q) \/ ReaderLeaves(p, q)

Outputs(p) ==
  \/ OutputsEof(p)
  \/ \E q \in Pipe : OutputsTakes(p, q) \/ OutputsKills(p, q) \/ OutputsDies(p, q)

Next ==
  \/ \E o \in Opts : Begin(o)
  \/ Record
  \/ \E p \in Program :
       \/ Exits(p) \/ Outputs(p)
       \/ \E q \in Pipe : Reads(p, q) \/ \E line \in Written : Writes(p, q, line)
  \/ IntrSignal \/ IntrTold \/ WaiterTold \/ ComStops \/ ComEnds

Spec == Init /\ [][Next]_vars

\* The Go scheduler runs what can run.  A program ends some time, unless it is
\* held up writing to a full pipe; a replay's comments end some time.
Fairness ==
  /\ WF_vars(Record)
  /\ \A p \in Program :
       /\ WF_vars(Outputs(p))
       /\ WF_vars(/\ \A q \in Pipe : Len(pipe[p][q]) < PipeSize
                  /\ Exits(p))
       /\ \A q \in Pipe : WF_vars(Reads(p, q))
  /\ WF_vars(IntrTold)
  /\ WF_vars(WaiterTold)
  /\ WF_vars(ComStops)
  /\ WF_vars(opt.chat = "replay" /\ ComEnds)

FairSpec == Spec /\ Fairness

-----------------------------------------------------------------------------
(***************************************************************************)
(* Properties.                                                             *)
(***************************************************************************)
\* Every variable has its type, the queues keep to their size, and no more
\* ends are reported than there are readers.
TypeOK ==
  /\ opt \in Opt
  /\ pc \in {"begin", "open", "streamlink", "decide", "youtube-dl", "comments",
             "comWait", "gmWait", "returned", "exited"}
  /\ process \in [Program -> {"none", "running", "exited", "missing"}]
  /\ \A p \in Program : left[p] \in 0..MaxLine[p]
  /\ closed \in [Program -> BOOLEAN]
  /\ reader \in [Program -> [Pipe -> {"none", "scan", "eof", "done"} \cup Line]]
  /\ \A p \in Program : \A q \in Pipe :
       /\ pipe[p][q] \in Seq(Written) /\ Len(pipe[p][q]) <= PipeSize
       /\ chan[p][q] \in Seq(Line) /\ Len(chan[p][q]) <= ChanSize
  /\ outputs \in [Program -> {"none", "loop", "done"}]
  /\ \A p \in Program :
       chEof[p] <= Cardinality({q \in Pipe : reader[p][q] = "done"})
  /\ {notSupport, retry, interrupt, comTold} \subseteq BOOLEAN
  /\ intr \in {"wait", "done"} /\ waiter \in {"wait", "done"}
  /\ told \subseteq {"intr", "waiter"} /\ com \in {"none", "running", "done"}

\* A reader that has a line for a full channel which nobody reads any more.
Stuck ==
  \E p \in Program : \E q \in Pipe :
    reader[p][q] \in Line /\ Len(chan[p][q]) = ChanSize /\ outputs[p] = "done"

\* A running program whose pipe is full and that nobody reads any more, because
\* its scanner has met a piece that is too long; cmd.Wait waits for it.
HeldUp ==
  \E p \in Program : \E q \in Pipe :
    /\ process[p] = "running" /\ Len(pipe[p][q]) = PipeSize
    /\ reader[p][q] \in {"eof", "done"}

\* Record returns, or the process ends by procs.Kill: neither the reports of the
\* ends, nor a program whose pipe is read, nor the goroutines that only Cancel
\* ends, can hold it up.  It hangs in two cases only.  Stuck: outputs leaves at
\* the first end, or at an error, and a reader that still has more lines than
\* its channel holds waits for ever.  HeldUp: a reader leaves while its program
\* still writes.
RecordEnds ==
  (pc # "begin") ~> (pc \in {"returned", "exited"} \/ []Stuck \/ []HeldUp)
=============================================================================
