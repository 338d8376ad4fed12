------------------------------- MODULE Parts -------------------------------
(***************************************************************************)
(* The parts of the program that work by themselves: Twitcas, and          *)
(* instances of the other modules with variables of their own.  They share *)
(* nothing, so in a behaviour one of them takes all the steps, while the   *)
(* others stay as they begin.                                              *)
(***************************************************************************)
EXTENDS Twitcas, Integers, Sequences

\* YoutubeRecorder
CONSTANTS ChanSize, PipeSize, MaxLine, Opts
\* YoutubeComments
CONSTANTS N, Time
\* The runs of YoutubeComments, Timeshift and TimeshiftComments
CONSTANT MaxRuns
\* Converter
CONSTANT Seqno
\* Quality
CONSTANTS Bandwidth, Limits, SeqNo
\* Timeshift
CONSTANTS MaxSeq, ListLength, Reload, TsStarts, MaxFault
\* TimeshiftComments
CONSTANTS Newest, Date, Batch, Few, MaxWire

VARIABLES
  part,   \* the one that takes the steps
  y_opt, y_pc, y_process, y_left, y_pipe, y_closed, y_reader, y_chan, y_chEof,
  y_outputs, y_notSupport, y_retry, y_interrupt, y_intr, y_waiter, y_told,
  y_com, y_comTold,
  c_isReplay, c_runs, c_pc, c_continuation, c_count, c_stop, c_pending,
  c_stored, c_received, c_cutoff, c_goesOn, c_firsts, c_recounts, c_recounted,
  v_kind, v_zip, v_deleteMode, v_pc, v_rest, v_prev, v_mp4List, v_ended, v_lost,
  v_removed,
  q_qualities, q_pc, q_unread, q_maxBw, q_seqNo, q_bandwidth, q_limitBw,
  q_limitBwOrig, q_seqNo500, q_cnt500, q_bw500, q_failures,
  s_fastTimeshift, s_fastTimeshiftOrig, s_tsStart, s_pc, s_runs,
  s_timeshiftStart, s_joined, s_head, s_next, s_is500, s_is200, s_writes,
  s_stored, s_notfound, s_marked, s_interrupted, s_failed, s_lost, s_faults,
  p_pc, p_runs, p_wire, p_fresh, p_finishHint, p_pending, p_stored, p_lost, p_slow

Y == INSTANCE YoutubeRecorder WITH
  opt <- y_opt, pc <- y_pc, process <- y_process, left <- y_left, pipe <-
  y_pipe, closed <- y_closed, reader <- y_reader, chan <- y_chan, chEof <-
  y_chEof, outputs <- y_outputs, notSupport <- y_notSupport, retry <- y_retry,
  interrupt <- y_interrupt, intr <- y_intr, waiter <- y_waiter, told <- y_told,
  com <- y_com, comTold <- y_comTold

C == INSTANCE YoutubeComments WITH
  isReplay <- c_isReplay, runs <- c_runs, pc <- c_pc, continuation <-
  c_continuation, count <- c_count, stop <- c_stop, pending <- c_pending,
  stored <- c_stored, received <- c_received, cutoff <- c_cutoff, goesOn <-
  c_goesOn, firsts <- c_firsts, recounts <- c_recounts, recounted <-
  c_recounted

V == INSTANCE Converter WITH
  kind <- v_kind, zip <- v_zip, deleteMode <- v_deleteMode, pc <- v_pc, rest <-
  v_rest, prev <- v_prev, mp4List <- v_mp4List, ended <- v_ended, lost <- v_lost,
  removed <- v_removed

Q == INSTANCE Quality WITH
  qualities <- q_qualities, pc <- q_pc, unread <- q_unread, maxBw <- q_maxBw,
  seqNo <- q_seqNo, bandwidth <- q_bandwidth, limitBw <- q_limitBw,
  limitBwOrig <- q_limitBwOrig, seqNo500 <- q_seqNo500, cnt500 <- q_cnt500,
  bw500 <- q_bw500, failures <- q_failures

S == INSTANCE Timeshift WITH
  fastTimeshift <- s_fastTimeshift, fastTimeshiftOrig <- s_fastTimeshiftOrig,
  tsStart <- s_tsStart, pc <- s_pc, runs <- s_runs, timeshiftStart <-
  s_timeshiftStart, joined <- s_joined, head <- s_head, next <- s_next, is500
  <- s_is500, is200 <- s_is200, writes <- s_writes, stored <- s_stored,
  notfound <- s_notfound, marked <- s_marked, interrupted <- s_interrupted,
  failed <- s_failed, lost <- s_lost, faults <- s_faults

P == INSTANCE TimeshiftComments WITH
  pc <- p_pc, runs <- p_runs, wire <- p_wire, fresh <- p_fresh, finishHint <-
  p_finishHint, pending <- p_pending, stored <- p_stored, lost <- p_lost, slow
  <- p_slow

ASSUME PartsAssumption ==
  /\ Y!Assumption /\ C!Assumption /\ Assumption
  /\ V!Assumption /\ Q!Assumption /\ S!Assumption /\ P!Assumption

y_vars == <<y_opt, y_pc, y_process, y_left, y_pipe, y_closed, y_reader, y_chan,
            y_chEof, y_outputs, y_notSupport, y_retry, y_interrupt, y_intr,
            y_waiter, y_told, y_com, y_comTold>>
c_vars == <<c_isReplay, c_runs, c_pc, c_continuation, c_count, c_stop,
            c_pending, c_stored, c_received, c_cutoff, c_goesOn, c_firsts,
            c_recounts, c_recounted>>
v_vars == <<v_kind, v_zip, v_deleteMode, v_pc, v_rest, v_prev, v_mp4List,
            v_ended, v_lost, v_removed>>
q_vars == <<q_qualities, q_pc, q_unread, q_maxBw, q_seqNo, q_bandwidth,
            q_limitBw, q_limitBwOrig, q_seqNo500, q_cnt500, q_bw500, q_failures>>
s_vars == <<s_fastTimeshift, s_fastTimeshiftOrig, s_tsStart, s_pc, s_runs,
            s_timeshiftStart, s_joined, s_head, s_next, s_is500, s_is200,
            s_writes, s_stored, s_notfound, s_marked, s_interrupted, s_failed, s_lost,
            s_faults>>
p_vars == <<p_pc, p_runs, p_wire, p_fresh, p_finishHint, p_pending, p_stored,
            p_lost, p_slow>>
partVars == <<part, y_vars, c_vars, vars, v_vars, q_vars, s_vars, p_vars>>

PartsInit ==
  /\ part \in {"youtube", "comments", "twitcas", "converter", "quality",
              "timeshift", "poller"}
  /\ Y!Init /\ C!Init /\ Init /\ V!Init /\ Q!Init /\ S!Init /\ P!Init

Alone(p) ==
  /\ part = p /\ UNCHANGED part
  /\ IF p = "youtube"   THEN TRUE ELSE UNCHANGED y_vars
  /\ IF p = "comments"  THEN TRUE ELSE UNCHANGED c_vars
  /\ IF p = "twitcas"   THEN TRUE ELSE UNCHANGED vars
  /\ IF p = "converter" THEN TRUE ELSE UNCHANGED v_vars
  /\ IF p = "quality"   THEN TRUE ELSE UNCHANGED q_vars
  /\ IF p = "timeshift" THEN TRUE ELSE UNCHANGED s_vars
  /\ IF p = "poller"    THEN TRUE ELSE UNCHANGED p_vars

PartsNext ==
  \/ Alone("youtube")   /\ Y!Next
  \/ Alone("comments")  /\ C!Next
  \/ Alone("twitcas")   /\ Next
  \/ Alone("converter") /\ V!Next
  \/ Alone("quality")   /\ Q!Next
  \/ Alone("timeshift") /\ S!Next
  \/ Alone("poller")    /\ P!Next

\* The clock of Twitcas runs, whatever else does.
PartsSpec ==
  /\ PartsInit /\ [][PartsNext]_partVars
  /\ Y!Fairness /\ Fairness /\ WF_vars(Tick)

-----------------------------------------------------------------------------
\* Every variable of every part has its type (the TypeOK of each module).
PartsTypeOK ==
  /\ Y!TypeOK /\ C!TypeOK /\ TypeOK /\ V!TypeOK /\ Q!TypeOK /\ S!TypeOK
  /\ P!TypeOK

\* youtube.Record ends, but for the reader that outputs leaves behind and the program
\* whose reader has given up.
RecordEnds == Y!RecordEnds

\* A comment that getComment has received is missing for a known reason only.
LossExplained == C!LossExplained

\* The converted files are what was read of the recording, cut into its longest
\* pieces.
FilesAreRuns == V!FilesAreRuns

\* main removes a database only when all that was read of it is in files, and one in
\* pieces only in mode 2.
DeletedMeansConverted == V!DeletedMeansConverted

\* getPlaylist takes the best quality within the limit.
BestWithinLimit == Q!BestWithinLimit

\* It gives up a server that answers 5xx only, after a bounded number of answers.
FailuresBounded == Q!FailuresBounded

\* A timeshift leaves a chunk out for a known reason only.
GapExplained == S!GapExplained

\* Of a timeshift's comments none is missing but for a known reason.
CommentsExplained == P!CommentsExplained
=============================================================================
