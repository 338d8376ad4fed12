------------------------------- MODULE Quality -------------------------------
(***************************************************************************)
(* Which quality getPlaylist records (src/src/niconico/nico_hls.go): the   *)
(* best one of the master playlist that keeps to limitBw, and what answers *)
(* 5xx do to that limit.  A quality is named by its bandwidth; of a        *)
(* broadcast all masters list the same, in any order.                      *)
(***************************************************************************)
EXTENDS Integers, FiniteSets

CONSTANTS
  Bandwidth,  \* the qualities a broadcast may have
  Limits,     \* values of -nico-limit-bw; 0 is no limit
  SeqNo       \* bound: the sequence numbers at which an index may begin

\* What the constants are to be.
Assumption ==
  /\ Bandwidth \subseteq Nat \ {0, 1} /\ IsFiniteSet(Bandwidth)
  /\ Limits \subseteq Nat /\ SeqNo \subseteq Nat

VARIABLES
  qualities,            \* what the master lists
  pc,                   \* the next address is a master, an index, or there is none;
                        \* in between, the lines of the master are gone through
  unread, maxBw,        \* the lines not yet looked at, and the choice so far
  seqNo, bandwidth,     \* of hls.playlist
  limitBw, limitBwOrig,
  seqNo500, cnt500, bw500,
  failures              \* answers 5xx of an index since the last good one, or a
                        \* master's 5xx

playlist == <<seqNo, bandwidth>>
limit    == <<limitBw, limitBwOrig>>
count500 == <<seqNo500, cnt500, bw500>>
lines    == <<unread, maxBw>>
vars     == <<qualities, pc, lines, playlist, limit, count500, failures>>

Enough == 3      \* cnt500 is compared with 3 only, and not counted further

Begin(Q, lim) ==
  /\ pc = "begin" /\ pc' = "master" /\ qualities' = Q
  /\ limitBw' = lim /\ limitBwOrig' = lim
  /\ UNCHANGED <<lines, playlist, count500, failures>>

-----------------------------------------------------------------------------
\* Mutant: the choice so far is not compared with the limit.
BetterIfWithin(bw) ==
  maxBw = 0 \/ (maxBw < bw /\ (limitBw = 0 \/ bw <= limitBw))
\* When the closure set is called for the quality bw.
Better(bw) ==
  \/ maxBw = 0
  \/ limitBw > 0 /\ limitBw < maxBw /\ bw < maxBw
  \/ limitBw > 0 /\ maxBw <= limitBw /\ bw <= limitBw /\ maxBw < bw
  \/ limitBw = 0 /\ maxBw < bw

\* The master playlist, and its lines one by one, in whatever order they come.
Master ==
  /\ pc = "master" /\ pc' = "choose" /\ unread' = qualities
  /\ UNCHANGED <<qualities, maxBw, playlist, limit, count500, failures>>

LooksAt(bw) ==
  /\ pc = "choose" /\ unread' = unread \ {bw}
  /\ maxBw' = IF Better(bw) THEN bw ELSE maxBw
  /\ UNCHANGED <<qualities, pc, playlist, limit, count500, failures>>

\* getPlaylist goes on with the address it has chosen.
Chosen ==
  /\ pc = "choose" /\ unread = {} /\ pc' = "index"
  /\ bandwidth' = maxBw /\ maxBw' = 0
  /\ UNCHANGED <<qualities, unread, seqNo, limit, count500, failures>>

Index(s) ==
  /\ pc = "index" /\ seqNo' = s /\ failures' = 0
  /\ UNCHANGED <<qualities, pc, lines, bandwidth, limit, count500>>

\* NETWORK_ERROR: the session is restarted, and startPlaylist begins anew.
Restart == pc' = "master" /\ seqNo' = 0 /\ bandwidth' = 0

\* A failure of another kind, the end of the pass in the fast mode of a timeshift
\* (which asks for the master again), or the answer of a chunk.
OtherError ==
  /\ pc \in {"master", "index"} /\ Restart
  /\ UNCHANGED <<qualities, lines, limit, count500, failures>>

AskMaster ==
  /\ pc = "index" /\ pc' = "master"
  /\ UNCHANGED <<qualities, lines, playlist, limit, count500, failures>>

Master500 ==
  /\ pc = "master" /\ Restart
  /\ seqNo500' = -1 /\ cnt500' = 0 /\ bw500' = -1
  /\ limitBw' = limitBwOrig /\ failures' = 0
  /\ UNCHANGED <<qualities, lines, limitBwOrig>>

\* Three at the same sequence number: the next quality, and then none.
ForgetsQuality == FALSE    \* mutant: bw500 is not compared
SameQuality == bw500 = bandwidth
cnt == IF cnt500 < Enough THEN cnt500 + 1 ELSE Enough

IndexCounted ==
  /\ pc = "index" /\ seqNo500 # seqNo /\ Restart
  /\ seqNo500' = seqNo /\ cnt500' = 1 /\ failures' = failures + 1
  /\ UNCHANGED <<qualities, lines, limit, bw500>>

IndexCountedAgain ==
  /\ pc = "index" /\ seqNo500 = seqNo /\ cnt < Enough /\ Restart
  /\ cnt500' = cnt /\ failures' = failures + 1
  /\ UNCHANGED <<qualities, lines, limit, seqNo500, bw500>>

LowerLimit ==
  /\ pc = "index" /\ seqNo500 = seqNo /\ cnt = Enough /\ ~SameQuality /\ Restart
  /\ cnt500' = cnt /\ bw500' = bandwidth /\ limitBw' = bandwidth - 1
  /\ failures' = failures + 1
  /\ UNCHANGED <<qualities, lines, seqNo500, limitBwOrig>>

\* PLAYLIST_ERROR ends the session.
PlaylistError ==
  /\ pc = "index" /\ seqNo500 = seqNo /\ cnt = Enough /\ SameQuality
  /\ pc' = "ended" /\ cnt500' = cnt /\ failures' = failures + 1
  /\ UNCHANGED <<qualities, lines, playlist, limit, seqNo500, bw500>>

Init ==
  /\ qualities = {} /\ pc = "begin" /\ unread = {} /\ maxBw = 0
  /\ seqNo = 0 /\ bandwidth = 0 /\ limitBw = 0 /\ limitBwOrig = 0
  /\ seqNo500 = 0 /\ cnt500 = 0 /\ bw500 = 0
  /\ failures = 0

Index500 == IndexCounted \/ IndexCountedAgain \/ LowerLimit \/ PlaylistError

Next ==
  \/ \E Q \in (SUBSET Bandwidth) \ {{}}, lim \in Limits : Begin(Q, lim)
  \/ Master \/ Chosen \/ \E bw \in unread : LooksAt(bw)
  \/ \E s \in SeqNo : Index(s)
  \/ OtherError \/ AskMaster \/ Master500 \/ Index500

Spec == Init /\ [][Next]_vars

-----------------------------------------------------------------------------
\* Every variable has its type.
TypeOK ==
  /\ qualities \subseteq Bandwidth /\ pc \in {"begin", "master", "choose", "index", "ended"}
  /\ unread \subseteq qualities /\ maxBw \in qualities \cup {0}
  /\ seqNo \in SeqNo \cup {0} /\ bandwidth \in Bandwidth \cup {0}
  /\ limitBw \in Nat /\ limitBwOrig \in Limits \cup {0} /\ cnt500 \in 0..Enough
  /\ seqNo500 \in SeqNo \cup {0, -1} /\ bw500 \in Bandwidth \cup {0, -1}

\* In whatever order the master lists them, and however the limit has been
\* lowered: the quality that is recorded is the best within the limit, the best
\* of all if there is none, and the smallest if even that exceeds it.
Within(lim) == {b \in qualities : lim = 0 \/ b <= lim}

BestWithinLimit ==
  pc = "index" =>
    /\ bandwidth \in qualities
    /\ IF Within(limitBw) = {}
       THEN \A b \in qualities : bandwidth <= b
       ELSE bandwidth \in Within(limitBw) /\ \A b \in Within(limitBw) : b <= bandwidth

\* A server that answers every index with 5xx is left after at most four answers
\* more than there are qualities, whatever fails between them and whatever had
\* been counted before.
FailuresBounded == failures <= Cardinality(qualities) + 4
=============================================================================
