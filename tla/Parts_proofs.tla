---------------------------- MODULE Parts_proofs ----------------------------
(***************************************************************************)
(* The parts that work by themselves, for all values of their constants:   *)
(* one section for each.  A part keeps its invariant when it takes a step, *)
(* and when another one does, because its variables stay as they are; so   *)
(* what is proved of its Next holds in every behaviour of PartsSpec.       *)
(***************************************************************************)
EXTENDS Parts, SequenceTheorems, FiniteSetTheorems, WellFoundedInduction, TLAPS

(***************************************************************************)
(* Twitcas.  As the lock belongs to the inode and not to the name, what is *)
(* inductive is not OneRecorder but that no two processes hold the lock of *)
(* one inode.                                                              *)
(***************************************************************************)
Holding == {"record", "remove", "close"}

\* The variables that Ends and Goes change at one place are functions.
AreFunctions ==
  /\ pc = [r \in Process |-> pc[r]]
  /\ ino = [r \in Process |-> ino[r]]
  /\ locked = [r \in Process |-> locked[r]]

\* A lock is held from Locks to CloseDb.
LockedWhile == \A r \in Process : locked[r] <=> pc[r] \in Holding

\* No two processes hold the lock of one inode.
Exclusive ==
  \A r, s \in Process : r # s /\ locked[r] /\ locked[s] => ino[r] # ino[s]

LockInv == AreFunctions /\ LockedWhile /\ Exclusive

-----------------------------------------------------------------------------
\* A step that only moves r between two places where the lock is held, or two
\* where it is not, changes nothing that the invariant is about.
LEMMA GoesKeeps ==
  ASSUME NEW r \in Process, NEW from, NEW to,
         LockInv, Goes(r, from, to), UNCHANGED <<ino, locked>>,
         from \in Holding <=> to \in Holding
  PROVE  LockInv'
<1>1. AreFunctions'  BY DEF LockInv, AreFunctions, Goes
<1>2. LockedWhile'
  <2>1. \A s \in Process : pc'[s] = IF s = r THEN to ELSE pc[s]
    BY DEF LockInv, AreFunctions, Goes
  <2>2. pc[r] = from  BY DEF Goes
  <2>3. QED  BY <2>1, <2>2 DEF LockInv, LockedWhile
<1>3. Exclusive'  BY DEF LockInv, Exclusive
<1>4. QED  BY <1>1, <1>2, <1>3 DEF LockInv

\* Closing the database, at any place, only frees a lock.
LEMMA EndsKeeps ==
  ASSUME NEW r \in Process, NEW to, to \notin Holding, LockInv, Ends(r, to)
  PROVE  LockInv'
<1>1. AreFunctions'  BY DEF LockInv, AreFunctions, Ends
<1>2. \A s \in Process : /\ pc'[s] = IF s = r THEN to ELSE pc[s]
                         /\ ino'[s] = IF s = r THEN NoFile ELSE ino[s]
                         /\ locked'[s] = IF s = r THEN FALSE ELSE locked[s]
  BY DEF LockInv, AreFunctions, Ends
<1>3. LockedWhile'  BY <1>2 DEF LockInv, LockedWhile
<1>4. Exclusive'  BY <1>2 DEF LockInv, Exclusive
<1>5. QED  BY <1>1, <1>3, <1>4 DEF LockInv

\* A process that opens the file does not hold a lock yet.
LEMMA OpenKeeps ==
  ASSUME NEW r \in Process, LockInv, OpenDb(r)
  PROVE  LockInv'
<1>1. AreFunctions'  BY DEF LockInv, AreFunctions, OpenDb, Goes
<1>2. \A s \in Process : /\ pc'[s] = IF s = r THEN "begin" ELSE pc[s]
                         /\ s # r => ino'[s] = ino[s]
                         /\ locked'[s] = locked[s]
  BY DEF LockInv, AreFunctions, OpenDb, Goes
<1>3. pc[r] = "open"  BY DEF OpenDb, Goes
<1>4. LockedWhile'  BY <1>2, <1>3 DEF LockInv, LockedWhile, Holding
<1>5. ~locked[r]  BY <1>3 DEF LockInv, LockedWhile, Holding
<1>6. Exclusive'  BY <1>2, <1>5 DEF LockInv, Exclusive
<1>7. QED  BY <1>1, <1>4, <1>6 DEF LockInv

\* BEGIN EXCLUSIVE succeeds only if nobody else holds the lock of that inode.
LEMMA LocksKeeps ==
  ASSUME NEW r \in Process, LockInv, Locks(r)
  PROVE  LockInv'
<1>1. AreFunctions'  BY DEF LockInv, AreFunctions, Locks, Goes
<1>2. \A s \in Process : /\ pc'[s] = IF s = r THEN "record" ELSE pc[s]
                         /\ ino'[s] = ino[s]
                         /\ locked'[s] = IF s = r THEN TRUE ELSE locked[s]
  BY DEF LockInv, AreFunctions, Locks, Goes
<1>3. LockedWhile'  BY <1>2 DEF LockInv, LockedWhile, Holding
<1>4. \A s \in Process : locked[s] => ino[s] # ino[r]
  BY DEF Locks, Free
<1>5. Exclusive'  BY <1>2, <1>4 DEF LockInv, Exclusive
<1>6. QED  BY <1>1, <1>3, <1>5 DEF LockInv

-----------------------------------------------------------------------------
LEMMA InitLock ==
  ASSUME Init
  PROVE  LockInv
BY DEF Init, LockInv, AreFunctions, LockedWhile, Exclusive, Holding

LEMMA StepLock ==
  ASSUME LockInv, [Next]_vars
  PROVE  LockInv'
<1> USE DEF Holding
<1>1. ASSUME NEW r \in Process, Starts(r)  PROVE LockInv'
  BY <1>1, GoesKeeps DEF Starts, lockFile
<1>2. ASSUME NEW r \in Process, Dies(r)  PROVE LockInv'
  BY <1>2, EndsKeeps DEF Dies
<1>3. ASSUME NEW r \in Process, Main(r)  PROVE LockInv'
  <2>1. CASE Again(r)   BY <2>1, GoesKeeps DEF Again, lockFile
  <2>2. CASE GiveUp(r)  BY <2>2, GoesKeeps DEF GiveUp, lockFile
  <2>3. CASE Wakes(r)   BY <2>3, GoesKeeps DEF Wakes, lockFile
  <2>4. QED  BY <1>3, <2>1, <2>2, <2>3 DEF Main
<1>4. ASSUME NEW r \in Process, Records(r)  PROVE LockInv'
  <2>1. CASE Offline(r)      BY <2>1, GoesKeeps DEF Offline, lockFile
  <2>2. CASE Connects(r)     BY <2>2, GoesKeeps DEF Connects, lockFile
  <2>3. CASE OpenDb(r)       BY <2>3, OpenKeeps
  <2>4. CASE Locks(r)        BY <2>4, LocksKeeps
  <2>5. CASE DbLocked(r)     BY <2>5, EndsKeeps DEF DbLocked
  <2>6. CASE Removes(r)      BY <2>6, GoesKeeps DEF Removes
  <2>7. CASE RemoveFails(r)  BY <2>7, GoesKeeps DEF RemoveFails, lockFile
  <2>8. CASE CloseDb(r)      BY <2>8, EndsKeeps DEF CloseDb
  <2>9. QED  BY <1>4, <2>1, <2>2, <2>3, <2>4, <2>5, <2>6, <2>7, <2>8 DEF Records
<1>5. ASSUME NEW r \in Process, OpenFF(r)  PROVE LockInv'
  BY <1>5 DEF OpenFF, lockFile, LockInv, AreFunctions, LockedWhile, Exclusive
<1>6. ASSUME NEW r \in Process, Leaves(r)  PROVE LockInv'
  <2>1. CASE LiveEnded(r)  BY <2>1, GoesKeeps DEF LiveEnded, lockFile
  <2>2. CASE Fails(r)      BY <2>2, GoesKeeps DEF Fails, lockFile
  <2>3. QED  BY <1>6, <2>1, <2>2 DEF Leaves
<1>7. CASE UNCHANGED <<pc, lockFile>>
  BY <1>7 DEF lockFile, LockInv, AreFunctions, LockedWhile, Exclusive
<1>8. QED
  BY <1>1, <1>2, <1>3, <1>4, <1>5, <1>6, <1>7 DEF Next, Tick, Broadcast, vars

\* No two processes ever hold the lock of one inode, for any set of processes and
\* in whatever order they open, lock, remove and close.
THEOREM LockHeldOnce == Spec => []LockInv
<1>1. Init => LockInv  BY InitLock
<1>2. LockInv /\ [Next]_vars => LockInv'  BY StepLock
<1>3. QED  BY <1>1, <1>2, PTL DEF Spec

\* Two processes record one movie at once only when the lock file of one of them
\* has been removed by name (TwitcasRecord's deferred os.Remove).
THEOREM OneRecorderAlways == Spec => []OneRecorder
<1>1. LockInv => OneRecorder
  BY DEF LockInv, LockedWhile, Exclusive, OneRecorder, Holding
<1>2. QED  BY <1>1, LockHeldOnce, PTL

-----------------------------------------------------------------------------
\* TypeOK, without what LockInv says of locked.
TwitcasPlaces == {"none", "getStream", "open", "begin", "record", "remove", "close", "main",
                  "sleep", "ended"}

TwitcasTypes ==
  /\ live \in BOOLEAN /\ file \in {NoFile} \cup Inode
  /\ pc \in [Process -> TwitcasPlaces]
  /\ ino \in [Process -> {NoFile} \cup Inode]
  /\ locked \in [Process -> BOOLEAN]
  /\ fileOpened \in [Process -> BOOLEAN] /\ done \in [Process -> BOOLEAN]
  /\ doneTime \in [Process -> 0..None]

\* There is an inode more than there are processes to have one open: one that none
\* of them has open, and that no name leads to while the lock file has none.
LEMMA SomeUnused ==
  ASSUME Assumption, TwitcasTypes, file = NoFile
  PROVE  Unused \in Inode
<1> DEFINE Open == {ino[r] : r \in Process}
           n == Cardinality(Process)
<1>1. IsFiniteSet(Process)
  BY DEF Assumption
<1>2. n \in Nat
  BY <1>1, FS_CardinalityType
<1>3. ino \in Surjection(Process, Open)
  <2>1. ino \in [Process -> Open]
    BY DEF TwitcasTypes
  <2> QED BY <2>1 DEF Surjection
<1>4. IsFiniteSet(Open) /\ Cardinality(Open) <= n
  BY <1>1, <1>3, FS_Surjection
<1>5. Cardinality(Inode) = n + 1
  <2>1. 1 \in Int /\ n + 1 \in Int
    BY <1>2
  <2>2. Cardinality(1 .. n + 1) = n + 1
    BY <1>2, <2>1, FS_Interval
  <2> QED BY <2>2 DEF Inode
<1>6. ~(Inode \subseteq Open)
  <2>1. Inode \in SUBSET Open => Cardinality(Inode) <= Cardinality(Open)
    BY <1>4, FS_Subset
  <2>2. Cardinality(Open) \in Nat
    BY <1>4, FS_CardinalityType
  <2> QED BY <1>2, <1>4, <1>5, <2>1, <2>2
<1>7. PICK i \in Inode : i \notin Open
  BY <1>6
<1>8. i # file /\ \A r \in Process : ino[r] # i
  BY <1>2, <1>7 DEF Inode, NoFile
<1> QED BY <1>8 DEF Unused

\* What is kept of every step.
LEMMA TwitcasTypesKept ==
  ASSUME Assumption, TwitcasTypes, Next
  PROVE  TwitcasTypes'
<1> USE DEF TwitcasPlaces, lockFile, result
<1>0. Limit \in Nat /\ TRUE \in BOOLEAN /\ FALSE \in BOOLEAN
  BY DEF Assumption
<1>1. ASSUME NEW r \in Process, NEW from, NEW to \in TwitcasPlaces, Goes(r, from, to)
      PROVE  pc' \in [Process -> TwitcasPlaces]
  BY <1>1 DEF TwitcasTypes, Goes
<1>2. ASSUME NEW r \in Process, NEW to \in TwitcasPlaces, Ends(r, to)
      PROVE  /\ pc' \in [Process -> TwitcasPlaces] /\ ino' \in [Process -> {NoFile} \cup Inode]
             /\ locked' \in [Process -> BOOLEAN] /\ file' = file
  BY <1>2 DEF TwitcasTypes, Ends
<1>3. ASSUME NEW r \in Process, Starts(r) \/ Offline(r) \/ Connects(r) \/ RemoveFails(r)
                                \/ Fails(r) \/ GiveUp(r)
      PROVE  TwitcasTypes'
  BY <1>1, <1>3 DEF TwitcasTypes, Starts, Offline, Connects, RemoveFails, Fails, GiveUp
<1>4. ASSUME NEW r \in Process, DbLocked(r) \/ CloseDb(r) \/ Dies(r)
      PROVE  TwitcasTypes'
  BY <1>2, <1>4 DEF TwitcasTypes, DbLocked, CloseDb, Dies
<1>5. ASSUME NEW r \in Process, OpenDb(r)  PROVE TwitcasTypes'
  <2>1. file' \in Inode
    <3>1. CASE file = NoFile  BY <1>5, <3>1, SomeUnused DEF OpenDb
    <3>2. CASE file # NoFile  BY <1>5, <3>2 DEF OpenDb, TwitcasTypes
    <3> QED BY <3>1, <3>2
  <2>2. ino' \in [Process -> {NoFile} \cup Inode]
    BY <1>5, <2>1 DEF OpenDb, TwitcasTypes
  <2> QED BY <1>1, <1>5, <2>1, <2>2 DEF OpenDb, TwitcasTypes
<1>6. ASSUME NEW r \in Process, Locks(r)  PROVE TwitcasTypes'
  BY <1>0, <1>1, <1>6 DEF Locks, TwitcasTypes
<1>7. ASSUME NEW r \in Process, OpenFF(r) \/ LiveEnded(r) \/ Wakes(r)  PROVE TwitcasTypes'
  <2>1. fileOpened' \in [Process -> BOOLEAN] /\ done' \in [Process -> BOOLEAN]
    BY <1>0, <1>7 DEF OpenFF, LiveEnded, Wakes, TwitcasTypes
  <2> QED BY <1>1, <1>7, <2>1 DEF OpenFF, LiveEnded, Wakes, TwitcasTypes
<1>8. ASSUME NEW r \in Process, Removes(r)  PROVE TwitcasTypes'
  BY <1>1, <1>8 DEF Removes, TwitcasTypes
<1>9. ASSUME NEW r \in Process, Again(r)  PROVE TwitcasTypes'
  <2>1. NewDoneTime(r) \in 0..None
    BY <1>0 DEF NewDoneTime, TwitcasTypes, None
  <2>2. doneTime' \in [Process -> 0..None]
    BY <1>9, <2>1 DEF Again, TwitcasTypes
  <2> QED BY <1>1, <1>9, <2>2 DEF Again, TwitcasTypes
<1>10. CASE Tick
  <2>1. \A t \in 0..None : Later(t) \in 0..None
    BY <1>0 DEF Later, Far, None
  <2>2. doneTime' \in [Process -> 0..None]
    BY <1>10, <2>1 DEF Tick, TwitcasTypes
  <2> QED BY <1>10, <2>2 DEF Tick, TwitcasTypes
<1>11. CASE Broadcast
  BY <1>11 DEF Broadcast, TwitcasTypes
<1> HIDE DEF TwitcasPlaces, lockFile, result
<1> QED
  BY <1>3, <1>4, <1>5, <1>6, <1>7, <1>8, <1>9, <1>10, <1>11 DEF Next, Records, Leaves, Main

\* Every variable of the recorders has its type: in particular a new lock file
\* always finds an inode that no process has open.
THEOREM TwitcasTypeCorrect == ASSUME Assumption PROVE Spec => []TypeOK
<1>1. Init => TwitcasTypes
  <2> SUFFICES ASSUME Init PROVE TwitcasTypes
    OBVIOUS
  <2>1. None \in 0..None
    BY DEF Assumption, None
  <2>2. live \in BOOLEAN
    BY DEF Init
  <2>3. doneTime \in [Process -> 0..None]
    BY <2>1 DEF Init
  <2>4. /\ locked \in [Process -> BOOLEAN] /\ fileOpened \in [Process -> BOOLEAN]
        /\ done \in [Process -> BOOLEAN]
    BY DEF Init
  <2> QED BY <2>2, <2>3, <2>4 DEF Init, TwitcasTypes, TwitcasPlaces
<1>2. TwitcasTypes /\ [Next]_vars => TwitcasTypes'
  <2>1. ASSUME TwitcasTypes, UNCHANGED vars  PROVE TwitcasTypes'
    BY <2>1 DEF TwitcasTypes, vars, lockFile, result
  <2> QED BY <2>1, TwitcasTypesKept
<1>3. TwitcasTypes /\ LockInv => TypeOK
  <2> SUFFICES ASSUME TwitcasTypes, LockInv PROVE TypeOK
    OBVIOUS
  <2>1. locked = [r \in Process |-> locked[r]]
    BY DEF LockInv, AreFunctions
  <2>2. \A r \in Process : locked[r] = (pc[r] \in {"record", "remove", "close"})
    BY DEF TwitcasTypes, LockInv, LockedWhile, Holding
  <2>3. locked = [r \in Process |-> pc[r] \in {"record", "remove", "close"}]
    BY <2>1, <2>2
  <2> QED BY <2>3 DEF TwitcasTypes, TwitcasPlaces, TypeOK
<1> QED BY <1>1, <1>2, <1>3, LockHeldOnce, PTL DEF Spec

-----------------------------------------------------------------------------
\* Every nonempty set of numbers has a least one.
LEMMA LeastNumber ==
  ASSUME NEW T \in SUBSET Nat, T # {}
  PROVE  \E x \in T : \A y \in T : x <= y
<1>1. PICK x \in T : \A y \in T : ~ (<<y, x>> \in OpToRel(<, Nat))
  BY NatLessThanWellFounded, WFMin
<1>2. ASSUME NEW y \in T  PROVE x <= y
  <2>1. x \in Nat /\ y \in Nat /\ ~ (y < x)
    BY <1>1 DEF OpToRel
  <2> QED BY <2>1
<1> QED BY <1>2

-----------------------------------------------------------------------------
(***************************************************************************)
(* Quality.  BestWithinLimit is about the moment of the choice; what is    *)
(* added is that it is right for the lines of the master looked at so far. *)
(* For FailuresBounded, what counts down is how far the counter is from    *)
(* its end and how many qualities are still within the limit.              *)
(***************************************************************************)
\* The instance has its own copies of what it extends.
LEMMA QSameFinite == \A s : Q!IsFiniteSet(s) <=> IsFiniteSet(s)
BY DEF Q!IsFiniteSet, IsFiniteSet
LEMMA QSameCardinality == \A s : Q!Cardinality(s) = Cardinality(s)
BY DEF Q!Cardinality, Cardinality

\* The qualities of a list that a limit allows.
InLimit(qs, lim) == {b \in qs : lim = 0 \/ b <= lim}

\* bw is what getPlaylist is to choose among qs.
Best(qs, lim, bw) ==
  /\ bw \in qs
  /\ IF InLimit(qs, lim) = {}
     THEN \A b \in qs : bw <= b
     ELSE bw \in InLimit(qs, lim) /\ \A b \in InLimit(qs, lim) : b <= bw

\* The types, and what the first answer of a master brings.
QTyped ==
  /\ Q!TypeOK /\ q_failures \in Nat
  /\ q_pc = "begin" => q_failures = 0
  /\ q_pc # "begin" => q_qualities # {}
  /\ q_pc # "choose" => q_unread = {}

\* The choice so far is right for the lines that have been looked at.
QChoice ==
  /\ q_pc # "choose" => q_maxBw = 0
  /\ q_pc = "choose" =>
       IF q_unread = q_qualities
       THEN q_maxBw = 0
       ELSE Best(q_qualities \ q_unread, q_limitBw, q_maxBw)
  /\ q_pc = "index" => Best(q_qualities, q_limitBw, q_bandwidth)

QInv == QTyped /\ QChoice

\* What the arithmetic on bandwidths needs of the types.
LEMMA QNumbers ==
  ASSUME Q!Assumption, QTyped
  PROVE  /\ \A b \in Bandwidth : b \in Nat /\ b > 1
         /\ q_qualities \subseteq Bandwidth /\ q_limitBw \in Nat
         /\ q_unread \subseteq q_qualities
BY DEF Q!Assumption, QTyped, Q!TypeOK

\* Looking at one line more.
LEMMA BestOfOneMore ==
  ASSUME NEW qs, \A b \in qs : b \in Nat /\ b > 1, NEW bw \in Nat, bw > 1, bw \notin qs,
         q_limitBw \in Nat, q_maxBw \in Nat,
         IF qs = {} THEN q_maxBw = 0 ELSE Best(qs, q_limitBw, q_maxBw)
  PROVE  Best(qs \cup {bw}, q_limitBw, IF Q!Better(bw) THEN bw ELSE q_maxBw)
<1>1. CASE qs = {}
  BY <1>1 DEF Best, InLimit, Q!Better
<1>2. CASE qs # {}
  <2>1. q_maxBw \in qs /\ q_maxBw > 1
    BY <1>2 DEF Best
  <2>2. CASE InLimit(qs, q_limitBw) = {}
    BY <1>2, <2>1, <2>2 DEF Best, InLimit, Q!Better
  <2>3. CASE InLimit(qs, q_limitBw) # {}
    BY <1>2, <2>1, <2>3 DEF Best, InLimit, Q!Better
  <2> QED BY <2>2, <2>3
<1> QED BY <1>1, <1>2

LEMMA QTypes ==
  ASSUME Q!Assumption, QInv, Q!Next
  PROVE  QTyped'
<1>0. QTyped  BY DEF QInv
<1> USE <1>0 DEF QTyped, Q!TypeOK, Q!Assumption
<1>1. ASSUME NEW qs \in (SUBSET Bandwidth) \ {{}}, NEW lim \in Limits, Q!Begin(qs, lim)
      PROVE QTyped'
  BY <1>1 DEF Q!Begin, Q!lines, Q!playlist, Q!count500, QInv, QChoice
<1>2. CASE Q!Master
  BY <1>2 DEF Q!Master, Q!limit, Q!playlist, Q!count500
<1>3. ASSUME NEW bw \in q_unread, Q!LooksAt(bw)  PROVE QTyped'
  BY <1>3 DEF Q!LooksAt, Q!limit, Q!playlist, Q!count500
<1>4. CASE Q!Chosen
  BY <1>4 DEF Q!Chosen, Q!limit, Q!count500
<1>5. ASSUME NEW s \in SeqNo, Q!Index(s)  PROVE QTyped'
  BY <1>5 DEF Q!Index, Q!lines, Q!limit, Q!count500
<1>6. CASE Q!OtherError
  BY <1>6 DEF Q!OtherError, Q!Restart, Q!lines, Q!limit, Q!count500
<1>7. CASE Q!AskMaster
  BY <1>7 DEF Q!AskMaster, Q!lines, Q!limit, Q!count500, Q!playlist
<1>8. CASE Q!Master500
  <2>1. /\ q_limitBw' \in Nat /\ q_seqNo500' = -1 /\ q_bw500' = -1 /\ q_cnt500' = 0
        /\ q_seqNo' = 0 /\ q_bandwidth' = 0 /\ q_failures' = 0 /\ q_pc' = "master"
    BY <1>8 DEF Q!Master500, Q!Restart
  <2>2. UNCHANGED <<q_qualities, q_unread, q_maxBw, q_limitBwOrig>> /\ q_pc = "master"
    BY <1>8 DEF Q!Master500, Q!lines
  <2> QED BY <2>1, <2>2 DEF Q!Enough
<1>9. CASE Q!IndexCounted
  BY <1>9 DEF Q!IndexCounted, Q!Restart, Q!lines, Q!limit, Q!Enough
<1>10. CASE Q!IndexCountedAgain
  BY <1>10 DEF Q!IndexCountedAgain, Q!Restart, Q!lines, Q!limit, Q!Enough, Q!cnt
<1>11. CASE Q!LowerLimit
  <2>1. q_pc = "index" /\ q_bandwidth \in q_qualities /\ q_bandwidth - 1 \in Nat
    BY <1>11 DEF Q!LowerLimit, QInv, QChoice, Best
  <2>2. /\ q_limitBw' = q_bandwidth - 1 /\ q_bw500' = q_bandwidth
        /\ q_cnt500' = Q!cnt /\ q_cnt500' \in 0..Q!Enough
        /\ q_seqNo' = 0 /\ q_bandwidth' = 0 /\ q_failures' = q_failures + 1 /\ q_pc' = "master"
    BY <1>11 DEF Q!LowerLimit, Q!Restart, Q!cnt, Q!Enough
  <2>3. UNCHANGED <<q_qualities, q_unread, q_maxBw, q_limitBwOrig, q_seqNo500>>
    BY <1>11 DEF Q!LowerLimit, Q!lines
  <2> QED BY <2>1, <2>2, <2>3
<1>12. CASE Q!PlaylistError
  BY <1>12 DEF Q!PlaylistError, Q!lines, Q!limit, Q!playlist, Q!Enough, Q!cnt
<1> QED
  BY <1>1, <1>2, <1>3, <1>4, <1>5, <1>6, <1>7, <1>8, <1>9, <1>10, <1>11, <1>12
     DEF Q!Next, Q!Index500

LEMMA QChoices ==
  ASSUME Q!Assumption, QInv, Q!Next
  PROVE  QChoice'
<1>0. /\ \A b \in q_qualities : b \in Nat /\ b > 1
      /\ q_limitBw \in Nat /\ q_unread \subseteq q_qualities
      /\ q_maxBw \in Nat
  BY QNumbers DEF QInv, QTyped, Q!TypeOK, Q!Assumption
<1>1. CASE Q!Master
  BY <1>1 DEF QInv, QTyped, QChoice, Q!Master
<1>2. ASSUME NEW bw \in q_unread, Q!LooksAt(bw)  PROVE QChoice'
  <2> DEFINE Seen == q_qualities \ q_unread
  <2>1. /\ q_pc = "choose" /\ q_pc' = "choose" /\ q_unread' = q_unread \ {bw}
        /\ q_maxBw' = IF Q!Better(bw) THEN bw ELSE q_maxBw
        /\ q_qualities' = q_qualities /\ q_limitBw' = q_limitBw
    BY <1>2 DEF Q!LooksAt, Q!limit
  <2>2. IF Seen = {} THEN q_maxBw = 0 ELSE Best(Seen, q_limitBw, q_maxBw)
    BY <1>0, <2>1 DEF QInv, QChoice
  <2>3. Best(Seen \cup {bw}, q_limitBw, q_maxBw')
    BY <1>0, <2>1, <2>2, BestOfOneMore
  <2>4. q_qualities' \ q_unread' = Seen \cup {bw} /\ q_unread' # q_qualities'
    BY <1>0, <2>1
  <2> QED BY <2>1, <2>3, <2>4 DEF QChoice
<1>3. CASE Q!Chosen
  BY <1>3 DEF QInv, QTyped, QChoice, Q!Chosen, Q!limit
<1>4. CASE \/ \E qs \in (SUBSET Bandwidth) \ {{}}, lim \in Limits : Q!Begin(qs, lim)
           \/ Q!OtherError \/ Q!AskMaster \/ Q!Master500 \/ Q!Index500
  BY <1>4 DEF QInv, QChoice, Q!Begin, Q!OtherError, Q!AskMaster, Q!Master500, Q!Index500,
       Q!IndexCounted, Q!IndexCountedAgain, Q!LowerLimit, Q!PlaylistError, Q!Restart, Q!lines
<1>5. CASE \E s \in SeqNo : Q!Index(s)
  BY <1>5 DEF QInv, QChoice, Q!Index, Q!lines, Q!limit
<1> QED BY <1>1, <1>2, <1>3, <1>4, <1>5 DEF Q!Next

-----------------------------------------------------------------------------
\* How often the limit may still be lowered.
Smallest(qs, bw) == bw \in qs /\ \A b \in qs : bw <= b

ToLower(qs, lim, bw) ==
  IF InLimit(qs, lim) = {} THEN IF Smallest(qs, bw) THEN 0 ELSE 1
  ELSE Cardinality(InLimit(qs, lim))

\* How many failures are counted before the next one has a consequence.
ToCount(seq, count) == IF seq # 0 THEN 2 ELSE IF count >= 2 THEN 0 ELSE 2 - count

\* While answers 5xx go on, each is paid for: by the count at one sequence number,
\* or by the limit, which is put below one quality after the other.
QCount ==
  q_failures > 0 =>
    IF q_pc = "ended" THEN q_failures <= Cardinality(q_qualities) + 4
    ELSE /\ q_seqNo = 0
         /\ q_failures + ToCount(q_seqNo500, q_cnt500)
              + ToLower(q_qualities, q_limitBw, q_bw500) + 1
              <= Cardinality(q_qualities) + 4

\* What is left to count, and to lower, is bounded.
LEMMA ToLowerBounded ==
  ASSUME NEW qs, IsFiniteSet(qs), qs # {}, NEW lim, NEW bw
  PROVE  /\ ToLower(qs, lim, bw) \in Nat
         /\ ToLower(qs, lim, bw) <= Cardinality(qs)
<1>1. InLimit(qs, lim) \in SUBSET qs
  BY DEF InLimit
<1>2. Cardinality(qs) \in Nat /\ Cardinality(qs) >= 1
  BY FS_CardinalityType, FS_EmptySet
<1>3. /\ Cardinality(InLimit(qs, lim)) \in Nat
      /\ Cardinality(InLimit(qs, lim)) <= Cardinality(qs)
  BY <1>1, FS_Subset, FS_CardinalityType
<1> QED BY <1>2, <1>3 DEF ToLower

LEMMA ToCountBounded ==
  ASSUME NEW seq, NEW count \in 0..3
  PROVE  ToCount(seq, count) \in 0..2
BY DEF ToCount

\* When the limit is put below the best quality, there is one less to go to.
LEMMA Lowered ==
  ASSUME NEW qs, IsFiniteSet(qs), \A b \in qs : b \in Nat /\ b > 1, NEW lim \in Nat,
         NEW best, Best(qs, lim, best), NEW bw, bw # best
  PROVE  ToLower(qs, best - 1, best) <= ToLower(qs, lim, bw) - 1
<1> DEFINE In == InLimit(qs, lim)
           Less == InLimit(qs, best - 1)
<1>1. best \in qs
  BY DEF Best
<1>2. Less = {b \in qs : b < best}
  BY <1>1 DEF InLimit
<1>3. CASE In = {}
  <2>1. Smallest(qs, best) /\ Less = {}
    BY <1>1, <1>2, <1>3 DEF Best, Smallest
  <2>2. ~Smallest(qs, bw)
    BY <1>1, <2>1 DEF Smallest
  <2> QED BY <1>3, <2>1, <2>2 DEF ToLower
<1>4. CASE In # {}
  <2>1. best \in In /\ Less = In \ {best}
    BY <1>1, <1>2, <1>4 DEF Best, InLimit
  <2>2. IsFiniteSet(In) /\ Cardinality(In) \in Nat
    <3>1. In \in SUBSET qs  BY DEF InLimit
    <3> QED BY <3>1, FS_Subset, FS_CardinalityType
  <2>3. Cardinality(Less) = Cardinality(In) - 1 /\ Cardinality(In) >= 1
    BY <2>1, <2>2, FS_RemoveElement, FS_EmptySet
  <2>4. ToLower(qs, lim, bw) = Cardinality(In)
    BY <1>4 DEF ToLower
  <2>5. CASE Less # {}
    BY <2>2, <2>3, <2>4, <2>5 DEF ToLower
  <2>6. CASE Less = {}
    <3>1. Smallest(qs, best)
      BY <1>1, <1>2, <2>6 DEF Smallest
    <3> QED BY <2>2, <2>3, <2>4, <2>6, <3>1 DEF ToLower
  <2> QED BY <2>5, <2>6
<1> QED BY <1>3, <1>4

LEMMA QFinite ==
  ASSUME Q!Assumption, QTyped
  PROVE  IsFiniteSet(q_qualities) /\ Cardinality(q_qualities) \in Nat
<1>1. IsFiniteSet(Bandwidth) /\ q_qualities \in SUBSET Bandwidth
  BY QNumbers, QSameFinite DEF Q!Assumption
<1> QED BY <1>1, FS_Subset, FS_CardinalityType

LEMMA QCounts ==
  ASSUME Q!Assumption, QInv, QCount, Q!Next
  PROVE  QCount'
<1> DEFINE K == Cardinality(q_qualities)
           Count == ToCount(q_seqNo500, q_cnt500)
           Lower == ToLower(q_qualities, q_limitBw, q_bw500)
<1>0. /\ QTyped /\ QTyped' /\ K \in Nat /\ q_failures \in Nat
      /\ q_cnt500 \in 0..3 /\ q_cnt500' \in 0..3
  BY QTypes, QFinite DEF QInv, QTyped, Q!TypeOK, Q!Enough
<1>1. CASE q_failures' = 0
  BY <1>1 DEF QCount
\* Neither the counters nor the limit change.
<1>2. CASE /\ UNCHANGED <<q_qualities, q_limitBw, q_seqNo500, q_cnt500, q_bw500, q_failures>>
           /\ q_pc # "ended" /\ q_pc' # "ended" /\ q_seqNo' \in {q_seqNo, 0}
  BY <1>2 DEF QCount
<1>3. ASSUME Q!Index500  PROVE QCount'
  <2>0. q_pc = "index" /\ q_qualities' = q_qualities /\ q_failures' = q_failures + 1
    BY <1>3 DEF Q!Index500, Q!IndexCounted, Q!IndexCountedAgain, Q!LowerLimit, Q!PlaylistError
  <2>1. q_qualities # {} /\ IsFiniteSet(q_qualities)
    BY <1>0, <2>0, QFinite DEF QTyped
  <2> DEFINE Count1 == ToCount(q_seqNo500', q_cnt500')
             Lower1 == ToLower(q_qualities, q_limitBw', q_bw500')
  <2>2. /\ Lower \in Nat /\ Lower <= K /\ Lower1 \in Nat /\ Lower1 <= K
        /\ Count \in 0..2 /\ Count1 \in 0..2
    BY <1>0, <2>1, ToLowerBounded, ToCountBounded
  <2>3. q_failures > 0 => q_seqNo = 0 /\ q_failures + Count + Lower + 1 <= K + 4
    BY <2>0 DEF QCount
  <2>4. CASE Q!PlaylistError
    <3>1. q_pc' = "ended"
      BY <2>4 DEF Q!PlaylistError
    <3>2. q_failures' <= K + 4
      <4> HIDE DEF Count, Lower, K
      <4> QED BY <1>0, <2>0, <2>2, <2>3
    <3> QED BY <2>0, <3>1, <3>2 DEF QCount
  <2>5. CASE ~Q!PlaylistError
    <3>1. q_pc' # "ended" /\ q_seqNo' = 0
      BY <1>3, <2>5 DEF Q!Index500, Q!IndexCounted, Q!IndexCountedAgain, Q!LowerLimit, Q!Restart
    <3>2. q_failures > 0 => Count1 + Lower1 + 1 <= Count + Lower
      <4> SUFFICES ASSUME q_failures > 0 PROVE Count1 + Lower1 + 1 <= Count + Lower
        OBVIOUS
      <4>1. CASE Q!IndexCounted
        <5>1. Count = 2 /\ Count1 = 1
          BY <2>3, <4>1 DEF Q!IndexCounted, ToCount
        <5>2. Lower1 = Lower
          BY <4>1 DEF Q!IndexCounted, Q!limit
        <5> HIDE DEF Count, Count1, Lower, Lower1
        <5> QED BY <2>2, <5>1, <5>2
      <4>2. CASE Q!IndexCountedAgain
        <5>1. Count1 = Count - 1
          BY <1>0, <2>3, <4>2 DEF Q!IndexCountedAgain, ToCount, Q!cnt, Q!Enough
        <5>2. Lower1 = Lower
          BY <4>2 DEF Q!IndexCountedAgain, Q!limit
        <5> HIDE DEF Count, Count1, Lower, Lower1
        <5> QED BY <2>2, <5>1, <5>2
      <4>3. CASE Q!LowerLimit
        <5>1. Count = 0 /\ Count1 = 0
          BY <1>0, <2>3, <4>3 DEF Q!LowerLimit, ToCount, Q!cnt, Q!Enough
        <5>2. Lower1 <= Lower - 1
          <6>1. /\ q_limitBw' = q_bandwidth - 1 /\ q_bw500' = q_bandwidth
                /\ q_bw500 # q_bandwidth /\ Best(q_qualities, q_limitBw, q_bandwidth)
            BY <2>0, <4>3 DEF Q!LowerLimit, Q!SameQuality, QInv, QChoice
          <6>2. q_limitBw \in Nat /\ \A b \in q_qualities : b \in Nat /\ b > 1
            BY <1>0, QNumbers
          <6>3. ToLower(q_qualities, q_bandwidth - 1, q_bandwidth) <= Lower - 1
            BY <2>1, <6>1, <6>2, Lowered
          <6> QED BY <6>1, <6>3
        <5> HIDE DEF Count, Count1, Lower, Lower1
        <5> QED BY <2>2, <5>1, <5>2
      <4> QED BY <1>3, <2>5, <4>1, <4>2, <4>3 DEF Q!Index500
    <3>3. q_failures' + Count1 + Lower1 + 1 <= K + 4
      <4> HIDE DEF Count, Count1, Lower, Lower1, K
      <4>1. CASE q_failures = 0  BY <1>0, <2>0, <2>2, <4>1
      <4>2. CASE q_failures > 0  BY <1>0, <2>0, <2>2, <2>3, <3>2, <4>2
      <4> QED BY <1>0, <4>1, <4>2
    <3> QED BY <2>0, <3>1, <3>3 DEF QCount
  <2> QED BY <2>4, <2>5
<1>4. ASSUME NEW qs \in (SUBSET Bandwidth) \ {{}}, NEW lim \in Limits, Q!Begin(qs, lim)
      PROVE q_failures' = 0
  BY <1>4 DEF Q!Begin, QInv, QTyped
<1>5. Q!Master500 \/ (\E s \in SeqNo : Q!Index(s)) => q_failures' = 0
  BY DEF Q!Master500, Q!Index
<1>6. ASSUME Q!Master \/ Q!Chosen \/ (\E bw \in q_unread : Q!LooksAt(bw))
             \/ Q!OtherError \/ Q!AskMaster
      PROVE  QCount'
  BY <1>2, <1>6 DEF Q!Master, Q!Chosen, Q!LooksAt, Q!OtherError, Q!AskMaster, Q!Restart,
       Q!limit, Q!count500, Q!playlist
<1> QED BY <1>1, <1>3, <1>4, <1>5, <1>6 DEF Q!Next

-----------------------------------------------------------------------------
LEMMA StepQuality ==
  ASSUME Q!Assumption, QInv /\ QCount, [PartsNext]_partVars
  PROVE  (QInv /\ QCount)'
<1>1. CASE Q!Next
  BY <1>1, QTypes, QChoices, QCounts DEF QInv
<1>2. CASE UNCHANGED q_vars
  BY <1>2 DEF q_vars, QInv, QTyped, Q!TypeOK, QChoice, QCount
<1> QED BY <1>1, <1>2 DEF PartsNext, Alone, partVars

\* The choice of getPlaylist and its counters are as they should be in every
\* reachable state, for any finite set of qualities and any limits.
THEOREM QualityCounted == PartsSpec => [](QInv /\ QCount)
<1>1. PartsInit => QInv /\ QCount
  BY PartsAssumption DEF PartsAssumption, PartsInit, Q!Init, QInv, QTyped, QChoice, QCount, Q!TypeOK, Q!Assumption, Q!Enough
<1>2. (QInv /\ QCount) /\ [PartsNext]_partVars => (QInv /\ QCount)'
  BY PartsAssumption, StepQuality DEF PartsAssumption
<1> QED BY <1>1, <1>2, PTL DEF PartsSpec

\* In whatever order the master lists the qualities (the closure set of getPlaylist),
\* and however the limit has been lowered, the best one within it is recorded.
THEOREM BestAlwaysChosen == PartsSpec => []BestWithinLimit
<1>1. QInv => BestWithinLimit
  BY DEF QInv, QChoice, BestWithinLimit, Q!BestWithinLimit, Q!Within, Best, InLimit
<1> QED BY <1>1, QualityCounted, PTL

\* A server that answers every index with 5xx is left after at most four answers
\* more than there are qualities (cnt500, bw500 of getPlaylist).
THEOREM FailuresAlwaysBounded == PartsSpec => []FailuresBounded
<1>1. QInv /\ QCount => FailuresBounded
  <2> SUFFICES ASSUME QInv, QCount PROVE q_failures <= Cardinality(q_qualities) + 4
    BY QSameCardinality DEF FailuresBounded, Q!FailuresBounded
  <2>1. /\ Cardinality(q_qualities) \in Nat /\ q_failures \in Nat
        /\ q_cnt500 \in 0..3 /\ IsFiniteSet(q_qualities)
    BY PartsAssumption, QFinite DEF PartsAssumption, QInv, QTyped, Q!TypeOK, Q!Enough
  <2>2. CASE q_failures = 0 BY <2>1, <2>2
  <2>3. CASE q_failures > 0
    <3>1. q_pc # "begin" /\ q_qualities # {}
      BY <2>3 DEF QInv, QTyped
    <3> DEFINE Count == ToCount(q_seqNo500, q_cnt500)
               Lower == ToLower(q_qualities, q_limitBw, q_bw500)
    <3>2. Count \in 0..2 /\ Lower \in Nat
      BY <2>1, <3>1, ToLowerBounded, ToCountBounded
    <3>3. \/ q_failures <= Cardinality(q_qualities) + 4
          \/ q_failures + Count + Lower + 1 <= Cardinality(q_qualities) + 4
      BY <2>3 DEF QCount
    <3> HIDE DEF Count, Lower
    <3> QED BY <2>1, <3>2, <3>3
  <2> QED BY <2>1, <2>2, <2>3
<1> QED BY <1>1, QualityCounted, PTL

-----------------------------------------------------------------------------
(***************************************************************************)
(* TimeshiftComments.  CommentsExplained looks at what is stored; what is  *)
(* inductive says the same of what is on its way there, and what the hints *)
(* counted so far mean.                                                    *)
(***************************************************************************)
\* What is not only known, but stored or on its way.
Alive == p_stored \cup p_pending \cup P!ToSet(p_wire)
Known == Alive \cup p_lost

\* Nothing newer than one of them is unknown.
PUpward == \A k \in Alive, m \in P!Comment : k < m => m \in Known

\* A second hint in a row needs a small answer: all that was left, unless it was
\* counted while another was under way.
PHints ==
  /\ p_pc = "poll" => p_finishHint <= 2
  /\ p_pc = "done" /\ ~p_slow => P!Comment \subseteq Known
  /\ p_pc = "poll" /\ ~p_slow /\ p_finishHint >= 1 =>
       \/ P!Comment \subseteq Known
       \/ /\ p_finishHint = 1
          /\ (p_fresh = 0 /\ p_wire = <<>>) \/ p_fresh + Len(p_wire) >= Batch

PInv == P!TypeOK /\ PUpward /\ PHints

\* The newest comment before a time; there is one, or it is 0.
LEMMA NewestBefore ==
  ASSUME P!Assumption, NEW time \in Int,
         NEW n, n = P!Max({0} \cup {k \in P!Comment : Date[k] < time})
  PROVE  /\ n \in 0..Newest
         /\ \A k \in P!Comment : Date[k] < time <=> k <= n
<1> DEFINE T == {0} \cup {k \in P!Comment : Date[k] < time}
           D == {Newest - k : k \in T}
<1>0. /\ Newest \in Nat /\ Newest > 0 /\ P!Comment = 1..Newest
      /\ \A k \in P!Comment : Date[k] \in Nat
      /\ \A j, k \in P!Comment : j <= k => Date[j] <= Date[k]
  BY DEF P!Assumption, P!Comment
<1>1. \A k \in T : k \in 0..Newest
  BY <1>0
<1>2. D \subseteq Nat /\ D # {}
  BY <1>0, <1>1
<1>3. PICK x \in D : \A y \in D : x <= y
  BY <1>2, LeastNumber
<1>4. PICK m \in T : x = Newest - m
  OBVIOUS
<1>5. \A k \in T : Newest - m <= Newest - k
  BY <1>3, <1>4
<1>6. \A k \in T : m >= k
  BY <1>0, <1>1, <1>5
<1>7. n \in T /\ \A k \in T : n >= k
  BY <1>6 DEF P!Max
<1>8. n \in 0..Newest
  BY <1>1, <1>7
<1>9. ASSUME NEW k \in P!Comment PROVE Date[k] < time <=> k <= n
  <2>1. Date[k] < time => k <= n
    BY <1>0, <1>1, <1>7
  <2>2. ASSUME k <= n PROVE Date[k] < time
    <3>1. n # 0 /\ n \in P!Comment /\ Date[n] < time
      BY <1>0, <1>7, <1>8, <2>2
    <3>2. Date[k] <= Date[n]
      BY <1>0, <2>2, <3>1
    <3> QED BY <1>0, <3>1, <3>2
  <2> QED BY <2>1, <2>2
<1> QED BY <1>8, <1>9

\* An answer is what comes just before that time, all of it, or a whole batch.
LEMMA AnswerIs ==
  ASSUME P!Assumption, NEW time \in Int
  PROVE  \E n \in 0..Newest :
           /\ \A k \in P!Comment : Date[k] < time <=> k <= n
           /\ P!Answer(time) \in Seq(P!Comment)
           /\ \/ n = 0 /\ P!Answer(time) = <<>>
              \/ /\ Len(P!Answer(time)) >= Batch
                 /\ P!ToSet(P!Answer(time)) = (n - Len(P!Answer(time)) + 1)..n
              \/ n > 0 /\ P!ToSet(P!Answer(time)) = 1..n
<1> DEFINE n == P!Max({0} \cup {k \in P!Comment : Date[k] < time})
           many == IF n < Batch THEN n ELSE Batch
           answer == [i \in 1..many |-> n - many + i]
<1>1. n \in 0..Newest /\ \A k \in P!Comment : Date[k] < time <=> k <= n
  BY NewestBefore
<1>2. P!Answer(time) = answer
  BY DEF P!Answer
<1>3. Newest \in Nat /\ Batch \in Nat /\ Batch > 0 /\ P!Comment = 1..Newest
  BY DEF P!Assumption, P!Comment
<1> HIDE DEF n
<1>4. many \in Nat /\ many <= n
  BY <1>1, <1>3
<1>5. answer \in Seq(P!Comment)
  BY <1>1, <1>3, <1>4, Z3
<1>6. Len(answer) = many /\ DOMAIN answer = 1..many
  BY <1>4
<1>7. P!ToSet(answer) = (n - many + 1)..n
  <2>1. P!ToSet(answer) = {answer[i] : i \in 1..many}
    BY <1>6 DEF P!ToSet
  <2>2. \A i \in 1..many : answer[i] = n - many + i
    OBVIOUS
  <2>3. ASSUME NEW k \in (n - many + 1)..n PROVE \E i \in 1..many : k = n - many + i
    <3>1. k - (n - many) \in 1..many /\ k = n - many + (k - (n - many))
      BY <1>1, <1>4
    <3> QED BY <3>1
  <2>4. \A i \in 1..many : n - many + i \in (n - many + 1)..n
    BY <1>1, <1>4
  <2> HIDE DEF many, answer
  <2> QED BY <2>1, <2>2, <2>3, <2>4
<1>8. CASE n = 0
  <2>1. many = 0 /\ answer = <<>>
    BY <1>3, <1>6, <1>8
  <2> QED BY <1>1, <1>2, <1>5, <1>8, <2>1
<1>9. CASE n > 0 /\ n < Batch
  <2>1. many = n
    BY <1>9
  <2>2. P!ToSet(answer) = 1..n
    <3> HIDE DEF many, answer
    <3>1. n - many + 1 = 1  BY <1>1, <2>1
    <3> QED BY <1>7, <3>1
  <2> QED BY <1>1, <1>2, <1>5, <1>9, <2>2
<1>10. CASE ~(n < Batch)
  <2>1. many = Batch
    BY <1>10
  <2> HIDE DEF many, answer
  <2> QED BY <1>1, <1>2, <1>3, <1>5, <1>6, <1>7, <2>1
<1> QED BY <1>1, <1>8, <1>9, <1>10

\* Neither what is sent nor what is lost is forgotten.
LEMMA KnownStays ==
  ASSUME Known \subseteq Known', Alive' \subseteq Alive, PUpward
  PROVE  PUpward'
BY DEF PUpward, P!Comment

\* The wire as its first comment and the rest.
LEMMA FirstOfWire ==
  ASSUME P!TypeOK, p_wire # <<>>
  PROVE  /\ Head(p_wire) \in P!Comment /\ Tail(p_wire) \in Seq(P!Comment)
         /\ Len(Tail(p_wire)) = Len(p_wire) - 1 /\ Len(p_wire) \in Nat /\ Len(p_wire) > 0
         /\ P!ToSet(p_wire) = {Head(p_wire)} \cup P!ToSet(Tail(p_wire))
<1>1. p_wire \in Seq(P!Comment)  BY DEF P!TypeOK
<1>2. /\ Len(p_wire) \in Nat /\ Len(p_wire) > 0 /\ Head(p_wire) = p_wire[1]
      /\ Tail(p_wire) \in Seq(P!Comment) /\ Len(Tail(p_wire)) = Len(p_wire) - 1
      /\ \A i \in 1..Len(p_wire)-1 : Tail(p_wire)[i] = p_wire[i+1]
      /\ \A i \in 1..Len(p_wire) : p_wire[i] \in P!Comment
  BY <1>1, HeadTailProperties, EmptySeq
<1>3. P!ToSet(p_wire) = {p_wire[i] : i \in 1..Len(p_wire)}
  BY <1>1 DEF P!ToSet
<1>4. P!ToSet(Tail(p_wire)) = {Tail(p_wire)[i] : i \in 1..Len(p_wire)-1}
  <2>1. DOMAIN Tail(p_wire) = 1..Len(p_wire)-1  BY <1>2
  <2> QED BY <2>1 DEF P!ToSet
<1>5. {p_wire[i] : i \in 1..Len(p_wire)} \subseteq {p_wire[1]} \cup {Tail(p_wire)[i] : i \in 1..Len(p_wire)-1}
  <2>1. ASSUME NEW i \in 1..Len(p_wire), i # 1
        PROVE  \E j \in 1..Len(p_wire)-1 : p_wire[i] = Tail(p_wire)[j]
    <3>1. i - 1 \in 1..Len(p_wire)-1 /\ (i - 1) + 1 = i  BY <1>2, <2>1
    <3> QED BY <1>2, <3>1
  <2> QED BY <2>1
<1>6. {p_wire[1]} \cup {Tail(p_wire)[i] : i \in 1..Len(p_wire)-1} \subseteq {p_wire[i] : i \in 1..Len(p_wire)}
  <2>1. ASSUME NEW i \in 1..Len(p_wire)-1
        PROVE  \E j \in 1..Len(p_wire) : Tail(p_wire)[i] = p_wire[j]
    <3>1. i + 1 \in 1..Len(p_wire)  BY <1>2
    <3> QED BY <1>2, <3>1
  <2>2. 1 \in 1..Len(p_wire)  BY <1>2
  <2> QED BY <2>1, <2>2
<1> QED BY <1>2, <1>3, <1>4, <1>5, <1>6

\* The answer is read off against what is stored: it leaves no comment between.
LEMMA PAsks ==
  ASSUME P!Assumption, PInv, NEW when \in P!FromWhen, P!Asks(when)
  PROVE  PInv'
<1> DEFINE answer == P!Answer(P!Before(when))
<1>0. /\ p_pc = "poll" /\ p_fresh = 0 /\ p_wire' = p_wire \o answer
      /\ Len(p_wire') <= MaxWire
      /\ UNCHANGED <<p_pc, p_runs, p_fresh, p_finishHint, p_slow, p_pending, p_stored, p_lost>>
  BY DEF P!Asks
<1>1. p_wire \in Seq(P!Comment) /\ p_stored \subseteq P!Comment
  BY DEF PInv, P!TypeOK
<1>2. Newest \in Nat /\ Newest > 0 /\ P!Comment = 1..Newest /\ Batch \in Nat
      /\ Date \in [P!Comment -> Nat]
      /\ \A j, k \in P!Comment : j <= k => Date[j] <= Date[k]
  BY DEF P!Assumption, P!Comment
<1>3. /\ when \in Nat /\ P!Before(when) = when + 1
      /\ p_stored # {} => \E s \in p_stored : when = Date[s]
  <2>1. CASE p_stored = {}
    BY <1>2, <2>1 DEF P!FromWhen, P!endTime, P!Before
  <2>2. CASE p_stored # {}
    <3>1. P!Min(p_stored) \in p_stored
      <4>1. p_stored \in SUBSET Nat  BY <1>1, <1>2
      <4> QED BY <2>2, <4>1, LeastNumber DEF P!Min
    <3> QED BY <1>1, <1>2, <2>2, <3>1 DEF P!FromWhen, P!Before
  <2> QED BY <2>1, <2>2
<1>4. PICK n \in 0..Newest :
           /\ \A k \in P!Comment : Date[k] < when + 1 <=> k <= n
           /\ answer \in Seq(P!Comment)
           /\ \/ n = 0 /\ answer = <<>>
              \/ Len(answer) >= Batch /\ P!ToSet(answer) = (n - Len(answer) + 1)..n
              \/ n > 0 /\ P!ToSet(answer) = 1..n
  <2>1. when + 1 \in Int /\ answer = P!Answer(when + 1)
    BY <1>3
  <2> HIDE DEF answer
  <2> QED BY <2>1, AnswerIs
<1> HIDE DEF answer
<1>5. P!ToSet(p_wire') = P!ToSet(p_wire) \cup P!ToSet(answer)
      /\ p_wire' \in Seq(P!Comment) /\ Len(p_wire') = Len(p_wire) + Len(answer)
      /\ Len(answer) \in Nat /\ Len(p_wire) \in Nat
  <2>1. /\ p_wire' \in Seq(P!Comment) /\ Len(p_wire') = Len(p_wire) + Len(answer)
        /\ \A i \in 1..Len(p_wire') :
              p_wire'[i] = IF i <= Len(p_wire) THEN p_wire[i] ELSE answer[i - Len(p_wire)]
        /\ Len(answer) \in Nat /\ Len(p_wire) \in Nat
    BY <1>0, <1>1, <1>4, ConcatProperties
  <2>2. /\ P!ToSet(p_wire) = {p_wire[i] : i \in 1..Len(p_wire)}
        /\ P!ToSet(answer) = {answer[i] : i \in 1..Len(answer)}
        /\ P!ToSet(p_wire') = {p_wire'[i] : i \in 1..Len(p_wire')}
    BY <1>1, <1>4, <2>1 DEF P!ToSet
  <2>3. ASSUME NEW i \in 1..Len(p_wire')
        PROVE  p_wire'[i] \in P!ToSet(p_wire) \cup P!ToSet(answer)
    <3>1. CASE i <= Len(p_wire)  BY <2>1, <2>2, <3>1
    <3>2. CASE ~(i <= Len(p_wire))
      <4>1. i - Len(p_wire) \in 1..Len(answer)  BY <2>1, <3>2
      <4> QED BY <2>1, <2>2, <3>2, <4>1
    <3> QED BY <3>1, <3>2
  <2>4. ASSUME NEW i \in 1..Len(p_wire)  PROVE p_wire[i] \in P!ToSet(p_wire')
    <3>1. i \in 1..Len(p_wire') /\ p_wire'[i] = p_wire[i]  BY <2>1
    <3> QED BY <2>2, <3>1
  <2>5. ASSUME NEW i \in 1..Len(answer)  PROVE answer[i] \in P!ToSet(p_wire')
    <3>1. i + Len(p_wire) \in 1..Len(p_wire') /\ ~(i + Len(p_wire) <= Len(p_wire))
          /\ (i + Len(p_wire)) - Len(p_wire) = i
      BY <2>1
    <3>2. p_wire'[i + Len(p_wire)] = answer[i]  BY <2>1, <3>1
    <3> QED BY <2>2, <3>1, <3>2
  <2> QED BY <2>1, <2>2, <2>3, <2>4, <2>5
<1>6. Alive' = Alive \cup P!ToSet(answer) /\ Known' = Known \cup P!ToSet(answer)
  BY <1>0, <1>5 DEF Alive, Known
<1>7. P!ToSet(answer) \subseteq P!Comment /\ P!ToSet(answer) \subseteq 0..n
  <2>1. P!ToSet(answer) \subseteq P!Comment
    BY <1>4 DEF P!ToSet
  <2>2. answer = <<>> => P!ToSet(answer) = {}
    BY DEF P!ToSet
  <2>3. CASE P!ToSet(answer) = (n - Len(answer) + 1)..n
    <3> SUFFICES ASSUME NEW k \in P!ToSet(answer) PROVE k \in 0..n
      BY <2>1
    <3>1. k \in Int /\ k >= 0 /\ k <= n
      BY <1>2, <1>5, <2>1, <2>3
    <3> QED BY <3>1
  <2> QED BY <1>2, <1>4, <2>1, <2>2, <2>3
\* What is newer than the newest of the answer is known.
<1>8. n = 0 \/ \A m \in P!Comment : m > n => m \in Known
  <2>1. CASE p_stored = {}
    <3>1. when \in {0, Date[Newest]}
      BY <2>1 DEF P!FromWhen, P!endTime
    <3>2. when = 0 => n = 0
      <4> SUFFICES ASSUME when = 0, n # 0 PROVE FALSE
        OBVIOUS
      <4>1. n \in P!Comment  BY <1>2, <1>4
      <4>2. Date[n] \in Nat \ {0}  BY <4>1 DEF P!Assumption
      <4> QED BY <1>4, <4>1, <4>2
    <3>3. when = Date[Newest] => n >= Newest
      BY <1>2, <1>4
    <3> QED BY <1>2, <1>4, <3>1, <3>2, <3>3
  <2>2. CASE p_stored # {}
    <3>1. PICK s \in p_stored : when = Date[s]
      BY <1>3, <2>2
    <3>2. s <= n /\ s \in P!Comment
      BY <1>1, <1>2, <1>4, <3>1
    <3> QED BY <1>2, <3>1, <3>2 DEF PInv, PUpward, Alive
  <2> QED BY <2>1, <2>2
<1>9. PUpward'
  <2> SUFFICES ASSUME NEW k \in Alive', NEW m \in P!Comment, k < m  PROVE m \in Known'
    BY DEF PUpward
  <2>1. CASE k \in Alive
    BY <1>6, <2>1 DEF PInv, PUpward
  <2>2. CASE k \in P!ToSet(answer)
    <3>1. n # 0 /\ k \in 0..n
      <4>1. n = 0 => P!ToSet(answer) = {}
        <5> SUFFICES ASSUME n = 0, NEW j \in P!ToSet(answer) PROVE FALSE
          OBVIOUS
        <5> QED BY <1>2, <1>7
      <4> QED BY <1>7, <2>2, <4>1
    <3>2. CASE m > n  BY <1>6, <1>8, <3>1, <3>2
    <3>3. CASE ~(m > n)
      <4>1. m \in P!ToSet(answer)
        BY <1>2, <1>4, <1>5, <2>2, <3>1, <3>3
      <4> QED BY <1>6, <4>1
    <3> QED BY <3>2, <3>3
  <2> QED BY <1>6, <2>1, <2>2
<1>10. PHints'
  <2> SUFFICES ASSUME ~p_slow, p_finishHint >= 1, ~(P!Comment \subseteq Known')
        PROVE /\ p_finishHint = 1
              /\ (p_fresh = 0 /\ p_wire' = <<>>) \/ p_fresh + Len(p_wire') >= Batch
    BY <1>0 DEF PInv, PHints
  <2>1. /\ p_finishHint = 1
        /\ (p_fresh = 0 /\ p_wire = <<>>) \/ p_fresh + Len(p_wire) >= Batch
    BY <1>0, <1>6 DEF PInv, PHints
  <2>2. ~(n > 0 /\ P!ToSet(answer) = 1..n)
    BY <1>2, <1>4, <1>6, <1>8
  <2>3. CASE Len(answer) >= Batch
    BY <1>0, <1>2, <1>5, <2>1, <2>3
  <2>4. CASE answer = <<>>
    <3>1. p_wire' = p_wire  BY <1>0, <1>1, <2>4
    <3> QED BY <2>1, <3>1
  <2> QED BY <1>4, <2>2, <2>3, <2>4
<1>11. P!TypeOK'
  BY <1>0, <1>5 DEF PInv, P!TypeOK
<1> QED BY <1>9, <1>10, <1>11 DEF PInv

\* What is read goes on to its goroutine.
LEMMA PRead ==
  ASSUME P!Assumption, PInv, P!Read
  PROVE  PInv'
<1>1. /\ p_pc \in {"poll", "done"} /\ p_wire # <<>> /\ p_wire' = Tail(p_wire)
      /\ p_pending' = p_pending \cup {Head(p_wire)}
      /\ p_fresh' = IF p_pc = "poll" THEN p_fresh + 1 ELSE 0
      /\ UNCHANGED <<p_pc, p_runs, p_finishHint, p_slow, p_stored, p_lost>>
  BY DEF P!Read
<1>2. /\ Head(p_wire) \in P!Comment /\ Tail(p_wire) \in Seq(P!Comment)
      /\ Len(Tail(p_wire)) = Len(p_wire) - 1 /\ Len(p_wire) \in Nat /\ Len(p_wire) > 0
      /\ P!ToSet(p_wire) = {Head(p_wire)} \cup P!ToSet(Tail(p_wire))
  BY <1>1, FirstOfWire DEF PInv
<1>3. Alive' = Alive /\ Known' = Known
  BY <1>1, <1>2 DEF Alive, Known
<1>4. PUpward'
  BY <1>3, KnownStays DEF PInv
<1>5. PHints'
  <2> SUFFICES ASSUME p_pc = "poll", ~p_slow, p_finishHint >= 1,
                      ~(P!Comment \subseteq Known)
        PROVE  p_finishHint = 1 /\ p_fresh' + Len(p_wire') >= Batch
    BY <1>1, <1>3 DEF PInv, PHints
  <2>1. p_finishHint = 1 /\ p_fresh + Len(p_wire) >= Batch
    BY <1>1 DEF PInv, PHints
  <2>2. p_fresh \in Nat /\ Batch \in Nat  BY DEF PInv, P!TypeOK, P!Assumption
  <2> QED BY <1>1, <1>2, <2>1, <2>2
<1>6. P!TypeOK'
  <2>1. MaxWire \in Nat  BY DEF P!Assumption
  <2> QED BY <1>1, <1>2, <2>1 DEF PInv, P!TypeOK
<1> QED BY <1>4, <1>5, <1>6 DEF PInv

\* A small growth: the first of a row, or the end.
LEMMA PHint ==
  ASSUME P!Assumption, PInv, P!Hint
  PROVE  PInv'
<1>1. /\ p_pc = "poll" /\ p_fresh \in 1..Few-1 /\ p_fresh' = 0
      /\ p_finishHint' = p_finishHint + 1 /\ p_slow' = (p_slow \/ p_wire # <<>>)
      /\ p_pc' = IF p_finishHint' > 2 THEN "done" ELSE "poll"
      /\ UNCHANGED <<p_runs, p_wire, p_pending, p_stored, p_lost>>
  BY DEF P!Hint
<1>2. Alive' = Alive /\ Known' = Known
  BY <1>1 DEF Alive, Known
<1>3. PUpward'
  BY <1>2, KnownStays DEF PInv
<1>4. /\ p_finishHint \in 0..3 /\ p_fresh \in Nat /\ Batch \in Nat /\ Few \in Nat /\ Few <= Batch
      /\ p_slow \in BOOLEAN
  BY DEF PInv, P!TypeOK, P!Assumption
\* A second hint in a row, and nothing under way: the answer was all there is.
<1>5. p_finishHint >= 1 /\ ~p_slow' => P!Comment \subseteq Known
  <2> SUFFICES ASSUME p_finishHint >= 1, ~p_slow', ~(P!Comment \subseteq Known)  PROVE FALSE
    OBVIOUS
  <2>1. ~p_slow /\ p_wire = <<>>
    BY <1>1
  <2>2. (p_fresh = 0 /\ p_wire = <<>>) \/ p_fresh + Len(p_wire) >= Batch
    BY <1>1, <2>1 DEF PInv, PHints
  <2>3. Len(p_wire) = 0  BY <2>1
  <2> QED BY <1>1, <1>4, <2>2, <2>3
<1>6. PHints'
  <2>1. CASE p_finishHint = 0
    <3>1. p_finishHint' = 1 /\ p_pc' = "poll"  BY <1>1, <2>1
    <3>2. ~p_slow' => p_wire' = <<>>  BY <1>1
    <3> QED BY <1>1, <3>1, <3>2 DEF PHints
  <2>2. CASE p_finishHint >= 1
    <3>1. p_pc' = "poll" => p_finishHint' <= 2
      BY <1>1, <1>4
    <3>2. ~p_slow' => P!Comment \subseteq Known'
      BY <1>2, <1>5, <2>2
    <3> QED BY <3>1, <3>2 DEF PHints
  <2> QED BY <1>4, <2>1, <2>2
<1>7. P!TypeOK'
  <2>1. p_finishHint <= 2 \/ p_finishHint = 3
    BY <1>4
  <2>2. p_finishHint # 3
    BY <1>1 DEF PInv, PHints
  <2>3. p_finishHint' \in 0..3 /\ p_pc' \in {"poll", "done"} /\ p_slow' \in BOOLEAN
    BY <1>1, <1>4, <2>1, <2>2
  <2> QED BY <1>1, <2>3 DEF PInv, P!TypeOK
<1> QED BY <1>3, <1>6, <1>7 DEF PInv

\* A new session begins with nothing under way.
LEMMA PStart ==
  ASSUME P!Assumption, PInv, P!Start
  PROVE  PInv'
<1>1. /\ p_pc \in {"down", "idle"} /\ p_runs < MaxRuns
      /\ p_pc' = "poll" /\ p_runs' = p_runs + 1
      /\ p_wire' = <<>> /\ p_fresh' = 0 /\ p_finishHint' = 0 /\ p_slow' = FALSE
      /\ UNCHANGED <<p_pending, p_stored, p_lost>>
  BY DEF P!Start
<1>2. p_wire = <<>>
  BY <1>1 DEF PInv, P!TypeOK
<1>3. Alive' = Alive /\ Known' = Known
  BY <1>1, <1>2 DEF Alive, Known
<1>4. PUpward'
  BY <1>3, KnownStays DEF PInv
<1>5. PHints'
  BY <1>1 DEF PHints
<1>6. P!TypeOK'
  <2>1. /\ MaxRuns \in Nat /\ MaxWire \in Nat /\ p_runs \in 0..MaxRuns
        /\ <<>> \in Seq(P!Comment) /\ Len(<<>>) = 0
    BY DEF PInv, P!TypeOK, P!Assumption
  <2>2. p_runs' \in 0..MaxRuns
    BY <1>1, <2>1
  <2>3. p_wire' \in Seq(P!Comment) /\ Len(p_wire') <= MaxWire
    BY <1>1, <2>1
  <2>4. /\ p_pc' = "poll" /\ p_fresh' = 0 /\ p_finishHint' = 0 /\ p_slow' \in BOOLEAN
        /\ p_pending' = p_pending /\ p_stored' = p_stored /\ p_lost' = p_lost
    BY <1>1
  <2> QED BY <2>2, <2>3, <2>4 DEF PInv, P!TypeOK
<1> QED BY <1>4, <1>5, <1>6 DEF PInv

\* An answer of the usual size.
LEMMA PMany ==
  ASSUME P!Assumption, PInv, P!Many
  PROVE  PInv'
<1>1. /\ p_pc = "poll" /\ p_fresh' = 0 /\ p_finishHint' = 0
      /\ UNCHANGED <<p_pc, p_runs, p_wire, p_slow, p_pending, p_stored, p_lost>>
  BY DEF P!Many
<1>2. Alive' = Alive /\ Known' = Known
  BY <1>1 DEF Alive, Known
<1>3. PUpward'
  BY <1>2, KnownStays DEF PInv
<1>4. PHints'
  BY <1>1 DEF PHints
<1>5. P!TypeOK'
  BY <1>1 DEF PInv, P!TypeOK
<1> QED BY <1>3, <1>4, <1>5 DEF PInv

\* A comment goes from its goroutine into the database.
LEMMA PInsert ==
  ASSUME P!Assumption, PInv, NEW k \in p_pending, P!Insert(k)
  PROVE  PInv'
<1>1. /\ p_pending' = p_pending \ {k} /\ p_stored' = p_stored \cup {k}
      /\ UNCHANGED <<p_pc, p_runs, p_wire, p_fresh, p_finishHint, p_slow, p_lost>>
  BY DEF P!Insert, P!session
<1>2. Alive' = Alive /\ Known' = Known
  BY <1>1 DEF Alive, Known
<1>3. PUpward'
  BY <1>2, KnownStays DEF PInv
<1>4. PHints'
  BY <1>1, <1>2 DEF PInv, PHints
<1>5. P!TypeOK'
  BY <1>1 DEF PInv, P!TypeOK
<1> QED BY <1>3, <1>4, <1>5 DEF PInv

\* What a cut loses is known to be lost.
LEMMA PCut ==
  ASSUME P!Assumption, PInv, P!Disconnect \/ P!Interrupt \/ P!Down
  PROVE  PInv'
<1>1. /\ p_wire' = <<>> /\ p_fresh' = 0 /\ p_finishHint' = 0
      /\ p_runs' = p_runs /\ p_stored' = p_stored
      /\ p_slow' = p_slow \/ p_slow' = FALSE
  BY DEF P!Disconnect, P!Interrupt, P!Down, P!Cut
<1>2. \/ /\ p_pc' = (IF p_pc = "done" THEN "done" ELSE "idle")
         /\ p_pending' = p_pending /\ p_lost' = p_lost \cup P!ToSet(p_wire) /\ p_slow' = p_slow
      \/ p_pc' = "interrupted" /\ p_pending' = p_pending /\ p_lost' = p_lost \cup P!ToSet(p_wire)
      \/ p_pc' = "down" /\ p_pending' = {} /\ p_lost' = (p_lost \cup P!ToSet(p_wire)) \cup p_pending
  BY DEF P!Disconnect, P!Interrupt, P!Down
<1>3. P!ToSet(p_wire') = {}
  BY <1>1 DEF P!ToSet
<1>4. Alive' \subseteq Alive /\ Known \subseteq Known'
  BY <1>1, <1>2, <1>3 DEF Alive, Known
<1>5. PUpward'
  BY <1>4, KnownStays DEF PInv
<1>6. PHints'
  <2>1. p_pc' # "poll"
    BY <1>2
  <2>2. p_pc' = "done" => p_pc = "done" /\ p_slow' = p_slow
    BY <1>2
  <2> QED BY <1>4, <2>1, <2>2 DEF PInv, PHints
<1>7. P!TypeOK'
  <2>1. P!ToSet(p_wire) \subseteq P!Comment
    BY DEF PInv, P!TypeOK, P!ToSet
  <2>2. MaxWire \in Nat /\ <<>> \in Seq(P!Comment) /\ Len(<<>>) = 0
    BY DEF P!Assumption
  <2>3. p_slow' \in BOOLEAN
    BY <1>1 DEF PInv, P!TypeOK
  <2>4. /\ p_pending' \subseteq P!Comment /\ p_lost' \subseteq P!Comment
        /\ p_pc' \in {"down", "idle", "poll", "done", "interrupted"}
        /\ p_pc' = "down" => p_pending' = {}
    BY <1>2, <2>1 DEF PInv, P!TypeOK
  <2>5. Len(p_wire') <= MaxWire /\ p_wire' \in Seq(P!Comment) /\ p_fresh' \in Nat /\ p_finishHint' \in 0..3
    BY <1>1, <2>2
  <2> QED BY <1>1, <2>3, <2>4, <2>5 DEF PInv, P!TypeOK
<1> QED BY <1>5, <1>6, <1>7 DEF PInv

\* The first process.
LEMMA PFirst == P!Assumption /\ P!Init => PInv
<1> SUFFICES ASSUME P!Assumption, P!Init PROVE PInv
  OBVIOUS
<1>1. p_wire = <<>> /\ P!ToSet(p_wire) = {} /\ p_wire \in Seq(P!Comment) /\ Len(p_wire) = 0
  BY DEF P!Init, P!ToSet
<1>2. P!TypeOK
  <2>1. MaxRuns \in Nat /\ MaxWire \in Nat /\ 0 \in 0..MaxRuns
    BY DEF P!Assumption
  <2>2. Len(p_wire) <= MaxWire
    BY <1>1, <2>1
  <2>3. /\ p_pc = "down" /\ p_runs = 0 /\ p_fresh = 0 /\ p_finishHint = 0 /\ p_slow \in BOOLEAN
        /\ p_pending = {} /\ p_stored = {} /\ p_lost = {} /\ p_wire = <<>>
    BY DEF P!Init
  <2> QED BY <1>1, <2>1, <2>2, <2>3 DEF P!TypeOK
<1>3. PUpward /\ PHints
  BY <1>1 DEF P!Init, PUpward, PHints, Alive
<1> QED BY <1>2, <1>3 DEF PInv

\* Every step.
LEMMA PNext == P!Assumption /\ PInv /\ [P!Next]_p_vars => PInv'
<1> SUFFICES ASSUME P!Assumption, PInv, [P!Next]_p_vars PROVE PInv'
  OBVIOUS
<1>1. CASE UNCHANGED p_vars
  BY <1>1 DEF p_vars, PInv, P!TypeOK, PUpward, PHints, Alive, Known
<1>2. CASE P!Next
  BY <1>2, PStart, PAsks, PHint, PMany, PRead, PInsert, PCut DEF P!Next
<1> QED BY <1>1, <1>2

\* What is under way, pending, stored and lost is as it should be in every reachable
\* state, for any number of comments at any times and any sizes of an answer.
THEOREM PollerInv == PartsSpec => []PInv
<1>1. PartsInit => PInv
  BY PartsAssumption, PFirst DEF PartsInit
<1>2. PInv /\ [PartsNext]_partVars => PInv'
  <2> SUFFICES ASSUME PInv, [PartsNext]_partVars PROVE [P!Next]_p_vars
    BY PartsAssumption, PNext
  <2> QED BY DEF PartsNext, Alone, partVars
<1> QED BY <1>1, <1>2, PTL DEF PartsSpec

\* Nothing newer than a stored comment is missing without a reason, and nothing at
\* all when the poller (startComment) has taken a third small growth for the end.
THEOREM CommentsAlwaysExplained == PartsSpec => []CommentsExplained
<1>1. PInv => CommentsExplained
  <2> SUFFICES ASSUME PInv PROVE CommentsExplained
    OBVIOUS
  <2>1. P!Known = Known
    BY DEF P!Known, Known, Alive
  <2>2. \A k \in p_stored, m \in P!Comment : k < m => m \in P!Known
    BY <2>1 DEF PInv, PUpward, Alive
  <2>3. P!Known \subseteq P!Comment
    BY DEF PInv, P!TypeOK, P!ToSet, P!Known
  <2>4. p_pc = "done" /\ ~p_slow => P!Known = P!Comment
    BY <2>1, <2>3 DEF PInv, PHints
  <2> QED BY <2>2, <2>4 DEF CommentsExplained, P!CommentsExplained
<1> QED BY <1>1, PollerInv, PTL

-----------------------------------------------------------------------------
(***************************************************************************)
(* Converter.  What is inductive says of the rows read so far what         *)
(* FilesAreRuns says of all of them, and where the next one may go.        *)
(***************************************************************************)
\* FiniteSetsExt!Min is what its name says on a set of numbers.
LEMMA LeastRow ==
  ASSUME NEW T \in SUBSET Nat, T # {}
  PROVE  V!Min(T) \in T /\ \A y \in T : V!Min(T) <= y
BY LeastNumber DEF V!Min

-----------------------------------------------------------------------------
\* What the recording is and the files are, for any files, kinds and database.
InFiles(L, n) == \E f \in 1..Len(L) : \E i \in 1..Len(L[f]) : L[f][i] = n

\* n can be played after m.
Joined(k, z, m, n) == n = m + 1 /\ (z \/ k[m] = k[n])

LastIn(s) == s[Len(s)]

\* No file has a gap or two qualities, and no two files could have been one.
Pieces(L, k, z) ==
  /\ \A f \in 1..Len(L) : \A i \in 1..Len(L[f])-1 : Joined(k, z, L[f][i], L[f][i+1])
  /\ z \/ \A f \in 1..Len(L) : \A i \in 1..Len(L[f]) : k[L[f][i]] = k[LastIn(L[f])]
  /\ \A f \in 1..Len(L)-1 :
       /\ L[f] # <<>>
       /\ L[f+1] # <<>> => LastIn(L[f]) < L[f+1][1] /\ ~Joined(k, z, LastIn(L[f]), L[f+1][1])

\* x may come next.
Fits(L, k, z, x) ==
  /\ L[Len(L)] # <<>> => Joined(k, z, LastIn(L[Len(L)]), x)
  /\ L[Len(L)] = <<>> /\ Len(L) > 1 =>
       LastIn(L[Len(L)-1]) < x /\ ~Joined(k, z, LastIn(L[Len(L)-1]), x)

\* Another file, with nothing in it yet.
LEMMA FileAdded ==
  ASSUME NEW L \in Seq(Seq(Seqno)), NEW M, M = Append(L, <<>>)
  PROVE  /\ M \in Seq(Seq(Seqno)) /\ Len(M) = Len(L) + 1 /\ Len(L) \in Nat
         /\ \A f \in 1..Len(L) : M[f] = L[f]
         /\ M[Len(M)] = <<>> /\ Len(M[Len(M)]) = 0
         /\ \A n : InFiles(M, n) <=> InFiles(L, n)
<1>1. <<>> \in Seq(Seqno)
  OBVIOUS
<1>2. /\ M \in Seq(Seq(Seqno)) /\ Len(M) = Len(L) + 1 /\ Len(L) \in Nat
      /\ \A f \in 1..Len(L) : M[f] = L[f]
      /\ M[Len(L)+1] = <<>>
  BY <1>1, AppendProperties
<1>3. M[Len(M)] = <<>> /\ Len(M[Len(M)]) = 0
  BY <1>2
<1>4. ASSUME NEW n, InFiles(M, n)  PROVE InFiles(L, n)
  <2>1. PICK f \in 1..Len(M) : \E i \in 1..Len(M[f]) : M[f][i] = n
    BY <1>4 DEF InFiles
  <2>2. f # Len(M)
    BY <1>3, <2>1
  <2>3. f \in 1..Len(L) /\ M[f] = L[f]
    BY <1>2, <2>2
  <2> QED BY <2>1, <2>3 DEF InFiles
<1>5. ASSUME NEW n, InFiles(L, n)  PROVE InFiles(M, n)
  <2>1. PICK f \in 1..Len(L) : \E i \in 1..Len(L[f]) : L[f][i] = n
    BY <1>5 DEF InFiles
  <2>2. f \in 1..Len(M) /\ M[f] = L[f]
    BY <1>2
  <2> QED BY <2>1, <2>2 DEF InFiles
<1> QED BY <1>2, <1>3, <1>4, <1>5

\* It may be begun when the last one has something.
LEMMA PiecesBegun ==
  ASSUME NEW L \in Seq(Seq(Seqno)), NEW k, NEW z \in BOOLEAN,
         Pieces(L, k, z), Len(L) > 0 => L[Len(L)] # <<>>
  PROVE  Pieces(Append(L, <<>>), k, z)
<1> DEFINE M == Append(L, <<>>)
<1>1. /\ Len(M) = Len(L) + 1 /\ Len(L) \in Nat
      /\ \A f \in 1..Len(L) : M[f] = L[f]
      /\ M[Len(M)] = <<>> /\ Len(M[Len(M)]) = 0
  BY FileAdded
<1>2. ASSUME NEW f \in 1..Len(M)
      PROVE  /\ \A i \in 1..Len(M[f])-1 : Joined(k, z, M[f][i], M[f][i+1])
             /\ z \/ \A i \in 1..Len(M[f]) : k[M[f][i]] = k[LastIn(M[f])]
  <2>1. CASE f = Len(M)
    BY <1>1, <2>1
  <2>2. CASE f # Len(M)
    <3>1. f \in 1..Len(L) /\ M[f] = L[f]  BY <1>1, <2>2
    <3> QED BY <3>1 DEF Pieces
  <2> QED BY <2>1, <2>2
<1>3. ASSUME NEW f \in 1..Len(M)-1
      PROVE  /\ M[f] # <<>>
             /\ M[f+1] # <<>> => LastIn(M[f]) < M[f+1][1] /\ ~Joined(k, z, LastIn(M[f]), M[f+1][1])
  <2>1. f \in 1..Len(L) /\ M[f] = L[f]  BY <1>1
  <2>2. CASE f = Len(L)
    BY <1>1, <2>1, <2>2
  <2>3. CASE f # Len(L)
    <3>1. f \in 1..Len(L)-1 /\ f + 1 \in 1..Len(L) /\ M[f+1] = L[f+1]  BY <1>1, <2>1, <2>3
    <3> QED BY <2>1, <3>1 DEF Pieces
  <2> QED BY <2>2, <2>3
<1> QED BY <1>2, <1>3 DEF Pieces

\* Another chunk, in the last file.
LEMMA ChunkAdded ==
  ASSUME NEW L \in Seq(Seq(Seqno)), Len(L) > 0, NEW x \in Seqno, NEW M,
         M = [L EXCEPT ![Len(L)] = Append(@, x)]
  PROVE  /\ M \in Seq(Seq(Seqno)) /\ Len(M) = Len(L) /\ Len(L) \in Nat
         /\ \A f \in 1..Len(L)-1 : M[f] = L[f]
         /\ L[Len(L)] \in Seq(Seqno) /\ M[Len(L)] \in Seq(Seqno) /\ Len(L[Len(L)]) \in Nat
         /\ Len(M[Len(L)]) = Len(L[Len(L)]) + 1
         /\ \A i \in 1..Len(L[Len(L)]) : M[Len(L)][i] = L[Len(L)][i]
         /\ M[Len(L)][Len(L[Len(L)])+1] = x
<1>1. Len(L) \in Nat /\ Len(L) \in 1..Len(L) /\ DOMAIN L = 1..Len(L)
      /\ L[Len(L)] \in Seq(Seqno)
  BY LenProperties, ElementOfSeq
<1>2. M[Len(L)] = Append(L[Len(L)], x)
  BY <1>1
<1> DEFINE Cur == L[Len(L)]
           New == M[Len(L)]
<1>3. /\ New \in Seq(Seqno) /\ Len(Cur) \in Nat /\ Len(New) = Len(Cur) + 1
      /\ \A i \in 1..Len(Cur) : New[i] = Cur[i]
      /\ New[Len(Cur)+1] = x
  <2>1. Cur \in Seq(Seqno) /\ New = Append(Cur, x)  BY <1>1, <1>2
  <2> HIDE DEF Cur, New
  <2> QED BY <2>1, AppendProperties, LenProperties
<1>4. M \in Seq(Seq(Seqno)) /\ Len(M) = Len(L)
  <2>1. Append(L[Len(L)], x) \in Seq(Seqno)
    BY <1>2, <1>3
  <2>2. M = [L EXCEPT ![Len(L)] = Append(L[Len(L)], x)]
    OBVIOUS
  <2> QED BY <1>1, <2>1, <2>2, ExceptSeq
<1>5. \A f \in 1..Len(L)-1 : M[f] = L[f]
  <2> SUFFICES ASSUME NEW f \in 1..Len(L)-1 PROVE M[f] = L[f]
    OBVIOUS
  <2>0. Len(L) \in Nat  BY <1>1
  <2>1. f \in 1..Len(L) /\ f # Len(L)  BY <2>0
  <2>2. f \in DOMAIN L  BY <1>1, <2>1
  <2> QED BY <2>1, <2>2
<1> QED BY <1>1, <1>3, <1>4, <1>5

\* It is the only one that is there now and was not before.
LEMMA ChunkIn ==
  ASSUME NEW L \in Seq(Seq(Seqno)), Len(L) > 0, NEW x \in Seqno, NEW n
  PROVE  InFiles([L EXCEPT ![Len(L)] = Append(@, x)], n) <=> InFiles(L, n) \/ n = x
<1> DEFINE c == Len(L)
           M == [L EXCEPT ![c] = Append(@, x)]
<1>0. /\ Len(M) = c /\ c \in Nat /\ c > 0
      /\ \A f \in 1..c-1 : M[f] = L[f]
      /\ Len(L[c]) \in Nat /\ Len(M[c]) = Len(L[c]) + 1
      /\ \A i \in 1..Len(L[c]) : M[c][i] = L[c][i]
      /\ M[c][Len(L[c])+1] = x
  BY ChunkAdded
<1> HIDE DEF c, M
<1>c. Len(L) = c  BY DEF c
<1>1. ASSUME InFiles(M, n)  PROVE InFiles(L, n) \/ n = x
  <2>1. PICK f \in 1..c : \E j \in 1..Len(M[f]) : M[f][j] = n
    BY <1>0, <1>1 DEF InFiles
  <2>i. PICK i \in 1..Len(M[f]) : M[f][i] = n
    BY <2>1
  <2>2. CASE f # c
    <3>1. f \in 1..c-1 /\ M[f] = L[f]  BY <1>0, <2>2
    <3> QED BY <1>c, <2>i, <3>1 DEF InFiles
  <2>3. CASE f = c /\ i # Len(L[c])+1
    <3>1. i \in 1..Len(L[c]) /\ L[c][i] = n  BY <1>0, <2>i, <2>3
    <3>2. c \in 1..Len(L)  BY <1>0, <1>c
    <3> QED BY <3>1, <3>2 DEF InFiles
  <2>4. CASE f = c /\ i = Len(L[c])+1
    BY <1>0, <2>i, <2>4
  <2> QED BY <2>2, <2>3, <2>4
<1>2. ASSUME InFiles(L, n)  PROVE InFiles(M, n)
  <2>1. PICK f \in 1..c : \E j \in 1..Len(L[f]) : L[f][j] = n
    BY <1>c, <1>2 DEF InFiles
  <2>i. PICK i \in 1..Len(L[f]) : L[f][i] = n
    BY <2>1
  <2>2. CASE f # c
    <3>1. f \in 1..c-1 /\ M[f] = L[f]  BY <1>0, <2>2
    <3> QED BY <1>0, <2>i, <3>1 DEF InFiles
  <2>3. CASE f = c
    <3>1. i \in 1..Len(M[c]) /\ M[c][i] = n  BY <1>0, <2>i, <2>3
    <3>2. c \in 1..Len(M)  BY <1>0
    <3> QED BY <3>1, <3>2 DEF InFiles
  <2> QED BY <2>2, <2>3
<1>3. InFiles(M, x)
  <2>1. Len(L[c])+1 \in 1..Len(M[c]) /\ c \in 1..Len(M)  BY <1>0
  <2> QED BY <1>0, <2>1 DEF InFiles
<1>4. InFiles(M, n) <=> InFiles(L, n) \/ n = x
  BY <1>1, <1>2, <1>3
<1> QED BY <1>4 DEF M, c

\* It may be added if it fits.
LEMMA PiecesGrow ==
  ASSUME NEW L \in Seq(Seq(Seqno)), Len(L) > 0, NEW x \in Seqno, NEW k, NEW z \in BOOLEAN,
         Pieces(L, k, z), Fits(L, k, z, x)
  PROVE  Pieces([L EXCEPT ![Len(L)] = Append(@, x)], k, z)
<1> DEFINE c == Len(L)
           M == [L EXCEPT ![c] = Append(@, x)]
           Cur == L[c]
           New == M[c]
           m == Len(Cur)
<1>0. /\ Len(M) = c /\ c \in Nat /\ c > 0
      /\ \A f \in 1..c-1 : M[f] = L[f]
      /\ m \in Nat /\ Len(New) = m + 1
      /\ \A i \in 1..m : New[i] = Cur[i]
      /\ New[m+1] = x
      /\ Cur \in Seq(Seqno)
  BY ChunkAdded
<1>c. Len(L) \in Nat /\ Len(L) > 0 /\ Len(L) \in 1..Len(L)
      /\ \A f \in 1..Len(L)-1 : f \in 1..Len(L)
  <2>1. Len(L) \in Nat  BY ChunkAdded
  <2> QED BY <2>1
<1>1. m = 0 <=> Cur = <<>>
  BY <1>0, EmptySeq
<1>2. /\ Cur # <<>> => Joined(k, z, Cur[m], x)
      /\ Cur = <<>> /\ c > 1 => LastIn(L[c-1]) < x /\ ~Joined(k, z, LastIn(L[c-1]), x)
  BY DEF Fits, LastIn
<1>3. /\ \A i \in 1..m-1 : Joined(k, z, Cur[i], Cur[i+1])
      /\ z \/ \A i \in 1..m : k[Cur[i]] = k[Cur[m]]
  <2>1. c \in 1..Len(L)  BY <1>c
  <2> QED BY <2>1 DEF Pieces, LastIn
<1>4. \A f \in 1..c-1 :
        /\ L[f] # <<>>
        /\ L[f+1] # <<>> => LastIn(L[f]) < L[f+1][1] /\ ~Joined(k, z, LastIn(L[f]), L[f+1][1])
        /\ \A i \in 1..Len(L[f])-1 : Joined(k, z, L[f][i], L[f][i+1])
        /\ z \/ \A i \in 1..Len(L[f]) : k[L[f][i]] = k[LastIn(L[f])]
  <2> SUFFICES ASSUME NEW f \in 1..c-1
        PROVE  /\ L[f] # <<>>
               /\ L[f+1] # <<>> => LastIn(L[f]) < L[f+1][1] /\ ~Joined(k, z, LastIn(L[f]), L[f+1][1])
               /\ \A i \in 1..Len(L[f])-1 : Joined(k, z, L[f][i], L[f][i+1])
               /\ z \/ \A i \in 1..Len(L[f]) : k[L[f][i]] = k[LastIn(L[f])]
    OBVIOUS
  <2>1. f \in 1..Len(L) /\ f \in 1..Len(L)-1  BY <1>c
  <2> QED BY <2>1 DEF Pieces
<1> HIDE DEF c, Cur, New, m, M
<1>5. \A i \in 1..Len(New)-1 : Joined(k, z, New[i], New[i+1])
  <2> SUFFICES ASSUME NEW i \in 1..m PROVE Joined(k, z, New[i], New[i+1])
    BY <1>0
  <2>1. CASE i = m
    BY <1>0, <1>1, <1>2, <2>1
  <2>2. CASE i # m
    <3>1. i \in 1..m-1 /\ i + 1 \in 1..m  BY <1>0, <2>2
    <3> QED BY <1>0, <1>3, <3>1
  <2> QED BY <2>1, <2>2
<1>6. z \/ \A i \in 1..Len(New) : k[New[i]] = k[LastIn(New)]
  <2> SUFFICES ASSUME ~z, NEW i \in 1..m+1 PROVE k[New[i]] = k[x]
    BY <1>0 DEF LastIn
  <2>1. CASE i = m + 1
    BY <1>0, <2>1
  <2>2. CASE i # m + 1
    <3>1. i \in 1..m /\ m # 0  BY <1>0, <2>2
    <3>2. k[Cur[m]] = k[x]  BY <1>1, <1>2, <3>1 DEF Joined
    <3> QED BY <1>0, <1>3, <3>1, <3>2
  <2> QED BY <2>1, <2>2
<1>7. ASSUME NEW f \in 1..c-1
      PROVE  /\ M[f] # <<>>
             /\ M[f+1] # <<>> => LastIn(M[f]) < M[f+1][1] /\ ~Joined(k, z, LastIn(M[f]), M[f+1][1])
  <2>1. M[f] = L[f]  BY <1>0
  <2>2. CASE f = c - 1
    <3>1. f + 1 = c /\ M[f+1] = New /\ L[f+1] = Cur /\ c > 1 /\ L[c-1] = L[f]
      BY <1>0, <2>2 DEF New, Cur
    <3>2. CASE Cur = <<>>
      <4>1. New[1] = x  BY <1>0, <1>1, <3>2
      <4> QED BY <1>2, <1>4, <2>1, <3>1, <3>2, <4>1
    <3>3. CASE Cur # <<>>
      <4>1. New[1] = Cur[1]  BY <1>0, <1>1, <3>3
      <4> QED BY <1>4, <2>1, <3>1, <3>3, <4>1
    <3> QED BY <3>2, <3>3
  <2>3. CASE f # c - 1
    <3>1. f + 1 \in 1..c-1  BY <1>0, <2>3
    <3>2. M[f+1] = L[f+1]  BY <1>0, <3>1
    <3> QED BY <1>4, <2>1, <3>1, <3>2
  <2> QED BY <2>2, <2>3
<1>8. ASSUME NEW f \in 1..Len(M)
      PROVE  /\ \A i \in 1..Len(M[f])-1 : Joined(k, z, M[f][i], M[f][i+1])
             /\ z \/ \A i \in 1..Len(M[f]) : k[M[f][i]] = k[LastIn(M[f])]
  <2>1. CASE f = c
    BY <1>5, <1>6, <2>1 DEF New
  <2>2. CASE f # c
    <3>1. f \in 1..c-1  BY <1>0, <2>2
    <3>2. M[f] = L[f]  BY <1>0, <3>1
    <3> QED BY <1>4, <3>1, <3>2
  <2> QED BY <2>1, <2>2
<1>9. Pieces(M, k, z)
  BY <1>0, <1>7, <1>8 DEF Pieces
<1> QED BY <1>9 DEF M, c

-----------------------------------------------------------------------------
\* Only a zip has incomplete chunks.
VKinds == ~v_zip => \A n \in DOMAIN v_kind : v_kind[n] # "half"

\* What is not there yet, and when the database is removed.
VPhase ==
  /\ v_pc = "begin" => v_rest = {}
  /\ v_pc \in {"begin", "open"} =>
       v_mp4List = <<>> /\ v_prev = V!NoRow /\ v_ended = 0 /\ v_lost = {}
  /\ v_pc = "open" => v_rest = V!Rows(v_kind)
  /\ v_pc \in {"row", "write"} /\ v_lost # {} => v_rest = {}
  /\ v_pc = "done" => v_rest = {} /\ v_ended = Len(v_mp4List) /\ Len(v_mp4List) > 0
  /\ v_pc = "write" => v_prev # V!NoRow
  /\ v_removed =>
       v_pc = "done" /\ ~v_zip /\ (Len(v_mp4List) = 1 \/ v_deleteMode = 2)

\* What has not been read: it comes yet, or never.
Unread == v_rest \cup v_lost

\* Which rows have been read, all but r, and where they are.
ReadSoFar(k, r, p, L, at) ==
  /\ r \subseteq V!Rows(k)
  /\ IF p = V!NoRow
     THEN r = V!Rows(k)
     ELSE p \in V!Rows(k) \ r /\ \A m \in V!Rows(k) \ r : m <= p /\ \A n \in r : p < n
  /\ \A n : InFiles(L, n) <=>
       n \in V!Rows(k) \ r /\ k[n] # "half" /\ (at = "write" => n # p)

\* Where the next chunk goes.
Placed(k, z, p, L, at) ==
  /\ at = "write" => Fits(L, k, z, p)
  /\ at = "row" =>
       /\ L[Len(L)] # <<>> => p = LastIn(L[Len(L)])
       /\ L[Len(L)] = <<>> /\ Len(L) > 1 => LastIn(L[Len(L)-1]) < p
  /\ at = "done" => L[Len(L)] # <<>> /\ p = LastIn(L[Len(L)])

VPlaces ==
  v_pc \in {"row", "write", "done"} =>
    /\ ReadSoFar(v_kind, Unread, v_prev, v_mp4List, v_pc)
    /\ Pieces(v_mp4List, v_kind, v_zip)
    /\ Placed(v_kind, v_zip, v_prev, v_mp4List, v_pc)

VInv == V!TypeOK /\ VKinds /\ VPhase /\ VPlaces

\* The types of what Rows gives, and of the files.
LEMMA VNumbers ==
  ASSUME V!Assumption, V!TypeOK
  PROVE  /\ V!Rows(v_kind) \subseteq Seqno /\ Seqno \subseteq Nat /\ V!NoRow = -1
         /\ v_mp4List \in Seq(Seq(Seqno)) /\ Len(v_mp4List) \in Nat
         /\ v_pc \in {"row", "write"} => Len(v_mp4List) > 0 /\ v_ended = Len(v_mp4List) - 1
<1>1. v_mp4List \in Seq(Seq(Seqno)) /\ Len(v_mp4List) \in Nat
  BY DEF V!TypeOK
<1>2. V!Rows(v_kind) \subseteq Seqno
  BY DEF V!TypeOK, V!Rows
<1>3. v_ended \in Nat
  BY <1>1 DEF V!TypeOK, V!nMp4s
<1> QED BY <1>1, <1>2, <1>3 DEF V!TypeOK, V!Assumption, V!nMp4s, V!NoRow

\* Convert or ConvertDB is called.
LEMMA VBegin ==
  ASSUME V!Assumption, VInv, NEW T \in SUBSET Seqno, NEW mode \in 0..2,
         NEW k, NEW z \in BOOLEAN, k \in [T -> IF z THEN V!ZipKind ELSE V!DbKind],
         V!Begin(k, z, mode)
  PROVE  VInv'
<1>1. /\ v_pc = "begin" /\ v_pc' = "open" /\ v_kind' = k /\ v_zip' = z
      /\ v_deleteMode' = mode /\ v_rest' = V!Rows(k)
      /\ UNCHANGED <<v_prev, v_mp4List, v_ended, v_lost, v_removed>>
  BY DEF V!Begin
<1>2. DOMAIN k = T /\ (\A n \in T : k[n] \in V!DbKind \cup V!ZipKind)
      /\ (~z => \A n \in T : k[n] # "half")
  BY DEF V!DbKind, V!ZipKind, V!Recorded
<1>3. V!Rows(k) \subseteq Seqno
  BY <1>2 DEF V!Rows
<1>4. V!TypeOK'
  BY <1>1, <1>2, <1>3 DEF VInv, V!TypeOK, V!nMp4s
<1>5. VKinds'
  BY <1>1, <1>2 DEF VKinds
<1>6. VPhase'
  BY <1>1 DEF VInv, VPhase, V!Rows
<1> QED BY <1>1, <1>4, <1>5, <1>6 DEF VInv, VPlaces

\* The first ffmpeg.
LEMMA VOpen ==
  ASSUME V!Assumption, VInv, V!Open
  PROVE  VInv'
<1>1. /\ v_pc = "open" /\ v_pc' = "row" /\ v_mp4List' = <<<<>>>>
      /\ UNCHANGED <<v_kind, v_zip, v_deleteMode, v_rest, v_prev, v_ended, v_lost, v_removed>>
  BY DEF V!Open, V!recording
<1>2. /\ v_mp4List' \in Seq(Seq(Seqno)) /\ Len(v_mp4List') = 1 /\ v_mp4List'[1] = <<>>
      /\ Len(v_mp4List'[1]) = 0
  <2>1. <<>> \in Seq(Seqno) /\ Len(<<>>) = 0
    OBVIOUS
  <2> QED BY <1>1, <2>1
<1>3. v_ended = 0 /\ v_prev = V!NoRow /\ v_lost = {} /\ v_rest = V!Rows(v_kind) /\ ~v_removed
  BY <1>1 DEF VInv, VPhase
<1>4. V!TypeOK'
  BY <1>1, <1>2, <1>3 DEF VInv, V!TypeOK, V!nMp4s
<1>5. \A n : ~InFiles(v_mp4List', n)
  BY <1>2 DEF InFiles
<1>6. ReadSoFar(v_kind, Unread, v_prev, v_mp4List', "row")
  BY <1>3, <1>5 DEF ReadSoFar, Unread
<1>7. Pieces(v_mp4List', v_kind, v_zip) /\ Placed(v_kind, v_zip, v_prev, v_mp4List', "row")
  BY <1>2 DEF Pieces, Placed
<1>8. VKinds' /\ VPhase'
  BY <1>1, <1>3 DEF VInv, VKinds, VPhase
<1>9. Unread' = Unread
  BY <1>1 DEF Unread
<1> QED BY <1>1, <1>4, <1>6, <1>7, <1>8, <1>9 DEF VInv, VPlaces

\* A step that ends the conversion.
LEMMA VEnds ==
  ASSUME V!Assumption, VInv, UNCHANGED <<v_kind, v_zip, v_deleteMode, v_mp4List, v_removed>>,
         v_ended' = v_ended, ~v_removed, v_pc' = "exited",
         v_rest' \subseteq Seqno, v_prev' \in Seqno \cup {V!NoRow}, v_lost' \subseteq Seqno
  PROVE  VInv'
<1>1. V!TypeOK'
  BY DEF VInv, V!TypeOK, V!nMp4s
<1>2. VKinds' /\ VPhase' /\ VPlaces'
  BY DEF VInv, VKinds, VPhase, VPlaces
<1> QED BY <1>1, <1>2 DEF VInv

\* A new file is begun after a row, which goes to `at'.
LEMMA VReopened ==
  ASSUME V!Assumption, VInv, v_pc \in {"row", "write"}, NEW at \in {"row", "write"},
         V!WaitOk, v_pc' = at, v_mp4List' = Append(v_mp4List, <<>>),
         UNCHANGED <<v_kind, v_zip, v_deleteMode, v_lost, v_removed>>,
         v_rest' \subseteq v_rest, v_prev' \in Seqno
  PROVE  /\ V!TypeOK' /\ VKinds' /\ VPhase'
         /\ Pieces(v_mp4List', v_kind, v_zip)
         /\ \A n : InFiles(v_mp4List', n) <=> InFiles(v_mp4List, n)
         /\ v_mp4List'[Len(v_mp4List')] = <<>> /\ Len(v_mp4List') > 1
         /\ v_mp4List'[Len(v_mp4List')-1] = v_mp4List[Len(v_mp4List)]
         /\ v_mp4List[Len(v_mp4List)] # <<>>
<1>1. /\ v_mp4List \in Seq(Seq(Seqno)) /\ Len(v_mp4List) \in Nat /\ Len(v_mp4List) > 0
      /\ v_ended = Len(v_mp4List) - 1
  BY VNumbers DEF VInv
<1>2. /\ v_mp4List[Len(v_mp4List)] # <<>> /\ v_ended' = v_ended + 1
  BY DEF V!WaitOk, V!Last
<1>3. /\ v_mp4List' \in Seq(Seq(Seqno)) /\ Len(v_mp4List') = Len(v_mp4List) + 1
      /\ \A f \in 1..Len(v_mp4List) : v_mp4List'[f] = v_mp4List[f]
      /\ v_mp4List'[Len(v_mp4List')] = <<>>
      /\ \A n : InFiles(v_mp4List', n) <=> InFiles(v_mp4List, n)
  BY <1>1, FileAdded
<1>4. V!TypeOK'
  <2>1. v_ended' \in 0..Len(v_mp4List') /\ v_ended' = Len(v_mp4List') - 1
    BY <1>1, <1>2, <1>3
  <2> QED BY <1>3, <2>1 DEF VInv, V!TypeOK, V!nMp4s
<1>5. Pieces(v_mp4List', v_kind, v_zip)
  <2>1. v_zip \in BOOLEAN /\ Pieces(v_mp4List, v_kind, v_zip)
    BY DEF VInv, VPlaces, V!TypeOK
  <2>2. v_mp4List \in Seq(Seq(Seqno)) /\ v_mp4List[Len(v_mp4List)] # <<>>
    BY <1>1, <1>2
  <2> QED BY <2>1, <2>2, PiecesBegun
<1>6. VKinds' /\ VPhase'
  <2>1. v_prev' # V!NoRow
    BY VNumbers DEF VInv
  <2> QED BY <2>1 DEF VInv, VKinds, VPhase
<1>7. v_mp4List'[Len(v_mp4List')-1] = v_mp4List[Len(v_mp4List)] /\ Len(v_mp4List') > 1
  BY <1>1, <1>3
<1> QED BY <1>2, <1>3, <1>4, <1>5, <1>6, <1>7

\* The next row, which may begin another file.
LEMMA VNextRow ==
  ASSUME V!Assumption, VInv, V!NextRow
  PROVE  VInv'
<1> DEFINE n == V!Min(v_rest)
           L == v_mp4List
<1>1. /\ v_pc = "row" /\ v_rest # {} /\ v_prev' = n /\ v_rest' = v_rest \ {n}
      /\ UNCHANGED <<v_kind, v_zip, v_deleteMode, v_lost, v_removed>>
      /\ IF V!Splits(n)
         THEN V!Reopen("write")
         ELSE v_pc' = "write" /\ UNCHANGED <<v_mp4List, v_ended>>
  BY DEF V!NextRow, V!recording
<1>2. /\ V!Rows(v_kind) \subseteq Seqno /\ Seqno \subseteq Nat /\ V!NoRow = -1
      /\ v_rest \subseteq Seqno /\ L \in Seq(Seq(Seqno)) /\ Len(L) \in Nat /\ Len(L) > 0
      /\ v_zip \in BOOLEAN
  BY <1>1, VNumbers DEF VInv, V!TypeOK
<1>3. n \in v_rest /\ \A m \in v_rest : n <= m
  BY <1>1, <1>2, LeastRow
<1> HIDE DEF n
<1>4. n \in Seqno /\ n \in Nat /\ v_rest' \subseteq Seqno /\ ~v_removed
  BY <1>1, <1>2, <1>3 DEF VInv, VPhase
<1>5. /\ Unread = v_rest /\ Unread' = v_rest'
      /\ ReadSoFar(v_kind, v_rest, v_prev, L, "row")
      /\ Pieces(L, v_kind, v_zip)
      /\ Placed(v_kind, v_zip, v_prev, L, "row")
      /\ v_prev # V!NoRow => v_prev \in Nat /\ v_prev < n
  <2>0. Unread = v_rest /\ Unread' = v_rest'
    BY <1>1 DEF VInv, VPhase, Unread
  <2>1. /\ ReadSoFar(v_kind, v_rest, v_prev, L, "row")
        /\ Pieces(L, v_kind, v_zip)
        /\ Placed(v_kind, v_zip, v_prev, L, "row")
    BY <1>1, <2>0 DEF VInv, VPlaces
  <2> QED BY <1>2, <1>3, <2>0, <2>1 DEF ReadSoFar
<1>6. ASSUME NEW M, \A m : InFiles(M, m) <=> InFiles(L, m)
      PROVE  ReadSoFar(v_kind, v_rest', n, M, "write")
  <2>1. /\ v_rest \subseteq V!Rows(v_kind)
        /\ V!Rows(v_kind) \ v_rest' = (V!Rows(v_kind) \ v_rest) \cup {n}
    BY <1>1, <1>3, <1>5, <1>6 DEF ReadSoFar
  <2>2. \A m \in V!Rows(v_kind) \ v_rest : m < n
    <3> SUFFICES ASSUME NEW m \in V!Rows(v_kind) \ v_rest PROVE m < n
      OBVIOUS
    <3>1. v_prev # V!NoRow /\ m <= v_prev
      BY <1>5, <1>6 DEF ReadSoFar
    <3>2. m \in Nat /\ v_prev \in Nat /\ v_prev < n
      BY <1>2, <1>5, <1>6, <3>1
    <3> QED BY <1>4, <3>1, <3>2
  <2>3. n # V!NoRow /\ n \notin V!Rows(v_kind) \ v_rest
    BY <1>2, <1>3
  <2>4. \A m : InFiles(L, m) <=> m \in V!Rows(v_kind) \ v_rest /\ v_kind[m] # "half"
    BY <1>5, <1>6 DEF ReadSoFar
  <2>5. \A m : InFiles(M, m) <=> m \in V!Rows(v_kind) \ v_rest' /\ v_kind[m] # "half" /\ m # n
    BY <1>6, <2>1, <2>3, <2>4
  <2>6. v_rest' \subseteq V!Rows(v_kind) /\ n \in V!Rows(v_kind) \ v_rest'
    BY <1>1, <2>1
  <2>7. ASSUME NEW m \in V!Rows(v_kind) \ v_rest'  PROVE m <= n
    BY <1>2, <1>4, <2>1, <2>2, <2>7
  <2>8. ASSUME NEW m \in v_rest'  PROVE n < m
    <3>1. m \in v_rest /\ m # n  BY <1>1, <2>8
    <3>2. m \in Nat /\ n <= m  BY <1>2, <1>3, <3>1
    <3> QED BY <1>4, <3>1, <3>2
  <2> QED BY <2>3, <2>5, <2>6, <2>7, <2>8 DEF ReadSoFar
<1>7. CASE ~V!Splits(n)
  <2>1. v_pc' = "write" /\ v_mp4List' = L /\ v_ended' = v_ended
    BY <1>1, <1>7
  <2>2. V!TypeOK' /\ VKinds' /\ VPhase'
    <3>1. v_prev' # V!NoRow
      BY <1>1, <1>2, <1>4
    <3> QED BY <1>1, <1>4, <2>1, <3>1 DEF VInv, V!TypeOK, V!nMp4s, VKinds, VPhase
  <2>3. Fits(L, v_kind, v_zip, n)
    <3>1. /\ L[Len(L)] # <<>> => v_prev = LastIn(L[Len(L)])
          /\ L[Len(L)] = <<>> /\ Len(L) > 1 => LastIn(L[Len(L)-1]) < v_prev
      BY <1>5 DEF Placed
    <3>2. ASSUME L[Len(L)] # <<>>  PROVE Joined(v_kind, v_zip, LastIn(L[Len(L)]), n)
      <4>1. v_prev = LastIn(L[Len(L)])  BY <3>1, <3>2
      <4>2. v_prev \in Nat
        <5>1. L[Len(L)] \in Seq(Seqno)  BY <1>2, ElementOfSeq
        <5>2. LastIn(L[Len(L)]) \in Seqno
          <6>1. Len(L[Len(L)]) \in 1..Len(L[Len(L)])  BY <3>2, <5>1, EmptySeq
          <6> QED BY <5>1, <6>1, ElementOfSeq DEF LastIn
        <5> QED BY <1>2, <4>1, <5>2
      <4>3. v_prev # V!NoRow  BY <1>2, <4>2
      <4> QED BY <1>7, <4>1, <4>3 DEF V!Splits, Joined
    <3>3. ASSUME L[Len(L)] = <<>>, Len(L) > 1
          PROVE  LastIn(L[Len(L)-1]) < n /\ ~Joined(v_kind, v_zip, LastIn(L[Len(L)-1]), n)
      <4> DEFINE l == LastIn(L[Len(L)-1])
      <4>1. l < v_prev  BY <3>1, <3>3
      <4>2. l \in Nat
        <5>1. Len(L)-1 \in 1..Len(L)-1 /\ Len(L)-1 \in 1..Len(L)  BY <1>2, <3>3
        <5>2. L[Len(L)-1] # <<>>  BY <1>5, <5>1 DEF Pieces
        <5>3. L[Len(L)-1] \in Seq(Seqno)  BY <1>2, <5>1, ElementOfSeq
        <5>4. Len(L[Len(L)-1]) \in 1..Len(L[Len(L)-1])  BY <5>2, <5>3, EmptySeq
        <5> QED BY <1>2, <5>3, <5>4, ElementOfSeq DEF LastIn
      <4> HIDE DEF l
      <4>3. v_prev # V!NoRow
        <5>1. v_prev \in Seqno \cup {-1}  BY <1>2 DEF VInv, V!TypeOK
        <5> QED BY <1>2, <4>1, <4>2, <5>1
      <4>4. v_prev \in Nat /\ v_prev < n  BY <1>5, <4>3
      <4>5. l < n /\ n # l + 1  BY <1>4, <4>1, <4>2, <4>4
      <4> QED BY <4>5 DEF Joined, l
    <3> QED BY <3>2, <3>3 DEF Fits
  <2>4. VPlaces'
    BY <1>1, <1>5, <1>6, <2>1, <2>3 DEF VPlaces, Placed
  <2> QED BY <2>2, <2>4 DEF VInv
<1>8. CASE V!Splits(n) /\ v_pc' = "write"
  <2>1. V!WaitOk /\ v_mp4List' = Append(v_mp4List, <<>>)
    BY <1>1, <1>8 DEF V!Reopen, V!FFmpegFails
  <2>2. /\ V!TypeOK' /\ VKinds' /\ VPhase'
        /\ Pieces(v_mp4List', v_kind, v_zip)
        /\ \A m : InFiles(v_mp4List', m) <=> InFiles(v_mp4List, m)
        /\ v_mp4List'[Len(v_mp4List')] = <<>> /\ Len(v_mp4List') > 1
        /\ v_mp4List'[Len(v_mp4List')-1] = v_mp4List[Len(v_mp4List)]
        /\ v_mp4List[Len(v_mp4List)] # <<>>
    BY <1>1, <1>4, <1>8, <2>1, VReopened
  <2>3. Fits(v_mp4List', v_kind, v_zip, n)
    <3>1. v_prev = LastIn(L[Len(L)])
      BY <1>5, <2>2 DEF Placed
    <3>2. v_prev # V!NoRow /\ (n # v_prev + 1 \/ (~v_zip /\ v_kind[n] # v_kind[v_prev]))
      BY <1>8 DEF V!Splits
    <3>3. v_prev < n
      BY <1>5, <3>2
    <3> QED BY <2>2, <3>1, <3>2, <3>3 DEF Fits, Joined
  <2>4. VPlaces'
    BY <1>1, <1>5, <1>6, <1>8, <2>2, <2>3 DEF VPlaces, Placed
  <2> QED BY <2>2, <2>4 DEF VInv
<1>9. CASE V!Splits(n) /\ v_pc' # "write"
  <2>1. v_pc' = "exited" /\ UNCHANGED <<v_mp4List, v_ended>>
    BY <1>1, <1>9 DEF V!Reopen, V!FFmpegFails
  <2> QED BY <1>1, <1>4, <2>1, VEnds DEF VInv, V!TypeOK
<1> QED BY <1>7, <1>8, <1>9

\* The row is written to the file.
LEMMA VWrite ==
  ASSUME V!Assumption, VInv, V!Write
  PROVE  VInv'
<1> DEFINE L == v_mp4List
<1>1. /\ v_pc = "write" /\ v_kind[v_prev] # "half" /\ v_pc' = "row"
      /\ v_mp4List' = [L EXCEPT ![Len(L)] = Append(@, v_prev)]
      /\ UNCHANGED <<v_kind, v_zip, v_deleteMode, v_rest, v_prev, v_ended, v_lost, v_removed>>
  BY DEF V!Write, V!recording
<1>2. /\ V!Rows(v_kind) \subseteq Seqno /\ Seqno \subseteq Nat /\ V!NoRow = -1
      /\ L \in Seq(Seq(Seqno)) /\ Len(L) \in Nat /\ Len(L) > 0 /\ v_ended = Len(L) - 1
      /\ v_zip \in BOOLEAN /\ v_prev \in Seqno \cup {V!NoRow} /\ ~v_removed
  BY <1>1, VNumbers DEF VInv, V!TypeOK, VPhase
<1>4. v_prev \in Seqno
  BY <1>1, <1>2 DEF VInv, VPhase
<1>5. /\ v_mp4List' \in Seq(Seq(Seqno)) /\ Len(v_mp4List') = Len(L)
      /\ Len(L[Len(L)]) \in Nat
      /\ Len(v_mp4List'[Len(L)]) = Len(L[Len(L)]) + 1
      /\ v_mp4List'[Len(L)][Len(L[Len(L)])+1] = v_prev
  BY <1>1, <1>2, <1>4, ChunkAdded
<1>6. \A n : InFiles(v_mp4List', n) <=> InFiles(L, n) \/ n = v_prev
  BY <1>1, <1>2, <1>4, ChunkIn
<1>7. V!TypeOK' /\ VKinds' /\ VPhase'
  BY <1>1, <1>2, <1>5 DEF VInv, V!TypeOK, V!nMp4s, VKinds, VPhase
<1>8. /\ ReadSoFar(v_kind, Unread, v_prev, v_mp4List', "row")
      /\ Pieces(v_mp4List', v_kind, v_zip)
      /\ Placed(v_kind, v_zip, v_prev, v_mp4List', "row")
  <2>1. /\ ReadSoFar(v_kind, Unread, v_prev, L, "write")
        /\ Pieces(L, v_kind, v_zip)
        /\ Fits(L, v_kind, v_zip, v_prev)
    BY <1>1 DEF VInv, VPlaces, Placed
  <2>2. ReadSoFar(v_kind, Unread, v_prev, v_mp4List', "row")
    <3>1. v_prev # V!NoRow
      BY <1>2, <1>4
    <3> QED BY <1>1, <1>6, <2>1, <3>1 DEF ReadSoFar
  <2>3. Pieces(v_mp4List', v_kind, v_zip)
    BY <1>1, <1>2, <1>4, <2>1, PiecesGrow
  <2>4. v_mp4List'[Len(L)] # <<>> /\ LastIn(v_mp4List'[Len(L)]) = v_prev
    BY <1>5 DEF LastIn
  <2> QED BY <1>5, <2>2, <2>3, <2>4 DEF Placed
<1>9. Unread' = Unread
  BY <1>1 DEF Unread
<1> QED BY <1>1, <1>7, <1>8, <1>9 DEF VInv, VPlaces

\* An incomplete chunk begins another file.
LEMMA VSkipHalf ==
  ASSUME V!Assumption, VInv, V!SkipHalf
  PROVE  VInv'
<1> DEFINE L == v_mp4List
<1>1. /\ v_pc = "write" /\ v_kind[v_prev] = "half"
      /\ UNCHANGED <<v_kind, v_zip, v_deleteMode, v_rest, v_prev, v_lost, v_removed>>
      /\ V!Reopen("row")
  BY DEF V!SkipHalf, V!recording
<1>2. /\ v_rest \subseteq Seqno /\ v_prev \in Seqno \cup {V!NoRow} /\ v_lost \subseteq Seqno
      /\ ~v_removed /\ Unread' = Unread
  BY <1>1 DEF VInv, V!TypeOK, VPhase, Unread
<1>3. CASE v_pc' # "row"
  <2>1. v_pc' = "exited" /\ UNCHANGED <<v_mp4List, v_ended>>
    BY <1>1, <1>3 DEF V!Reopen, V!FFmpegFails
  <2> QED BY <1>1, <1>2, <2>1, VEnds
<1>4. CASE v_pc' = "row"
  <2>0. v_prev \in Seqno
    BY <1>1, <1>2 DEF VInv, VPhase
  <2>1. V!WaitOk /\ v_mp4List' = Append(v_mp4List, <<>>)
    BY <1>1, <1>4 DEF V!Reopen, V!FFmpegFails
  <2>2. /\ V!TypeOK' /\ VKinds' /\ VPhase'
        /\ Pieces(v_mp4List', v_kind, v_zip)
        /\ \A m : InFiles(v_mp4List', m) <=> InFiles(v_mp4List, m)
        /\ v_mp4List'[Len(v_mp4List')] = <<>> /\ Len(v_mp4List') > 1
        /\ v_mp4List'[Len(v_mp4List')-1] = v_mp4List[Len(v_mp4List)]
        /\ v_mp4List[Len(v_mp4List)] # <<>>
    BY <1>1, <1>2, <1>4, <2>0, <2>1, VReopened
  <2>3. /\ ReadSoFar(v_kind, Unread, v_prev, v_mp4List', "row")
        /\ Placed(v_kind, v_zip, v_prev, v_mp4List', "row")
    <3>1. /\ ReadSoFar(v_kind, Unread, v_prev, L, "write")
          /\ Joined(v_kind, v_zip, LastIn(L[Len(L)]), v_prev)
      BY <1>1, <2>2 DEF VInv, VPlaces, Placed, Fits
    <3>2. ReadSoFar(v_kind, Unread, v_prev, v_mp4List', "row")
      BY <1>1, <2>2, <3>1 DEF ReadSoFar
    <3>3. LastIn(L[Len(L)]) < v_prev
      <4>1. LastIn(L[Len(L)]) \in Nat
        <5>1. /\ L \in Seq(Seq(Seqno)) /\ Len(L) \in 1..Len(L) /\ Seqno \subseteq Nat
          <6>1. L \in Seq(Seq(Seqno)) /\ Len(L) \in Nat /\ Len(L) > 0 /\ Seqno \subseteq Nat
            BY <1>1, VNumbers DEF VInv
          <6> QED BY <6>1
        <5>2. L[Len(L)] \in Seq(Seqno)  BY <5>1, ElementOfSeq
        <5>3. Len(L[Len(L)]) \in 1..Len(L[Len(L)])  BY <2>2, <5>2, EmptySeq
        <5> QED BY <5>1, <5>2, <5>3, ElementOfSeq DEF LastIn
      <4> QED BY <3>1, <4>1 DEF Joined
    <3> QED BY <2>2, <3>2, <3>3 DEF Placed
  <2> QED BY <1>1, <1>2, <1>4, <2>2, <2>3 DEF VInv, VPlaces
<1> QED BY <1>3, <1>4

\* Reading the database fails half-way.
LEMMA VNextFails ==
  ASSUME V!Assumption, VInv, V!NextFails
  PROVE  VInv'
<1>1. /\ v_pc = "row" /\ v_rest' = {} /\ v_lost' = v_rest /\ v_rest # {}
      /\ UNCHANGED <<v_kind, v_zip, v_deleteMode, v_pc, v_prev, v_mp4List, v_ended, v_removed>>
  BY DEF V!NextFails, V!recording
<1>2. V!TypeOK'
  BY <1>1 DEF VInv, V!TypeOK, V!nMp4s
<1>4. Unread' = Unread
  BY <1>1 DEF VInv, VPhase, Unread
<1>3. VKinds' /\ VPhase' /\ VPlaces'
  BY <1>1, <1>4 DEF VInv, VKinds, VPhase, VPlaces
<1> QED BY <1>2, <1>3 DEF VInv

\* All has been read.
LEMMA VFinish ==
  ASSUME V!Assumption, VInv, V!Finish
  PROVE  VInv'
<1>1. /\ v_pc = "row" /\ v_rest = {}
      /\ UNCHANGED <<v_kind, v_zip, v_deleteMode, v_rest, v_prev, v_mp4List, v_lost, v_removed>>
      /\ \/ V!WaitOk /\ v_pc' = "done"
         \/ v_pc' = "exited" /\ UNCHANGED v_ended
  BY DEF V!Finish, V!recording, V!FFmpegFails
<1>2. /\ Len(v_mp4List) \in Nat /\ Len(v_mp4List) > 0 /\ v_ended = Len(v_mp4List) - 1
      /\ ~v_removed
  BY <1>1, VNumbers DEF VInv, VPhase
<1>3. CASE v_pc' = "exited"
  <2>1. UNCHANGED v_ended  BY <1>1, <1>3
  <2> QED BY <1>1, <1>2, <1>3, <2>1, VEnds DEF VInv, V!TypeOK
<1>4. CASE V!WaitOk /\ v_pc' = "done"
  <2>1. v_mp4List[Len(v_mp4List)] # <<>> /\ v_ended' = Len(v_mp4List)
    BY <1>2, <1>4 DEF V!WaitOk, V!Last
  <2>2. V!TypeOK' /\ VKinds' /\ VPhase'
    BY <1>1, <1>2, <1>4, <2>1 DEF VInv, V!TypeOK, V!nMp4s, VKinds, VPhase
  <2>3. /\ ReadSoFar(v_kind, Unread, v_prev, v_mp4List, "done")
        /\ Pieces(v_mp4List, v_kind, v_zip)
        /\ Placed(v_kind, v_zip, v_prev, v_mp4List, "done")
    BY <1>1, <2>1 DEF VInv, VPlaces, ReadSoFar, Placed
  <2>4. VPlaces'
    <3>1. Unread' = Unread
      BY <1>1 DEF Unread
    <3> QED BY <1>1, <1>4, <2>3, <3>1 DEF VPlaces
  <2> QED BY <2>2, <2>4 DEF VInv
<1> QED BY <1>1, <1>3, <1>4

\* main removes the database.
LEMMA VDelete ==
  ASSUME V!Assumption, VInv, V!Delete
  PROVE  VInv'
<1>1. /\ v_pc = "done" /\ ~v_zip /\ v_removed' = TRUE
      /\ (Len(v_mp4List) = 1 /\ v_deleteMode >= 1) \/ (Len(v_mp4List) > 1 /\ v_deleteMode >= 2)
      /\ UNCHANGED <<v_kind, v_zip, v_deleteMode, v_pc, v_rest, v_prev, v_mp4List, v_ended, v_lost>>
  BY DEF V!Delete, V!recording, V!nMp4s
<1>2. v_deleteMode \in 0..2
  BY DEF VInv, V!TypeOK
<1>3. Len(v_mp4List) = 1 \/ v_deleteMode = 2
  BY <1>1, <1>2
<1>4. V!TypeOK'
  BY <1>1 DEF VInv, V!TypeOK, V!nMp4s
<1>5. VKinds' /\ VPhase' /\ VPlaces'
  <2>1. Unread' = Unread
    BY <1>1 DEF Unread
  <2> QED BY <1>1, <1>3, <2>1 DEF VInv, VKinds, VPhase, VPlaces
<1> QED BY <1>4, <1>5 DEF VInv

\* Every step.
LEMMA VNext ==
  ASSUME V!Assumption, VInv, [V!Next]_v_vars
  PROVE  VInv'
<1>1. CASE UNCHANGED v_vars
  BY <1>1 DEF v_vars, VInv, V!TypeOK, V!nMp4s, VKinds, VPhase, VPlaces, Unread
<1>2. ASSUME NEW T \in SUBSET Seqno, NEW mode \in 0..2, NEW k \in [T -> V!DbKind],
             V!Begin(k, FALSE, mode)
      PROVE  VInv'
  <2> DEFINE z == FALSE
  <2>1. z \in BOOLEAN /\ k \in [T -> IF z THEN V!ZipKind ELSE V!DbKind] /\ V!Begin(k, z, mode)
    BY <1>2
  <2> HIDE DEF z
  <2> QED BY <2>1, VBegin
<1>3. ASSUME NEW T \in SUBSET Seqno, NEW mode \in 0..2, NEW k \in [T -> V!ZipKind],
             V!Begin(k, TRUE, mode)
      PROVE  VInv'
  <2> DEFINE z == TRUE
  <2>1. z \in BOOLEAN /\ k \in [T -> IF z THEN V!ZipKind ELSE V!DbKind] /\ V!Begin(k, z, mode)
    BY <1>3
  <2> HIDE DEF z
  <2> QED BY <2>1, VBegin
<1>4. ASSUME V!Fatal \/ V!ScanFails  PROVE VInv'
  <2>1. /\ v_pc \in {"open", "row", "write"} /\ v_pc' = "exited"
        /\ UNCHANGED <<v_kind, v_zip, v_deleteMode, v_rest, v_prev, v_mp4List, v_ended, v_lost,
                       v_removed>>
    BY <1>4 DEF V!Fatal, V!ScanFails, V!recording
  <2> QED BY <2>1, VEnds DEF VInv, V!TypeOK, VPhase
<1> QED
  BY <1>1, <1>2, <1>3, <1>4, VOpen, VNextRow, VWrite, VSkipHalf, VNextFails, VFinish, VDelete
     DEF V!Next

\* Before it is called.
LEMMA VFirst ==
  ASSUME V!Init
  PROVE  VInv
<1>1. v_mp4List = <<>> /\ v_mp4List \in Seq(Seq(Seqno)) /\ Len(v_mp4List) = 0
  BY DEF V!Init
<1>2. v_kind = <<>> /\ DOMAIN v_kind = {}
  BY DEF V!Init
<1>3. v_zip \in BOOLEAN /\ v_lost = {} /\ v_removed \in BOOLEAN
  BY DEF V!Init
<1>4. V!TypeOK
  BY <1>1, <1>2, <1>3 DEF V!Init, V!TypeOK, V!nMp4s
<1> QED BY <1>1, <1>2, <1>4 DEF V!Init, VInv, VKinds, VPhase, VPlaces

\* The rows read so far are in the files, cut as they should be, in every reachable
\* state, for any recording.
THEOREM ConverterInv == PartsSpec => []VInv
<1>1. PartsInit => VInv
  BY VFirst DEF PartsInit
<1>2. VInv /\ [PartsNext]_partVars => VInv'
  <2> SUFFICES ASSUME VInv, [PartsNext]_partVars PROVE [V!Next]_v_vars
    BY PartsAssumption, VNext DEF PartsAssumption
  <2> QED BY DEF PartsNext, Alone, partVars
<1> QED BY <1>1, <1>2, PTL DEF PartsSpec

\* Written, as the proofs speak of it.
LEMMA WrittenIs ==
  ASSUME V!TypeOK
  PROVE  \A n : n \in V!Written <=> InFiles(v_mp4List, n)
<1>1. v_mp4List \in Seq(Seq(Seqno))
  BY DEF V!TypeOK
<1>2. DOMAIN v_mp4List = 1..Len(v_mp4List)
      /\ \A f \in 1..Len(v_mp4List) : DOMAIN v_mp4List[f] = 1..Len(v_mp4List[f])
  <2>1. \A f \in 1..Len(v_mp4List) : v_mp4List[f] \in Seq(Seqno)
    BY <1>1, ElementOfSeq
  <2> QED BY <1>1, <2>1, LenProperties
<1> QED BY <1>2 DEF V!Written, V!ToSet, InFiles

\* When a conversion (Convert, ConvertDB) is done, the files are what was read of the
\* recording, cut into its longest pieces that can be played through.
THEOREM FilesAlwaysRuns == PartsSpec => []FilesAreRuns
<1>1. ASSUME VInv  PROVE FilesAreRuns
  <2> SUFFICES ASSUME v_pc = "done"
        PROVE  /\ V!Written = V!Whole
               /\ \A f \in DOMAIN v_mp4List : \A i \in 1..Len(v_mp4List[f])-1 :
                    V!Joins(v_mp4List[f][i], v_mp4List[f][i+1])
               /\ \A f \in 1..V!nMp4s-1 :
                    /\ V!Last(v_mp4List[f]) < Head(v_mp4List[f+1])
                    /\ ~V!Joins(V!Last(v_mp4List[f]), Head(v_mp4List[f+1]))
    BY DEF FilesAreRuns, V!FilesAreRuns
  <2>0. Unread = v_lost
    BY <1>1 DEF VInv, VPhase, Unread
  <2>1. /\ ReadSoFar(v_kind, Unread, v_prev, v_mp4List, "done")
        /\ Pieces(v_mp4List, v_kind, v_zip)
        /\ v_mp4List[Len(v_mp4List)] # <<>>
    BY <1>1 DEF VInv, VPlaces, Placed
  <2>2. V!Written = V!Whole
    BY <1>1, <2>0, <2>1, WrittenIs DEF VInv, ReadSoFar, V!Whole, V!Read
  <2>3. \A m, n : V!Joins(m, n) <=> Joined(v_kind, v_zip, m, n)
    BY DEF V!Joins, Joined
  <2>4. v_mp4List \in Seq(Seq(Seqno)) /\ DOMAIN v_mp4List = 1..Len(v_mp4List)
        /\ Len(v_mp4List) \in Nat
    BY <1>1 DEF VInv, V!TypeOK
  <2>5. ASSUME NEW f \in 1..Len(v_mp4List)-1
        PROVE  /\ LastIn(v_mp4List[f]) < Head(v_mp4List[f+1])
               /\ ~Joined(v_kind, v_zip, LastIn(v_mp4List[f]), Head(v_mp4List[f+1]))
    <3>0. Len(v_mp4List) \in Nat
      BY <2>4
    <3>1. f + 1 \in 1..Len(v_mp4List) /\ (f + 1 = Len(v_mp4List) \/ f + 1 \in 1..Len(v_mp4List)-1)
      BY <3>0
    <3>2. v_mp4List[f+1] # <<>> /\ v_mp4List[f+1] \in Seq(Seqno)
      BY <2>1, <2>4, <3>1, ElementOfSeq DEF Pieces
    <3>3. Head(v_mp4List[f+1]) = v_mp4List[f+1][1]
      BY <3>2, HeadTailProperties
    <3> QED BY <2>1, <3>2, <3>3 DEF Pieces
  <2> QED BY <2>1, <2>2, <2>3, <2>4, <2>5 DEF Pieces, V!Last, LastIn, V!nMp4s
<1> QED BY <1>1, ConverterInv, PTL

\* main removes a database only when every chunk read from it is in a file that an
\* ffmpeg has ended well; and when those chunks are in pieces, by a gap or by a change
\* of the quality, only in mode 2.
THEOREM DeletedAlwaysConverted == PartsSpec => []DeletedMeansConverted
<1>1. ASSUME VInv  PROVE DeletedMeansConverted
  <2> SUFFICES ASSUME v_removed
        PROVE  /\ v_ended = V!nMp4s /\ V!Read \subseteq V!Written
               /\ v_deleteMode = 2 \/ \A m, n \in V!Read :
                    m < n => m + 1 \in V!Read /\ V!Joins(m, m + 1)
    BY DEF DeletedMeansConverted, V!DeletedMeansConverted
  <2>1. /\ v_pc = "done" /\ ~v_zip /\ v_ended = Len(v_mp4List)
        /\ Len(v_mp4List) = 1 \/ v_deleteMode = 2
        /\ Unread = v_lost
    BY <1>1 DEF VInv, VPhase, Unread
  <2>2. /\ ReadSoFar(v_kind, v_lost, v_prev, v_mp4List, "done")
        /\ Pieces(v_mp4List, v_kind, v_zip)
        /\ Placed(v_kind, v_zip, v_prev, v_mp4List, "done")
    BY <1>1, <2>1 DEF VInv, VPlaces
  <2>3. \A n \in V!Rows(v_kind) : v_kind[n] # "half"
    BY <1>1, <2>1 DEF VInv, VKinds, V!Rows
  <2>4. \A n : InFiles(v_mp4List, n) <=> n \in V!Read
    BY <2>2, <2>3 DEF ReadSoFar, V!Read
  <2>5. V!Read \subseteq V!Written
    BY <1>1, <2>4, WrittenIs DEF VInv
  <2>6. ASSUME v_deleteMode # 2, NEW m \in V!Read, NEW n \in V!Read, m < n
        PROVE  m + 1 \in V!Read /\ V!Joins(m, m + 1)
    <3> DEFINE F == v_mp4List[1]
    <3>1. Len(v_mp4List) = 1 /\ v_mp4List \in Seq(Seq(Seqno)) /\ v_mp4List[1] \in Seq(Seqno)
      <4>1. Len(v_mp4List) = 1 /\ v_mp4List \in Seq(Seq(Seqno))
        BY <1>1, <2>1, <2>6 DEF VInv, V!TypeOK
      <4> QED BY <4>1, ElementOfSeq
    <3>2. PICK i \in 1..Len(F) : F[i] = m
      BY <2>4, <3>1 DEF InFiles
    <3>3. /\ \A j \in 1..Len(F)-1 : Joined(v_kind, v_zip, F[j], F[j+1])
          /\ v_prev = F[Len(F)]
      BY <2>2, <3>1 DEF Pieces, Placed, LastIn
    <3>4. n <= v_prev /\ m \in Nat /\ n \in Nat
      BY <1>1, <2>2, PartsAssumption, VNumbers DEF VInv, ReadSoFar, V!Read, PartsAssumption
    <3>5. Len(F) \in Nat /\ v_prev # m
      <4>1. Len(F) \in Nat
        BY <3>1
      <4> QED BY <2>6, <3>4, <4>1
    <3>6. i \in 1..Len(F)-1 /\ i + 1 \in 1..Len(F)
      BY <3>2, <3>3, <3>5
    <3>7. F[i+1] = m + 1 /\ Joined(v_kind, v_zip, m, m + 1)
      BY <3>2, <3>3, <3>6 DEF Joined
    <3>8. InFiles(v_mp4List, m + 1)
      BY <3>1, <3>6, <3>7 DEF InFiles
    <3> QED BY <2>4, <3>7, <3>8 DEF V!Joins, Joined
  <2> QED BY <2>1, <2>5, <2>6 DEF V!nMp4s
<1> QED BY <1>1, ConverterInv, PTL

-----------------------------------------------------------------------------
(***************************************************************************)
(* YoutubeRecorder: its types, among them that what outputs counts are the *)
(* ends of readers that are gone.  That Record ends is a matter of         *)
(* fairness, and stays with TLC.                                           *)
(***************************************************************************)
\* The instance has its own copy.
LEMMA YSameCardinality == \A s : Y!Cardinality(s) = Cardinality(s)
BY DEF Y!Cardinality, Cardinality

\* What is not a queue and not a reader.
YPlain ==
  /\ y_opt \in Y!Opt
  /\ y_pc \in {"begin", "open", "streamlink", "decide", "youtube-dl", "comments",
             "comWait", "gmWait", "returned", "exited"}
  /\ y_process \in [Y!Program -> {"none", "running", "exited", "missing"}]
  /\ y_closed \in [Y!Program -> BOOLEAN]
  /\ y_outputs \in [Y!Program -> {"none", "loop", "done"}]
  /\ y_notSupport \in BOOLEAN /\ y_retry \in BOOLEAN /\ y_interrupt \in BOOLEAN
  /\ y_comTold \in BOOLEAN
  /\ y_intr \in {"wait", "done"} /\ y_waiter \in {"wait", "done"}
  /\ y_told \subseteq {"intr", "waiter"} /\ y_com \in {"none", "running", "done"}

\* The queues.
YQueues ==
  /\ y_left \in [Y!Program -> Nat] /\ \A p \in Y!Program : y_left[p] <= MaxLine[p]
  /\ y_pipe \in [Y!Program -> [Y!Pipe -> Seq(Y!Written)]]
  /\ y_chan \in [Y!Program -> [Y!Pipe -> Seq(Y!Line)]]
  /\ \A p \in Y!Program, q \in Y!Pipe :
       Len(y_pipe[p][q]) <= PipeSize /\ Len(y_chan[p][q]) <= ChanSize

\* The readers, and the ends they have reported.
Reading == {"none", "scan", "eof", "done"} \cup Y!Line
Gone(p) == {q \in Y!Pipe : y_reader[p][q] = "done"}

YReaders ==
  /\ y_reader \in [Y!Program -> [Y!Pipe -> Reading]]
  /\ y_chEof \in [Y!Program -> Nat]
  /\ \A p \in Y!Program : y_chEof[p] <= Cardinality(Gone(p))
  /\ y_pc \in {"begin", "open"} =>
       \A q \in Y!Pipe : y_reader[Y!Streamlink][q] = "none"
  /\ y_pc \in {"begin", "open", "streamlink", "decide"} =>
       \A q \in Y!Pipe : y_reader[Y!YoutubeDl][q] = "none"

YInv == YPlain /\ YQueues /\ YReaders

\* Every step keeps the first.
LEMMA YPlainKept ==
  ASSUME Y!Assumption, YPlain, Y!Next
  PROVE  YPlain'
<1> USE DEF YPlain, Y!programs, Y!signals, Y!comments
<1>1. ASSUME NEW p \in Y!Program, NEW q \in Y!Pipe,
             Y!Reads(p, q) \/ Y!OutputsTakes(p, q) \/ (\E line \in Y!Written : Y!Writes(p, q, line))
      PROVE  YPlain'
  <2>1. /\ UNCHANGED <<y_opt, y_pc, y_process, y_closed, y_outputs, y_retry, y_interrupt, y_comTold,
                y_intr, y_waiter, y_told, y_com>>
        /\ y_notSupport' \in BOOLEAN
    BY <1>1 DEF Y!Reads, Y!ReaderScans, Y!ReaderGivesUp, Y!ReaderEof, Y!ReaderSends, Y!ReaderLeaves,
         Y!OutputsTakes, Y!Writes
  <2> QED BY <2>1
<1>2. ASSUME NEW p \in Y!Program, Y!Exits(p) \/ Y!OutputsEof(p)  PROVE YPlain'
  <2>1. CASE Y!Exits(p)  BY <2>1 DEF Y!Exits, Y!Ended
  <2>2. CASE Y!OutputsEof(p)  BY <2>2 DEF Y!OutputsEof
  <2> QED BY <1>2, <2>1, <2>2
<1>3. ASSUME NEW p \in Y!Program, NEW q \in Y!Pipe, Y!OutputsKills(p, q)  PROVE YPlain'
  BY <1>3 DEF Y!OutputsKills, Y!TakesError, Y!Ended
<1>4. ASSUME NEW p \in Y!Program, NEW q \in Y!Pipe, Y!OutputsDies(p, q)  PROVE YPlain'
  BY <1>4 DEF Y!OutputsDies, Y!TakesError
<1>5. ASSUME NEW o \in Opts, Y!Begin(o)  PROVE YPlain'
  BY <1>5 DEF Y!Begin, Y!Assumption
<1>6. ASSUME Y!OpenStreamlink \/ Y!NoStreamlink \/ Y!StreamlinkReturns  PROVE YPlain'
  <2> USE DEF Y!Program, Y!Streamlink
  <2>1. CASE Y!OpenStreamlink  BY <2>1 DEF Y!OpenStreamlink, Y!Run
  <2>2. CASE Y!NoStreamlink  BY <2>2 DEF Y!NoStreamlink, Y!Missing
  <2>3. CASE Y!StreamlinkReturns  BY <2>3 DEF Y!StreamlinkReturns, Y!Waited
  <2> QED BY <1>6, <2>1, <2>2, <2>3
<1>7. ASSUME Y!OpenYoutubeDl \/ Y!NoYoutubeDl \/ Y!SkipYoutubeDl \/ Y!YoutubeDlReturns
      PROVE  YPlain'
  <2> USE DEF Y!Program, Y!YoutubeDl
  <2>1. CASE Y!OpenYoutubeDl  BY <2>1 DEF Y!OpenYoutubeDl, Y!Run
  <2>2. CASE Y!NoYoutubeDl  BY <2>2 DEF Y!NoYoutubeDl, Y!Missing
  <2>3. CASE Y!SkipYoutubeDl  BY <2>3 DEF Y!SkipYoutubeDl
  <2>4. CASE Y!YoutubeDlReturns  BY <2>4 DEF Y!YoutubeDlReturns, Y!Waited
  <2> QED BY <1>7, <2>1, <2>2, <2>3, <2>4
<1>8. ASSUME Y!StopComments \/ Y!CommentsDone \/ Y!Returns  PROVE YPlain'
  BY <1>8 DEF Y!StopComments, Y!CommentsDone, Y!CancelAll, Y!Returns
<1>9. ASSUME Y!IntrSignal \/ Y!IntrTold \/ Y!WaiterTold \/ Y!ComStops \/ Y!ComEnds  PROVE YPlain'
  <2>1. CASE Y!IntrSignal  BY <2>1 DEF Y!IntrSignal, Y!IntrStops
  <2>2. CASE Y!IntrTold  BY <2>2 DEF Y!IntrTold, Y!IntrStops
  <2>3. CASE Y!WaiterTold  BY <2>3 DEF Y!WaiterTold
  <2>4. CASE Y!ComStops \/ Y!ComEnds  BY <2>4 DEF Y!ComStops, Y!ComEnds
  <2> QED BY <1>9, <2>1, <2>2, <2>3, <2>4
<1> QED
  BY <1>1, <1>2, <1>3, <1>4, <1>5, <1>6, <1>7, <1>8, <1>9 DEF Y!Next, Y!Record, Y!Outputs

\* Lines come and go at the ends of the queues, within their size.
LEMMA YQueuesKept ==
  ASSUME Y!Assumption, YPlain, YQueues, YReaders, Y!Next
  PROVE  YQueues'
<1> USE DEF YQueues, Y!programs, Y!signals, Y!comments, Y!Assumption
<1>1. ASSUME NEW p \in Y!Program, NEW q \in Y!Pipe, NEW line \in Y!Written, Y!Writes(p, q, line)
      PROVE  YQueues'
  <2>1. /\ y_left[p] > 0 /\ Len(y_pipe[p][q]) < PipeSize
        /\ y_left' = [y_left EXCEPT ![p] = @ - 1]
        /\ y_pipe' = [y_pipe EXCEPT ![p][q] = Append(@, line)] /\ y_chan' = y_chan
    BY <1>1 DEF Y!Writes
  <2>2. /\ Append(y_pipe[p][q], line) \in Seq(Y!Written)
        /\ Len(Append(y_pipe[p][q], line)) <= PipeSize
    BY <2>1, AppendProperties
  <2> QED BY <2>1, <2>2
<1>2. ASSUME NEW p \in Y!Program, NEW q \in Y!Pipe, Y!ReaderScans(p, q) \/ Y!ReaderGivesUp(p, q)
      PROVE  YQueues'
  <2>1. /\ y_pipe[p][q] # <<>> /\ UNCHANGED <<y_left, y_chan>>
        /\ y_pipe' = y_pipe \/ y_pipe' = [y_pipe EXCEPT ![p][q] = Tail(@)]
    BY <1>2 DEF Y!ReaderScans, Y!ReaderGivesUp
  <2>2. Tail(y_pipe[p][q]) \in Seq(Y!Written) /\ Len(Tail(y_pipe[p][q])) <= PipeSize
    BY <2>1, HeadTailProperties
  <2>3. CASE y_pipe' = y_pipe
    BY <2>1, <2>3
  <2>4. CASE y_pipe' = [y_pipe EXCEPT ![p][q] = Tail(@)]
    BY <2>1, <2>2, <2>4
  <2> QED BY <2>1, <2>3, <2>4
<1>3. ASSUME NEW p \in Y!Program, NEW q \in Y!Pipe, Y!ReaderSends(p, q)  PROVE YQueues'
  <2>1. /\ y_reader[p][q] \in Y!Line /\ Len(y_chan[p][q]) < ChanSize
        /\ y_chan' = [y_chan EXCEPT ![p][q] = Append(@, y_reader[p][q])]
        /\ UNCHANGED <<y_left, y_pipe>>
    BY <1>3 DEF Y!ReaderSends
  <2>2. /\ Append(y_chan[p][q], y_reader[p][q]) \in Seq(Y!Line)
        /\ Len(Append(y_chan[p][q], y_reader[p][q])) <= ChanSize
    BY <2>1, AppendProperties
  <2> QED BY <2>1, <2>2
<1>4. ASSUME NEW p \in Y!Program, NEW q \in Y!Pipe, Y!OutputsTakes(p, q) \/ Y!OutputsKills(p, q)
      PROVE  YQueues'
  <2>1. /\ y_chan[p][q] # <<>> /\ y_chan' = [y_chan EXCEPT ![p][q] = Tail(@)]
        /\ y_pipe' = y_pipe /\ (y_left' = y_left \/ y_left' = [y_left EXCEPT ![p] = 0])
    BY <1>4 DEF Y!OutputsTakes, Y!OutputsKills, Y!TakesError, Y!Ended
  <2>2. Tail(y_chan[p][q]) \in Seq(Y!Line) /\ Len(Tail(y_chan[p][q])) <= ChanSize
    BY <2>1, HeadTailProperties
  <2>3. /\ y_left' \in [Y!Program -> Nat]
        /\ \A r \in Y!Program : y_left'[r] <= MaxLine[r]
    <3>1. CASE y_left' = y_left  BY <3>1
    <3>2. CASE y_left' = [y_left EXCEPT ![p] = 0]  BY <3>2
    <3> QED BY <2>1, <3>1, <3>2
  <2> QED BY <2>1, <2>2, <2>3
<1>5. ASSUME NEW p \in Y!Program, NEW q \in Y!Pipe, Y!OutputsDies(p, q)  PROVE YQueues'
  <2>1. /\ y_left' = [r \in Y!Program |-> 0] /\ y_pipe' = Y!NoneOf /\ y_chan' = Y!NoneOf
    BY <1>5 DEF Y!OutputsDies
  <2> QED BY <2>1 DEF Y!NoneOf
<1>6. ASSUME NEW p \in Y!Program, Y!Waited(p)  PROVE YQueues'
  <2>1. /\ y_pipe' = [y_pipe EXCEPT ![p] = [q \in Y!Pipe |-> <<>>]]
        /\ UNCHANGED <<y_left, y_chan>>
    BY <1>6 DEF Y!Waited
  <2> QED BY <2>1
<1>7. ASSUME NEW p \in Y!Program, Y!Exits(p)  PROVE YQueues'
  BY <1>7 DEF Y!Exits, Y!Ended
<1>8. CASE UNCHANGED <<y_left, y_pipe, y_chan>>
  BY <1>8
<1>9. Y!Streamlink \in Y!Program /\ Y!YoutubeDl \in Y!Program
  BY DEF Y!Program
<1>10. \/ UNCHANGED <<y_left, y_pipe, y_chan>>
       \/ \E p \in Y!Program : Y!Waited(p) \/ Y!Exits(p)
       \/ \E p \in Y!Program, q \in Y!Pipe :
            \/ Y!ReaderScans(p, q) \/ Y!ReaderGivesUp(p, q) \/ Y!ReaderSends(p, q)
            \/ Y!OutputsTakes(p, q)
            \/ Y!OutputsKills(p, q) \/ Y!OutputsDies(p, q)
            \/ \E line \in Y!Written : Y!Writes(p, q, line)
  <2>1. Y!Record => UNCHANGED <<y_left, y_pipe, y_chan>> \/ Y!Waited(Y!Streamlink) \/ Y!Waited(Y!YoutubeDl)
    BY DEF Y!Record, Y!OpenStreamlink, Y!NoStreamlink, Y!StreamlinkReturns, Y!OpenYoutubeDl,
       Y!NoYoutubeDl, Y!SkipYoutubeDl, Y!YoutubeDlReturns, Y!StopComments, Y!CommentsDone, Y!Returns,
       Y!Run, Y!Missing
  <2>2. ASSUME (\E o \in Opts : Y!Begin(o)) \/ Y!IntrSignal \/ Y!IntrTold \/ Y!WaiterTold \/ Y!ComStops
               \/ Y!ComEnds
        PROVE  UNCHANGED <<y_left, y_pipe, y_chan>>
    BY <2>2 DEF Y!Begin, Y!IntrSignal, Y!IntrTold, Y!IntrStops, Y!WaiterTold, Y!ComStops, Y!ComEnds
  <2>3. ASSUME NEW p \in Y!Program, Y!OutputsEof(p)  PROVE UNCHANGED <<y_left, y_pipe, y_chan>>
    BY <2>3 DEF Y!OutputsEof
  <2>4. ASSUME NEW p \in Y!Program, NEW q \in Y!Pipe, Y!ReaderEof(p, q) \/ Y!ReaderLeaves(p, q)
        PROVE  UNCHANGED <<y_left, y_pipe, y_chan>>
    BY <2>4 DEF Y!ReaderEof, Y!ReaderLeaves
  <2> HIDE DEF YQueues, Y!programs, Y!signals, Y!comments, Y!Assumption
  <2> QED BY <1>9, <2>1, <2>2, <2>3, <2>4 DEF Y!Next, Y!Outputs, Y!Reads
<1> HIDE DEF YQueues, Y!programs, Y!signals, Y!comments, Y!Assumption
<1> QED BY <1>1, <1>2, <1>3, <1>4, <1>5, <1>6, <1>7, <1>8, <1>10

\* The readers that are gone are finitely many, and one more when one leaves.
LEMMA GoneCounted ==
  ASSUME NEW F \in [Y!Pipe -> Reading]
  PROVE  /\ IsFiniteSet({q \in Y!Pipe : F[q] = "done"})
         /\ Cardinality({q \in Y!Pipe : F[q] = "done"}) \in Nat
         /\ Cardinality({q \in Y!Pipe : F[q] = "done"}) <= 2
<1>1. IsFiniteSet(Y!Pipe) /\ Cardinality(Y!Pipe) = 2
  <2>1. "stdout" # "stderr" /\ Y!Pipe = {"stdout"} \cup {"stderr"}
    BY DEF Y!Pipe
  <2>2. IsFiniteSet({"stdout"}) /\ Cardinality({"stdout"}) = 1
    BY FS_Singleton
  <2>3. {"stdout"} \cup {"stderr"} = {"stdout", "stderr"}
    OBVIOUS
  <2> QED BY <2>1, <2>2, <2>3, FS_AddElement
<1>2. {q \in Y!Pipe : F[q] = "done"} \in SUBSET Y!Pipe
  OBVIOUS
<1> QED BY <1>1, <1>2, FS_Subset, FS_CardinalityType

LEMMA OneMoreGone ==
  ASSUME NEW F \in [Y!Pipe -> Reading], NEW q \in Y!Pipe, F[q] # "done"
  PROVE  Cardinality({r \in Y!Pipe : [F EXCEPT ![q] = "done"][r] = "done"})
           = Cardinality({r \in Y!Pipe : F[r] = "done"}) + 1
<1> DEFINE D == {r \in Y!Pipe : F[r] = "done"}
<1>1. {r \in Y!Pipe : [F EXCEPT ![q] = "done"][r] = "done"} = D \cup {q}
  OBVIOUS
<1>2. IsFiniteSet(D) /\ q \notin D
  BY GoneCounted
<1> QED BY <1>1, <1>2, FS_AddElement

\* An end is reported by a reader that is then gone, and taken once.
LEMMA YReadersKept ==
  ASSUME Y!Assumption, YPlain, YQueues, YReaders, Y!Next
  PROVE  YReaders'
<1>0. /\ y_reader \in [Y!Program -> [Y!Pipe -> Reading]] /\ y_chEof \in [Y!Program -> Nat]
      /\ \A p \in Y!Program : /\ y_chEof[p] <= Cardinality(Gone(p))
                              /\ Cardinality(Gone(p)) \in Nat /\ y_reader[p] \in [Y!Pipe -> Reading]
  BY GoneCounted DEF YReaders, Gone
<1>1. Y!Line \subseteq Reading /\ {"none", "scan", "eof", "done"} \subseteq Reading
      /\ Y!Streamlink \in Y!Program /\ Y!YoutubeDl \in Y!Program
      /\ Y!Streamlink # Y!YoutubeDl
      /\ Y!Program = {Y!Streamlink, Y!YoutubeDl}
  BY DEF Reading, Y!Program, Y!Streamlink, Y!YoutubeDl
\* A reader goes on, and is not gone.
<1>2. ASSUME NEW p \in Y!Program, NEW q \in Y!Pipe, NEW to \in Reading \ {"none", "done"},
             y_reader[p][q] \notin {"none", "done"}, y_reader' = [y_reader EXCEPT ![p][q] = to],
             y_chEof' = y_chEof, y_pc' = y_pc
      PROVE  YReaders'
  <2>1. \A r \in Y!Program : y_reader'[r] = IF r = p THEN [y_reader[p] EXCEPT ![q] = to] ELSE y_reader[r]
    BY <1>0, <1>2
  <2>2. \A r \in Y!Program : {s \in Y!Pipe : y_reader'[r][s] = "done"} = Gone(r)
    BY <1>0, <1>2, <2>1 DEF Gone
  <2>3. \A r \in Y!Program : y_reader'[r] \in [Y!Pipe -> Reading]
    BY <1>0, <1>2, <2>1
  <2>4. y_reader' \in [Y!Program -> [Y!Pipe -> Reading]]
    BY <1>0, <1>2, <2>3
  <2>5. \A r \in Y!Program : y_chEof'[r] <= Cardinality(Gone(r)')
    BY <1>0, <1>2, <2>2 DEF Gone
  <2>6. \A r \in Y!Program : (\A s \in Y!Pipe : y_reader[r][s] = "none") =>
            \A s \in Y!Pipe : y_reader'[r][s] = "none"
    BY <1>0, <1>2, <2>1
  <2> QED BY <1>0, <1>1, <1>2, <2>4, <2>5, <2>6 DEF YReaders
\* It reports its end.
<1>3. ASSUME NEW p \in Y!Program, NEW q \in Y!Pipe, Y!ReaderLeaves(p, q)
      PROVE  YReaders'
  <2>0. /\ y_reader[p][q] = "eof" /\ y_reader' = [y_reader EXCEPT ![p][q] = "done"]
        /\ y_chEof' = [y_chEof EXCEPT ![p] = @ + 1] /\ y_pc' = y_pc
    BY <1>3 DEF Y!ReaderLeaves
  <2>1. \A r \in Y!Program : y_reader'[r] = IF r = p THEN [y_reader[p] EXCEPT ![q] = "done"] ELSE y_reader[r]
    BY <1>0, <2>0
  <2>2. y_reader' \in [Y!Program -> [Y!Pipe -> Reading]]
    BY <1>0, <1>1, <2>0, <2>1
  <2>3. Cardinality(Gone(p)') = Cardinality(Gone(p)) + 1
    <3>1. Cardinality({r \in Y!Pipe : [y_reader[p] EXCEPT ![q] = "done"][r] = "done"})
            = Cardinality({r \in Y!Pipe : y_reader[p][r] = "done"}) + 1
      BY <1>0, <2>0, OneMoreGone
    <3> QED BY <2>1, <3>1 DEF Gone
  <2>4. \A r \in Y!Program : r # p => Gone(r)' = Gone(r)
    BY <2>1 DEF Gone
  <2>5. \A r \in Y!Program : y_chEof'[r] \in Nat /\ y_chEof'[r] <= Cardinality(Gone(r)')
    <3> SUFFICES ASSUME NEW r \in Y!Program
                 PROVE  y_chEof'[r] \in Nat /\ y_chEof'[r] <= Cardinality(Gone(r)')
      OBVIOUS
    <3>1. CASE r = p
      BY <1>0, <2>0, <2>3, <3>1
    <3>2. CASE r # p
      BY <1>0, <2>0, <2>4, <3>2
    <3> QED BY <3>1, <3>2
  <2>6. y_chEof' \in [Y!Program -> Nat]
    BY <1>0, <2>0
  <2>7. \A r \in Y!Program : (\A s \in Y!Pipe : y_reader[r][s] = "none") =>
            \A s \in Y!Pipe : y_reader'[r][s] = "none"
    BY <1>0, <2>0, <2>1
  <2> QED BY <1>1, <2>0, <2>2, <2>5, <2>6, <2>7 DEF YReaders
\* outputs takes an end.
<1>4. ASSUME NEW p \in Y!Program, Y!OutputsEof(p)
      PROVE  YReaders'
  <2>1. /\ y_chEof[p] > 0 /\ y_chEof' = [y_chEof EXCEPT ![p] = @ - 1]
        /\ y_reader' = y_reader /\ y_pc' = y_pc
    BY <1>4 DEF Y!OutputsEof
  <2>2. \A r \in Y!Program : Gone(r)' = Gone(r)
    BY <2>1 DEF Gone
  <2>3. y_chEof' \in [Y!Program -> Nat]
    BY <1>0, <2>1
  <2>4. \A r \in Y!Program : y_chEof'[r] <= Cardinality(Gone(r)')
    BY <1>0, <2>1, <2>2
  <2> QED BY <2>1, <2>3, <2>4 DEF YReaders
<1>5. ASSUME NEW p \in Y!Program, NEW q \in Y!Pipe, Y!OutputsDies(p, q)
      PROVE  YReaders'
  <2>1. /\ y_reader' = [r \in Y!Program |-> [s \in Y!Pipe |-> "done"]]
        /\ y_chEof' = y_chEof /\ y_pc' = "exited"
    BY <1>5 DEF Y!OutputsDies
  <2>2. y_reader' \in [Y!Program -> [Y!Pipe -> Reading]]
    BY <1>1, <2>1
  <2>3. ASSUME NEW r \in Y!Program  PROVE y_chEof'[r] <= Cardinality(Gone(r)')
    <3>1. Gone(r)' = Y!Pipe
      BY <2>1 DEF Gone
    <3> DEFINE F == [s \in Y!Pipe |-> "done"]
    <3>2. F \in [Y!Pipe -> Reading] /\ {s \in Y!Pipe : F[s] = "done"} = Y!Pipe
      BY <1>1
    <3>3. IsFiniteSet(Y!Pipe)
      BY <3>2, GoneCounted
    <3>4. Cardinality(Gone(r)) <= Cardinality(Y!Pipe) /\ Cardinality(Y!Pipe) \in Nat
      <4>1. Gone(r) \in SUBSET Y!Pipe  BY DEF Gone
      <4> QED BY <3>3, <4>1, FS_Subset, FS_CardinalityType
    <3> QED BY <1>0, <2>1, <3>1, <3>4
  <2> QED BY <1>0, <2>1, <2>2, <2>3 DEF YReaders
\* The readers of a program are started, after none of them has run.
<1>6. ASSUME NEW p \in Y!Program, Y!Run(p), \A q \in Y!Pipe : y_reader[p][q] = "none",
             y_pc' \in {"streamlink", "youtube-dl"},
             y_pc' = "streamlink" =>
               p = Y!Streamlink /\ \A q \in Y!Pipe : y_reader[Y!YoutubeDl][q] = "none"
      PROVE  YReaders'
  <2>1. y_reader' = [y_reader EXCEPT ![p] = [q \in Y!Pipe |-> "scan"]] /\ y_chEof' = y_chEof
    BY <1>6 DEF Y!Run
  <2>2. y_reader' \in [Y!Program -> [Y!Pipe -> Reading]]
    BY <1>0, <1>1, <2>1
  <2>3. \A r \in Y!Program : Gone(r)' = Gone(r)
    BY <1>0, <1>6, <2>1 DEF Gone
  <2>4. \A r \in Y!Program : y_chEof'[r] <= Cardinality(Gone(r)')
    BY <1>0, <2>1, <2>3
  <2>5. \A r \in Y!Program : r # p => y_reader'[r] = y_reader[r]
    BY <1>0, <2>1
  <2> QED BY <1>0, <1>1, <1>6, <2>1, <2>2, <2>4, <2>5 DEF YReaders
\* Record goes on to where more readers may have run.
<1>7. ASSUME UNCHANGED <<y_reader, y_chEof>>,
             y_pc' \in {"begin", "open"} => y_pc \in {"begin", "open"},
             y_pc' \in {"begin", "open", "streamlink", "decide"} =>
               y_pc \in {"begin", "open", "streamlink", "decide"}
      PROVE  YReaders'
  <2>1. \A r \in Y!Program : Gone(r)' = Gone(r)
    BY <1>7 DEF Gone
  <2> QED BY <1>0, <1>7, <2>1 DEF YReaders
<1>8. ASSUME Y!Record  PROVE YReaders'
  <2>1. CASE Y!OpenStreamlink
    <3>1. /\ y_pc = "open" /\ y_pc' = "streamlink" /\ Y!Run(Y!Streamlink)
      BY <2>1 DEF Y!OpenStreamlink
    <3>2. /\ \A q \in Y!Pipe : y_reader[Y!Streamlink][q] = "none"
          /\ \A q \in Y!Pipe : y_reader[Y!YoutubeDl][q] = "none"
      BY <3>1 DEF YReaders
    <3> QED BY <1>1, <1>6, <3>1, <3>2
  <2>2. CASE Y!OpenYoutubeDl
    <3>1. /\ y_pc = "decide" /\ y_pc' = "youtube-dl" /\ Y!Run(Y!YoutubeDl)
      BY <2>2 DEF Y!OpenYoutubeDl
    <3>2. \A q \in Y!Pipe : y_reader[Y!YoutubeDl][q] = "none"
      BY <3>1 DEF YReaders
    <3> QED BY <1>1, <1>6, <3>1, <3>2
  <2>3. ASSUME ~Y!OpenStreamlink, ~Y!OpenYoutubeDl
        PROVE  /\ UNCHANGED <<y_reader, y_chEof>>
               /\ y_pc' \in {"decide", "comments", "comWait", "gmWait", "returned"}
               /\ y_pc' = "decide" => y_pc \in {"open", "streamlink"}
    BY <1>8, <2>3 DEF Y!Record, Y!NoStreamlink, Y!StreamlinkReturns,
       Y!NoYoutubeDl, Y!SkipYoutubeDl, Y!YoutubeDlReturns, Y!StopComments, Y!CommentsDone, Y!Returns,
       Y!Missing, Y!Waited, Y!programs
  <2> QED BY <1>7, <2>1, <2>2, <2>3
<1>9. ASSUME NEW o \in Opts, Y!Begin(o)  PROVE YReaders'
  <2>1. UNCHANGED <<y_reader, y_chEof>> /\ y_pc = "begin"
    BY <1>9 DEF Y!Begin, Y!programs
  <2> QED BY <1>7, <2>1
<1>10. ASSUME Y!IntrSignal \/ Y!IntrTold \/ Y!WaiterTold \/ Y!ComStops \/ Y!ComEnds  PROVE YReaders'
  <2>1. UNCHANGED <<y_reader, y_chEof, y_pc>>
    BY <1>10 DEF Y!IntrSignal, Y!IntrTold, Y!IntrStops, Y!WaiterTold, Y!ComStops, Y!ComEnds, Y!programs
  <2> QED BY <1>7, <2>1
<1>11. ASSUME NEW p \in Y!Program, NEW q \in Y!Pipe,
              \/ Y!OutputsTakes(p, q) \/ Y!OutputsKills(p, q)
              \/ \E line \in Y!Written : Y!Writes(p, q, line)
       PROVE  YReaders'
  <2>1. UNCHANGED <<y_reader, y_chEof, y_pc>>
    BY <1>11 DEF Y!OutputsTakes, Y!OutputsKills, Y!Writes
  <2> QED BY <1>7, <2>1
<1>12. ASSUME NEW p \in Y!Program, NEW q \in Y!Pipe, Y!Reads(p, q)  PROVE YReaders'
  <2>1. CASE Y!ReaderScans(p, q)
    <3>1. /\ y_reader[p][q] = "scan" /\ y_pipe[p][q] # <<>>
          /\ y_reader' = [y_reader EXCEPT ![p][q] = Head(y_pipe[p][q])]
          /\ UNCHANGED <<y_chEof, y_pc>>
      BY <2>1 DEF Y!ReaderScans
    <3>2. Head(y_pipe[p][q]) \in Y!Line
      <4>1. y_pipe[p][q] \in Seq(Y!Written)
        BY DEF YQueues
      <4>2. Head(y_pipe[p][q]) \in Y!Written
        BY <3>1, <4>1, HeadTailProperties
      <4> QED BY <2>1, <4>2 DEF Y!ReaderScans, Y!Written
    <3>3. Head(y_pipe[p][q]) \in Reading \ {"none", "done"}
      BY <1>1, <3>2 DEF Y!Line
    <3> QED BY <1>2, <3>1, <3>3
  <2>2. CASE Y!ReaderEof(p, q) \/ Y!ReaderGivesUp(p, q)
    <3>1. /\ y_reader[p][q] = "scan" /\ y_reader' = [y_reader EXCEPT ![p][q] = "eof"]
          /\ UNCHANGED <<y_chEof, y_pc>>
      BY <2>2 DEF Y!ReaderEof, Y!ReaderGivesUp
    <3>2. "eof" \in Reading \ {"none", "done"}
      BY <1>1
    <3> QED BY <1>2, <3>1, <3>2
  <2>3. CASE Y!ReaderSends(p, q)
    <3>1. /\ y_reader[p][q] \in Y!Line /\ y_reader' = [y_reader EXCEPT ![p][q] = "scan"]
          /\ UNCHANGED <<y_chEof, y_pc>>
      BY <2>3 DEF Y!ReaderSends
    <3>2. y_reader[p][q] \notin {"none", "done"} /\ "scan" \in Reading \ {"none", "done"}
      BY <1>1, <3>1 DEF Y!Line
    <3> QED BY <1>2, <3>1, <3>2
  <2> QED BY <1>3, <1>12, <2>1, <2>2, <2>3 DEF Y!Reads
<1>13. ASSUME NEW p \in Y!Program, Y!Exits(p)  PROVE YReaders'
  <2>1. UNCHANGED <<y_reader, y_chEof, y_pc>>
    BY <1>13 DEF Y!Exits
  <2> QED BY <1>7, <2>1
<1> QED
  BY <1>3, <1>4, <1>5, <1>8, <1>9, <1>10, <1>11, <1>12, <1>13 DEF Y!Next, Y!Outputs

\* Before Record is called.
LEMMA YFirst ==
  ASSUME Y!Assumption, Y!Init
  PROVE  YInv
<1>1. YPlain
  BY DEF Y!Init, YPlain, Y!Opt, Y!Chat
<1>2. YQueues
  BY DEF Y!Init, YQueues, Y!NoneOf, Y!Assumption
<1>3. YReaders
  <2>1. \A p \in Y!Program : /\ y_reader[p] = [q \in Y!Pipe |-> "none"] /\ y_chEof[p] = 0
                             /\ y_reader[p] \in [Y!Pipe -> Reading]
    BY DEF Y!Init, Reading
  <2>2. \A p \in Y!Program : Cardinality(Gone(p)) \in Nat
    BY <2>1, GoneCounted DEF Gone
  <2>3. Y!Streamlink \in Y!Program /\ Y!YoutubeDl \in Y!Program
    BY DEF Y!Program
  <2> QED BY <2>1, <2>2, <2>3 DEF Y!Init, YReaders, Reading
<1> QED BY <1>1, <1>2, <1>3 DEF YInv

\* The queues between a program and outputs (youtube.go) keep to their sizes, and no
\* more ends are reported than readers have gone, for any sizes and any output.
THEOREM RecorderInv == PartsSpec => []YInv
<1>1. PartsInit => YInv
  BY PartsAssumption, YFirst DEF PartsAssumption, PartsInit
<1>2. YInv /\ [PartsNext]_partVars => YInv'
  <2> SUFFICES ASSUME YInv, [PartsNext]_partVars PROVE YInv'
    OBVIOUS
  <2>1. CASE Y!Next
    BY <2>1, PartsAssumption, YPlainKept, YQueuesKept, YReadersKept DEF PartsAssumption, YInv
  <2>2. CASE UNCHANGED y_vars
    BY <2>2 DEF y_vars, YInv, YPlain, YQueues, YReaders, Gone
  <2> QED BY <2>1, <2>2 DEF PartsNext, Alone, partVars
<1> QED BY <1>1, <1>2, PTL DEF PartsSpec

\* The three together are the types.
LEMMA YTypes == YInv => Y!TypeOK
<1> SUFFICES ASSUME YInv PROVE Y!TypeOK
  OBVIOUS
<1>1. \A p \in Y!Program : y_chEof[p] <= Y!Cardinality({q \in Y!Pipe : y_reader[p][q] = "done"})
  BY YSameCardinality DEF YInv, YReaders, Gone
<1>2. y_reader \in [Y!Program -> [Y!Pipe -> {"none", "scan", "eof", "done"} \cup Y!Line]]
  BY DEF YInv, YReaders, Reading
<1>3. {y_notSupport, y_retry, y_interrupt, y_comTold} \subseteq BOOLEAN
  BY DEF YInv, YPlain
<1>4. \A p \in Y!Program : y_left[p] \in 0..MaxLine[p]
  <2> SUFFICES ASSUME NEW p \in Y!Program PROVE y_left[p] \in 0..MaxLine[p]
    OBVIOUS
  <2>1. y_left[p] \in Nat /\ y_left[p] <= MaxLine[p] /\ MaxLine[p] \in Nat
    BY PartsAssumption DEF PartsAssumption, Y!Assumption, YInv, YQueues
  <2> QED BY <2>1
<1> QED BY <1>1, <1>2, <1>3, <1>4 DEF YInv, YPlain, YQueues, Y!TypeOK

-----------------------------------------------------------------------------
(***************************************************************************)
(* YoutubeComments and Timeshift have proofs of their own, in terms of     *)
(* their own variables; they are instantiated with the variables here.     *)
(***************************************************************************)
CP == INSTANCE YoutubeComments_proofs WITH
  isReplay <- c_isReplay, runs <- c_runs, pc <- c_pc, continuation <-
  c_continuation, count <- c_count, stop <- c_stop, pending <- c_pending,
  stored <- c_stored, received <- c_received, cutoff <- c_cutoff, goesOn <-
  c_goesOn, firsts <- c_firsts, recounts <- c_recounts, recounted <-
  c_recounted

SP == INSTANCE Timeshift_proofs WITH
  fastTimeshift <- s_fastTimeshift, fastTimeshiftOrig <- s_fastTimeshiftOrig,
  tsStart <- s_tsStart, pc <- s_pc, runs <- s_runs, timeshiftStart <-
  s_timeshiftStart, joined <- s_joined, head <- s_head, next <- s_next, is500
  <- s_is500, is200 <- s_is200, writes <- s_writes, stored <- s_stored,
  notfound <- s_notfound, marked <- s_marked, interrupted <- s_interrupted,
  failed <- s_failed, lost <- s_lost, faults <- s_faults

\* The two instances are the same specification.
LEMMA SameComments ==
  /\ C!Assumption => CP!Assumption
  /\ C!Init => CP!Init
  /\ [C!Next]_c_vars => [CP!Next]_(CP!vars)
  /\ CP!LossExplained => C!LossExplained
  /\ CP!TypeOK => C!TypeOK
<1>1. C!Assumption => CP!Assumption
  BY DEF C!Assumption, CP!Assumption, C!Comment, CP!Comment
<1>2. C!Init => CP!Init
  BY DEF C!Init, CP!Init
<1>3. CP!LossExplained => C!LossExplained
  BY DEF CP!LossExplained, C!LossExplained, CP!ids, C!ids
<1>4. UNCHANGED c_vars => UNCHANGED CP!vars
  BY DEF c_vars, CP!vars, CP!loop, CP!db
<1>5. C!Next => CP!Next
  <2> USE DEF C!loop, CP!loop, C!db, CP!db
  <2>1. ASSUME NEW replay \in BOOLEAN, NEW found \in BOOLEAN, NEW page \in 0..N,
               C!Start(replay, page, found)
        PROVE  CP!Start(replay, page, found)
    BY <2>1 DEF C!Start, CP!Start, C!last, CP!last, C!LastCount, CP!LastCount
  <2>2. ASSUME NEW i \in 0..N, NEW j \in 0..N, C!Receive(i, j)  PROVE CP!Receive(i, j)
    BY <2>2 DEF C!Receive, CP!Receive
  <2>3. ASSUME NEW r \in c_pending, C!Insert(r)  PROVE CP!Insert(r)
    BY <2>3 DEF C!Insert, CP!Insert, C!Same, CP!Same
  <2>4. ASSUME NEW r \in c_pending, C!InsertFails(r)  PROVE CP!InsertFails(r)
    BY <2>4 DEF C!InsertFails, CP!InsertFails
  <2>5. ASSUME NEW why \in {"sig", "ctx"}, C!Told(why)  PROVE CP!Told(why)
    BY <2>5 DEF C!Told, CP!Told
  <2>6. /\ C!Ask => CP!Ask
        /\ C!Leave => CP!Leave
        /\ C!Down => CP!Down
    BY DEF C!Ask, CP!Ask, C!Leave, CP!Leave, C!Down, CP!Down
  <2> QED BY <2>1, <2>2, <2>3, <2>4, <2>5, <2>6 DEF C!Next, CP!Next
<1>6. CP!TypeOK => C!TypeOK
  BY DEF CP!TypeOK, C!TypeOK, CP!Row, C!Row, CP!Comment, C!Comment
<1> QED BY <1>1, <1>2, <1>3, <1>4, <1>5, <1>6

\* A comment that getComment (youtube/comment.go) received is missing for one of the
\* named reasons only, while the other parts run beside it.
THEOREM LossAlwaysExplained == PartsSpec => []LossExplained
<1>1. CP!Assumption
  BY PartsAssumption, SameComments DEF PartsAssumption
<1>2. CP!Spec => []CP!LossExplained
  BY <1>1, CP!LossAlwaysExplained, PTL DEF CP!LossAlwaysExplained
<1>3. PartsInit => CP!Init
  BY SameComments DEF PartsInit
<1>4. [PartsNext]_partVars => [CP!Next]_(CP!vars)
  <2> SUFFICES ASSUME [PartsNext]_partVars PROVE [C!Next]_c_vars
    BY SameComments
  <2> QED BY DEF PartsNext, Alone, partVars
<1>5. CP!LossExplained => LossExplained
  BY SameComments DEF LossExplained
<1> QED BY <1>2, <1>3, <1>4, <1>5, PTL DEF PartsSpec, CP!Spec

\* The two instances are the same specification.
LEMMA SameTimeshift ==
  /\ S!Assumption => SP!Assumption
  /\ S!Init => SP!Init
  /\ [S!Next]_s_vars => [SP!Next]_(SP!vars)
  /\ SP!GapExplained => S!GapExplained
  /\ SP!TypeOK => S!TypeOK
<1>1. S!Assumption => SP!Assumption
  BY DEF S!Assumption, SP!Assumption
<1>2. S!Init => SP!Init
  BY DEF S!Init, SP!Init
<1>3. SP!GapExplained => S!GapExplained
  BY DEF SP!GapExplained, S!GapExplained, SP!Passed, S!Passed, SP!Chunk, S!Chunk
<1>4. UNCHANGED s_vars => UNCHANGED SP!vars
  BY DEF s_vars, SP!vars, SP!options, SP!pass, SP!media, SP!history
<1>5. S!Next => SP!Next
  <2> USE DEF S!options, SP!options, S!pass, SP!pass, S!media, SP!media, S!history,
       SP!history, S!last, SP!last, S!Chunk, SP!Chunk, S!rows, SP!rows
  <2>1. ASSUME NEW fast \in BOOLEAN, NEW start \in TsStarts, S!Start(fast, start)
        PROVE  SP!Start(fast, start)
    <3>1. S!LastRows = SP!LastRows
      BY DEF S!LastRows, SP!LastRows, S!Cardinality, SP!Cardinality
    <3> QED BY <2>1, <3>1 DEF S!Start, SP!Start
  <2>2. S!StartPlaylist => SP!StartPlaylist
    BY DEF S!StartPlaylist, SP!StartPlaylist, S!LastPosition, SP!LastPosition, S!Max, SP!Max
  <2>3. S!Seq = SP!Seq
    BY DEF S!Seq, SP!Seq
  <2>4. ASSUME NEW s \in S!Seq, S!GetPlaylist(s)  PROVE SP!GetPlaylist(s)
    BY <2>4 DEF S!GetPlaylist, SP!GetPlaylist, S!First, SP!First, S!Margin, SP!Margin
  <2>5. S!Skip => SP!Skip
    BY DEF S!Skip, SP!Skip, S!Listed, SP!Listed, S!Positioned, SP!Positioned
  <2>6. S!Save200 => SP!Save200
    BY DEF S!Save200, SP!Save200, S!Listed, SP!Listed, S!Writes, SP!Writes
  <2>7. S!Save404 => SP!Save404
    BY DEF S!Save404, SP!Save404, S!Listed, SP!Listed, S!Writes, SP!Writes, S!Fault, SP!Fault
  <2>8. S!Save500 => SP!Save500
    BY DEF S!Save500, SP!Save500, S!Listed, SP!Listed, S!Fault, SP!Fault
  <2>9. S!Abort => SP!Abort
    BY DEF S!Abort, SP!Abort, S!Listed, SP!Listed, S!Fault, SP!Fault
  <2>10. S!PassEnds => SP!PassEnds
    BY DEF S!PassEnds, SP!PassEnds
  <2>11. ASSUME NEW w \in s_writes, S!Write(w)  PROVE SP!Write(w)
    BY <2>11 DEF S!Write, SP!Write, S!Replaces, SP!Replaces, S!Inserts, SP!Inserts
  <2>12. S!Interrupt => SP!Interrupt
    BY DEF S!Interrupt, SP!Interrupt
  <2>13. /\ S!Stops => SP!Stops
         /\ S!Dies => SP!Dies
    BY DEF S!Stops, SP!Stops, S!Dies, SP!Dies, S!Down, SP!Down
  <2> HIDE DEF S!options, SP!options, S!pass, SP!pass, S!media, SP!media, S!history,
       SP!history, S!last, SP!last, S!Chunk, SP!Chunk, S!rows, SP!rows
  <2> QED
    BY <2>1, <2>2, <2>3, <2>4, <2>5, <2>6, <2>7, <2>8, <2>9, <2>10, <2>11, <2>12, <2>13
       DEF S!Next, SP!Next
<1>6. SP!TypeOK => S!TypeOK
  BY DEF SP!TypeOK, S!TypeOK, SP!Seq, S!Seq, SP!rows, S!rows
<1> QED BY <1>1, <1>2, <1>3, <1>4, <1>5, <1>6

\* A timeshift leaves a chunk out for a known reason only (nico_hls.go getPlaylist).
THEOREM GapAlwaysExplained == PartsSpec => []GapExplained
<1>1. SP!Assumption
  BY PartsAssumption, SameTimeshift DEF PartsAssumption
<1>2. SP!Spec => []SP!GapExplained
  BY <1>1, SP!GapAlwaysExplained, PTL DEF SP!GapAlwaysExplained
<1>3. PartsInit => SP!Init
  BY SameTimeshift DEF PartsInit
<1>4. [PartsNext]_partVars => [SP!Next]_(SP!vars)
  <2> SUFFICES ASSUME [PartsNext]_partVars PROVE [S!Next]_s_vars
    BY SameTimeshift
  <2> QED BY DEF PartsNext, Alone, partVars
<1>5. SP!GapExplained => GapExplained
  BY SameTimeshift DEF GapExplained
<1> QED BY <1>2, <1>3, <1>4, <1>5, PTL DEF PartsSpec, SP!Spec

-----------------------------------------------------------------------------
\* Every variable of every part has its type, for all values of the constants.
THEOREM PartsTypeCorrect == PartsSpec => []PartsTypeOK
<1>1. PartsSpec => []C!TypeOK
  <2>1. CP!Assumption
    BY PartsAssumption, SameComments DEF PartsAssumption
  <2>2. CP!Spec => []CP!CommentsInv
    BY <2>1, CP!RowsNumbered, PTL DEF CP!RowsNumbered
  <2>3. PartsInit => CP!Init
    BY SameComments DEF PartsInit
  <2>4. [PartsNext]_partVars => [CP!Next]_(CP!vars)
    <3> SUFFICES ASSUME [PartsNext]_partVars PROVE [C!Next]_c_vars
      BY SameComments
    <3> QED BY DEF PartsNext, Alone, partVars
  <2>5. CP!CommentsInv => C!TypeOK
    BY SameComments DEF CP!CommentsInv
  <2> QED BY <2>2, <2>3, <2>4, <2>5, PTL DEF PartsSpec, CP!Spec
<1>2. PartsSpec => []S!TypeOK
  <2>1. SP!Assumption
    BY PartsAssumption, SameTimeshift DEF PartsAssumption
  <2>2. SP!Spec => []SP!TypeOK
    BY <2>1, SP!TypeCorrect, PTL DEF SP!TypeCorrect
  <2>3. PartsInit => SP!Init
    BY SameTimeshift DEF PartsInit
  <2>4. [PartsNext]_partVars => [SP!Next]_(SP!vars)
    <3> SUFFICES ASSUME [PartsNext]_partVars PROVE [S!Next]_s_vars
      BY SameTimeshift
    <3> QED BY DEF PartsNext, Alone, partVars
  <2>5. SP!TypeOK => S!TypeOK
    BY SameTimeshift
  <2> QED BY <2>2, <2>3, <2>4, <2>5, PTL DEF PartsSpec, SP!Spec
<1>3. PartsSpec => []TypeOK
  <2>1. Assumption
    BY PartsAssumption DEF PartsAssumption
  <2>2. Spec => []TypeOK
    BY <2>1, TwitcasTypeCorrect
  <2>3. PartsInit => Init
    BY DEF PartsInit
  <2>4. [PartsNext]_partVars => [Next]_vars
    BY DEF PartsNext, Alone, partVars
  <2> QED BY <2>2, <2>3, <2>4, PTL DEF PartsSpec, Spec
<1>4. YInv /\ C!TypeOK /\ TypeOK /\ VInv /\ (QInv /\ QCount) /\ S!TypeOK /\ PInv => PartsTypeOK
  BY YTypes DEF PartsTypeOK, VInv, QInv, QTyped, PInv
<1> QED BY <1>1, <1>2, <1>3, <1>4, RecorderInv, ConverterInv, QualityCounted, PollerInv, PTL
=============================================================================
