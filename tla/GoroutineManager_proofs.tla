----------------------- MODULE GoroutineManager_proofs -----------------------
(***************************************************************************)
(* Proofs about GoroutineManager, for every finite set of goroutines.      *)
(***************************************************************************)
EXTENDS GoroutineManager, FiniteSetTheorems, TLAPS

(***************************************************************************)
(* The inductive invariant.  gm.channels holds exactly the goroutines that *)
(* are between addChan and delChan and have not been told to stop: this is *)
(* what makes Cancel close each channel once and reach all of them.  The   *)
(* wait group counts the live goroutines.                                  *)
(***************************************************************************)
ChannelsExact ==
  /\ channels = {g \in Goroutine :
                   pc[g] \in {"running", "returned"} /\ g \notin closed}
  /\ \A g \in Goroutine : pc[g] = "added" => g \notin closed

IInv == TypeOK /\ ChannelsExact /\ WaitGroupCounts

-----------------------------------------------------------------------------
(***************************************************************************)
(* What one step does to the set of live goroutines and to its size: GoAdd *)
(* adds one, Done removes one, every other step leaves the set alone.      *)
(***************************************************************************)
LEMMA LiveFinite == IsFiniteSet(Live) /\ Cardinality(Live) \in Nat
BY GoroutineFinite, FS_Subset, FS_CardinalityType DEF Live

\* wg.Add(1) goes with one more live goroutine.
LEMMA LiveGrows ==
  ASSUME NEW g \in Goroutine, TypeOK, GoAdd(g)
  PROVE  Cardinality(Live') = Cardinality(Live) + 1
<1>1. Live' = Live \cup {g} /\ g \notin Live
  BY DEF Live, TypeOK, GoAdd, Goto
<1>2. QED
  BY <1>1, LiveFinite, FS_AddElement

\* wg.Done() goes with one live goroutine less.
LEMMA LiveShrinks ==
  ASSUME NEW g \in Goroutine, TypeOK, Done(g)
  PROVE  Cardinality(Live') = Cardinality(Live) - 1
<1>1. Live' = Live \ {g} /\ g \in Live
  BY DEF Live, TypeOK, Done, Goto
<1>2. QED
  BY <1>1, LiveFinite, FS_RemoveElement

\* Registering, returning, deleting and checking change nobody's life.
LEMMA LiveSame ==
  ASSUME NEW g \in Goroutine, TypeOK,
         GoStart(g) \/ Return(g) \/ DelChan(g) \/ Check(g)
  PROVE  Live' = Live
BY DEF Live, TypeOK, GoStart, Return, DelChan, Check, Goto

\* When the counter is zero every goroutine has called wg.Done.
LEMMA NobodyLive ==
  ASSUME TypeOK, WaitGroupCounts, wg = 0
  PROVE  \A g \in Goroutine : pc[g] = "idle"
<1>1. Live = {}
  BY LiveFinite, FS_EmptySet DEF WaitGroupCounts
<1>2. QED
  BY <1>1 DEF Live

-----------------------------------------------------------------------------
\* The manager NewManager or WithChecker makes satisfies the invariant.
LEMMA InitIInv == Init => IInv
<1> SUFFICES ASSUME Init PROVE IInv
  OBVIOUS
<1>1. TypeOK /\ ChannelsExact
  BY DEF Init, TypeOK, Place, ChannelsExact
<1>2. Live = {}
  BY DEF Init, Live
<1>3. WaitGroupCounts
  BY <1>2, FS_EmptySet DEF Init, WaitGroupCounts
<1>4. QED
  BY <1>1, <1>3 DEF IInv

\* Every step preserves the invariant, one step of the proof per action.
LEMMA NextIInv == IInv /\ [Next]_vars => IInv'
<1> SUFFICES ASSUME IInv, [Next]_vars PROVE IInv'
  OBVIOUS
<1> USE DEF IInv
<1>1. ASSUME NEW g \in Goroutine, GoAdd(g) PROVE IInv'
  <2>1. TypeOK' /\ ChannelsExact'
    BY <1>1 DEF GoAdd, Goto, TypeOK, Place, ChannelsExact
  <2>2. WaitGroupCounts'
    BY <1>1, LiveGrows DEF GoAdd, WaitGroupCounts
  <2>3. QED
    BY <2>1, <2>2
<1>2. ASSUME NEW g \in Goroutine, GoStart(g) PROVE IInv'
  <2>1. TypeOK' /\ ChannelsExact'
    BY <1>2 DEF GoStart, Goto, TypeOK, Place, ChannelsExact
  <2>2. WaitGroupCounts'
    BY <1>2, LiveSame DEF GoStart, WaitGroupCounts
  <2>3. QED
    BY <2>1, <2>2
<1>3. ASSUME NEW g \in Goroutine, Return(g) PROVE IInv'
  <2>1. TypeOK' /\ ChannelsExact'
    BY <1>3 DEF Return, Goto, TypeOK, Place, ChannelsExact
  <2>2. WaitGroupCounts'
    BY <1>3, LiveSame DEF Return, WaitGroupCounts
  <2>3. QED
    BY <2>1, <2>2
<1>4. ASSUME NEW g \in Goroutine, DelChan(g) PROVE IInv'
  <2>1. TypeOK' /\ ChannelsExact'
    BY <1>4 DEF DelChan, Goto, TypeOK, Place, ChannelsExact
  <2>2. WaitGroupCounts'
    BY <1>4, LiveSame DEF DelChan, WaitGroupCounts
  <2>3. QED
    BY <2>1, <2>2
<1>5. ASSUME NEW g \in Goroutine, Check(g) PROVE IInv'
  <2>1. TypeOK' /\ ChannelsExact'
    BY <1>5 DEF Check, Goto, TypeOK, Place, ChannelsExact
  <2>2. WaitGroupCounts'
    BY <1>5, LiveSame DEF Check, WaitGroupCounts
  <2>3. QED
    BY <2>1, <2>2
<1>6. ASSUME NEW g \in Goroutine, Done(g) PROVE IInv'
  <2>1. wg - 1 \in Nat /\ WaitGroupCounts'
    <3>1. Cardinality(Live') = Cardinality(Live) - 1
      BY <1>6, LiveShrinks
    <3>2. Live # {}
      BY <1>6 DEF Done, Goto, Live
    <3>3. Cardinality(Live) # 0
      BY <3>2, LiveFinite, FS_EmptySet
    <3>4. QED
      BY <1>6, <3>1, <3>3, LiveFinite DEF Done, WaitGroupCounts
  <2>2. TypeOK' /\ ChannelsExact'
    BY <1>6, <2>1 DEF Done, Goto, TypeOK, Place, ChannelsExact
  <2>3. QED
    BY <2>1, <2>2
<1>7. ASSUME Cancel PROVE IInv'
  BY <1>7 DEF Cancel, TypeOK, ChannelsExact, WaitGroupCounts, Live
<1>8. CASE WaitCall \/ WaitReturn
  BY <1>8 DEF WaitCall, WaitReturn, TypeOK, ChannelsExact, WaitGroupCounts, Live
<1>9. CASE UNCHANGED vars
  BY <1>9 DEF vars, TypeOK, ChannelsExact, WaitGroupCounts, Live
<1>10. QED
  BY <1>1, <1>2, <1>3, <1>4, <1>5, <1>6, <1>7, <1>8, <1>9 DEF Next, Step

\* The inductive invariant holds of the manager.
THEOREM Inductive == Spec => []IInv
<1>1. QED
  BY InitIInv, NextIInv, PTL DEF Spec
-----------------------------------------------------------------------------
(***************************************************************************)
(* Every variable of the manager stays in its range; wg never goes below   *)
(* zero (sync.WaitGroup panics on that).                                   *)
(***************************************************************************)
THEOREM TypeCorrect == Spec => []TypeOK
<1>1. IInv => TypeOK
  BY DEF IInv
<1>2. QED
  BY <1>1, Inductive, PTL

\* Cancel never closes a stop channel twice.
THEOREM ClosedOnce == Spec => []NoDoubleClose
<1>1. IInv => NoDoubleClose
  BY DEF IInv, ChannelsExact, NoDoubleClose
<1>2. QED
  BY <1>1, Inductive, PTL

\* Every running goroutine is registered or has been told to stop.
THEOREM Reachable == Spec => []NobodyUnreachable
<1>1. IInv => NobodyUnreachable
  BY DEF IInv, ChannelsExact, NobodyUnreachable
<1>2. QED
  BY <1>1, Inductive, PTL

\* The wait group counts the live goroutines.
THEOREM CountExact == Spec => []WaitGroupCounts
<1>1. IInv => WaitGroupCounts
  BY DEF IInv
<1>2. QED
  BY <1>1, Inductive, PTL

(***************************************************************************)
(* Wait returns only when every checker has returned.                      *)
(***************************************************************************)
THEOREM WaitIsABarrier == Spec => WaitSeesCheckers
<1>1. IInv /\ [Next]_vars
        => [waiting /\ ~waiting' => \A g \in Goroutine : pc[g] = "idle"]_vars
  <2> SUFFICES ASSUME IInv, Next, waiting, ~waiting'
               PROVE  \A g \in Goroutine : pc[g] = "idle"
    OBVIOUS
  <2>1. WaitReturn
    BY DEF Next, Step, GoAdd, GoStart, Return, DelChan, Check, Done, Cancel,
           WaitCall
  <2>2. QED
    BY <2>1, NobodyLive DEF WaitReturn, IInv
<1>2. QED
  BY <1>1, Inductive, PTL DEF Spec, WaitSeesCheckers
-----------------------------------------------------------------------------
(***************************************************************************)
(* gorman.go implements TaskGroup: every step of the manager is a step of  *)
(* the abstract group or leaves it unchanged.                              *)
(***************************************************************************)
StageAfter(p) ==
  CASE p = "idle"                    -> "idle"
    [] p = "added"                   -> "starting"
    [] p \in {"running", "returned"} -> "running"
    [] p \in {"deleted", "checked"}  -> "checking"

\* The abstract stage of one goroutine depends on its place alone.
LEMMA StageOfPlace ==
  /\ \A g \in Goroutine : stageOf[g] = StageAfter(pc[g])
  /\ stageOf = [g \in Goroutine |-> StageAfter(pc[g])]
BY DEF stageOf, StageAfter

\* When one goroutine moves, only its own stage can change.
LEMMA StageMoves ==
  ASSUME TypeOK, NEW g \in Goroutine, NEW from \in Place, NEW to \in Place,
         Goto(g, from, to)
  PROVE  /\ stageOf[g] = StageAfter(from)
         /\ stageOf' = [stageOf EXCEPT ![g] = StageAfter(to)]
<1>1. stageOf' = [h \in Goroutine |-> StageAfter(pc'[h])]
  BY DEF stageOf, StageAfter
<1>2. \A h \in Goroutine : pc'[h] = IF h = g THEN to ELSE pc[h]
  BY DEF Goto, TypeOK
<1>3. pc[g] = from
  BY DEF Goto
<1>4. QED
  BY <1>1, <1>2, <1>3, StageOfPlace

\* Who is told, when one goroutine moves to the abstract stage st.
LEMMA ToldMoves ==
  ASSUME TypeOK, NEW g \in Goroutine, NEW st,
         stageOf' = [stageOf EXCEPT ![g] = st],
         closed' = closed \/ closed' = closed \ {g}
  PROVE  toldOf' = {h \in closed' : (IF h = g THEN st ELSE stageOf[h]) = "running"}
<1>1. closed' \subseteq Goroutine
  BY DEF TypeOK
<1>2. \A h \in Goroutine : stageOf'[h] = IF h = g THEN st ELSE stageOf[h]
  BY StageOfPlace
<1>3. toldOf' = {h \in closed' : stageOf'[h] = "running"}
  BY DEF toldOf
<1>4. QED
  BY <1>1, <1>2, <1>3

\* Every step is an abstract step or a stutter of the group.
LEMMA StepImplements ==
  IInv /\ [Next]_vars => [Abstract!Next]_(Abstract!vars)
<1> SUFFICES ASSUME IInv, [Next]_vars
             PROVE  Abstract!Next \/ UNCHANGED Abstract!vars
  OBVIOUS
<1> USE DEF IInv
<1>1. ASSUME NEW g \in Goroutine, GoAdd(g)
      PROVE  Abstract!Go(g)
  <2>1. stageOf[g] = "idle" /\ stageOf' = [stageOf EXCEPT ![g] = "starting"]
    BY <1>1, StageMoves DEF GoAdd, Place, StageAfter
  <2>2. waiting => ~Abstract!Quiet
    <3> SUFFICES ASSUME waiting PROVE ~Abstract!Quiet
      OBVIOUS
    <3>0. wg > 0
      BY <1>1 DEF GoAdd
    <3>1. Live # {}
      BY <3>0, FS_EmptySet DEF WaitGroupCounts
    <3>2. PICK h \in Goroutine : pc[h] # "idle"
      BY <3>1 DEF Live
    <3>3. stageOf[h] # "idle"
      BY <3>2, StageOfPlace DEF StageAfter, TypeOK, Place
    <3>4. QED
      BY <3>3 DEF Abstract!Quiet
  <2>3. toldOf' = toldOf /\ waiting' = waiting
    BY <1>1, <2>1, ToldMoves DEF GoAdd, toldOf, TypeOK
  <2>4. QED
    BY <2>1, <2>2, <2>3 DEF Abstract!Go
<1>2. ASSUME NEW g \in Goroutine, GoStart(g)
      PROVE  Abstract!Begin(g)
  <2>1. stageOf[g] = "starting" /\ stageOf' = [stageOf EXCEPT ![g] = "running"]
    BY <1>2, StageMoves DEF GoStart, Place, StageAfter
  <2>2. closed' = closed /\ g \notin closed /\ waiting' = waiting
    BY <1>2 DEF GoStart, Goto, ChannelsExact
  <2>3. toldOf' = toldOf
    BY <2>1, <2>2, ToldMoves DEF toldOf
  <2>4. QED
    BY <2>1, <2>2, <2>3 DEF Abstract!Begin
<1>3. ASSUME NEW g \in Goroutine, Return(g)
      PROVE  UNCHANGED Abstract!vars
  <2>1. stageOf[g] = "running" /\ stageOf' = [stageOf EXCEPT ![g] = "running"]
    BY <1>3, StageMoves DEF Return, Place, StageAfter
  <2>2. stageOf' = stageOf
    BY <2>1, StageOfPlace
  <2>3. toldOf' = toldOf
    BY <1>3, <2>2 DEF Return, toldOf
  <2>4. QED
    BY <1>3, <2>2, <2>3 DEF Abstract!vars, Return
<1>4. ASSUME NEW g \in Goroutine, DelChan(g)
      PROVE  Abstract!Return(g)
  <2>1. stageOf[g] = "running" /\ stageOf' = [stageOf EXCEPT ![g] = "checking"]
    BY <1>4, StageMoves DEF DelChan, Place, StageAfter
  <2>2. closed' = closed /\ waiting' = waiting
    BY <1>4 DEF DelChan
  <2>3. \A h \in Goroutine :
          stageOf'[h] = IF h = g THEN "checking" ELSE stageOf[h]
    BY <2>1, StageOfPlace
  <2>4. toldOf' = {h \in closed : stageOf'[h] = "running"}
    BY <2>2 DEF toldOf
  <2>5. toldOf' = toldOf \ {g}
    BY <2>3, <2>4 DEF toldOf, TypeOK
  <2>6. QED
    BY <2>1, <2>2, <2>5 DEF Abstract!Return
<1>5. ASSUME NEW g \in Goroutine, Check(g)
      PROVE  UNCHANGED Abstract!vars
  <2>1. stageOf[g] = "checking" /\ stageOf' = [stageOf EXCEPT ![g] = "checking"]
    BY <1>5, StageMoves DEF Check, Place, StageAfter
  <2>2. stageOf' = stageOf
    BY <2>1, StageOfPlace
  <2>3. toldOf' = toldOf
    BY <1>5, <2>2 DEF Check, toldOf
  <2>4. QED
    BY <1>5, <2>2, <2>3 DEF Abstract!vars, Check
<1>6. ASSUME NEW g \in Goroutine, Done(g)
      PROVE  Abstract!Finish(g)
  <2>1. stageOf[g] = "checking" /\ stageOf' = [stageOf EXCEPT ![g] = "idle"]
    BY <1>6, StageMoves DEF Done, Place, StageAfter
  <2>2. closed' = closed /\ waiting' = waiting
    BY <1>6 DEF Done
  <2>3. toldOf' = toldOf
    BY <2>1, <2>2, ToldMoves DEF toldOf
  <2>4. QED
    BY <2>1, <2>2, <2>3 DEF Abstract!Finish
<1>7. ASSUME UNCHANGED <<pc, closed>>
      PROVE  stageOf' = stageOf /\ toldOf' = toldOf
  <2>1. stageOf' = stageOf
    BY <1>7 DEF stageOf
  <2>2. QED
    BY <1>7, <2>1 DEF toldOf
<1>8. ASSUME Cancel
      PROVE  Abstract!Cancel \/ UNCHANGED Abstract!vars
  <2>1. \A g \in Goroutine :
          stageOf[g] = "running" <=> pc[g] \in {"running", "returned"}
    BY StageOfPlace DEF StageAfter, TypeOK, Place
  <2>2. stageOf' = stageOf
    BY <1>8 DEF Cancel, stageOf
  <2>3. toldOf' = {g \in closed \cup channels : stageOf[g] = "running"}
    BY <1>8, <2>2 DEF Cancel, toldOf
  <2>4. toldOf' = toldOf \cup {g \in Goroutine : stageOf[g] = "running"}
    BY <2>1, <2>3 DEF ChannelsExact, toldOf, TypeOK
  <2>5. QED
    BY <1>8, <2>2, <2>4 DEF Abstract!Cancel, Cancel
<1>9. ASSUME WaitCall
      PROVE  Abstract!WaitCall
  BY <1>7, <1>9 DEF Abstract!WaitCall, WaitCall
<1>10. ASSUME WaitReturn
       PROVE  Abstract!WaitReturn
  <2>1. \A g \in Goroutine : pc[g] = "idle"
    BY <1>10, NobodyLive DEF WaitReturn
  <2>2. Abstract!Quiet
    BY <2>1, StageOfPlace DEF Abstract!Quiet, StageAfter
  <2>3. QED
    BY <1>7, <1>10, <2>2 DEF Abstract!WaitReturn, WaitReturn
<1>11. ASSUME UNCHANGED vars
       PROVE  UNCHANGED Abstract!vars
  BY <1>7, <1>11 DEF vars, Abstract!vars
<1>12. CASE \E g \in Goroutine : Step(g)
  BY <1>12, <1>1, <1>2, <1>3, <1>4, <1>5, <1>6 DEF Step, Abstract!Next
<1>13. QED
  BY <1>8, <1>9, <1>10, <1>11, <1>12 DEF Next, Abstract!Next

\* Each behaviour of the manager is one of TaskGroup.
THEOREM Implementation == Spec => ImplementsTaskGroup
<1>1. Init => Abstract!Init
  BY DEF Init, Abstract!Init, stageOf, toldOf
<1>2. QED
  BY <1>1, Inductive, StepImplements, PTL
     DEF Spec, ImplementsTaskGroup, Abstract!Spec
==============================================================================
