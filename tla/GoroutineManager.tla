-------------------------- MODULE GoroutineManager ---------------------------
(***************************************************************************)
(* gorman.GoroutineManager (src/src/gorman/gorman.go): one manager and the *)
(* goroutines it starts.  A goroutine is identified with the stop channel  *)
(* Go makes for it; an identifier is used again, with a fresh channel,     *)
(* once its goroutine has called wg.Done.                                  *)
(***************************************************************************)
EXTENDS Naturals, FiniteSets

CONSTANT Goroutine
ASSUME GoroutineFinite == IsFiniteSet(Goroutine)

VARIABLES
  pc,        \* where each goroutine (or the Go call that starts it) is
  channels,  \* gm.channels: the stop channels Cancel would close
  closed,    \* the stop channels that have been closed
  wg,        \* the counter of gm.wg
  waiting    \* TRUE while a caller is inside gm.Wait

vars == <<pc, channels, closed, wg, waiting>>

(***************************************************************************)
(*   "idle"      the identifier is free                                    *)
(*   "added"     Go has called wg.Add(1), the channel is not registered    *)
(*   "running"   f(stopChan) runs                                          *)
(*   "returned"  f has returned, delChan has not been called               *)
(*   "deleted"   the channel is gone, codeChecker runs                     *)
(*   "checked"   codeChecker has returned, the deferred wg.Done has not    *)
(*               run                                                       *)
(***************************************************************************)
Place == {"idle", "added", "running", "returned", "deleted", "checked"}

Live == {g \in Goroutine : pc[g] # "idle"}

TypeOK ==
  /\ pc \in [Goroutine -> Place]
  /\ channels \subseteq Goroutine
  /\ closed \subseteq Goroutine
  /\ wg \in Nat
  /\ waiting \in BOOLEAN

Init ==
  /\ pc = [g \in Goroutine |-> "idle"]
  /\ channels = {}
  /\ closed = {}
  /\ wg = 0
  /\ waiting = FALSE

Goto(g, from, to) ==
  /\ pc[g] = from
  /\ pc' = [pc EXCEPT ![g] = to]

-----------------------------------------------------------------------------
(***************************************************************************)
(* Go.  The callers of this package call it either from a goroutine of the *)
(* same manager, or while nobody is inside Wait, or while another          *)
(* goroutine of the manager is live; NicoHls checks that its managers are  *)
(* used so.                                                                *)
(***************************************************************************)
GoAddForgotten(g) ==                 \* mutant: wg.Add(1) is missing
  /\ waiting => wg > 0
  /\ Goto(g, "idle", "added")
  /\ closed' = closed \ {g}
  /\ UNCHANGED <<channels, wg, waiting>>

GoAdd(g) ==
  /\ waiting => wg > 0
  /\ Goto(g, "idle", "added")
  /\ wg' = wg + 1
  /\ closed' = closed \ {g}          \* make(chan struct{}, 1)
  /\ UNCHANGED <<channels, waiting>>

GoStart(g) ==
  /\ Goto(g, "added", "running")
  /\ channels' = channels \cup {g}
  /\ UNCHANGED <<closed, wg, waiting>>

\* f returns, because it was told to or for a reason of its own.
Return(g) ==
  /\ Goto(g, "running", "returned")
  /\ UNCHANGED <<channels, closed, wg, waiting>>

DelChanOnlyRegistered(g) ==          \* mutant: stuck if Cancel was first
  /\ g \in channels
  /\ Goto(g, "returned", "deleted")
  /\ channels' = channels \ {g}
  /\ UNCHANGED <<closed, wg, waiting>>

DelChanAndDone(g) ==                 \* mutant: wg.Done before the checker
  /\ Goto(g, "returned", "deleted")
  /\ channels' = channels \ {g}
  /\ wg' = wg - 1
  /\ UNCHANGED <<closed, waiting>>

DelChan(g) ==
  /\ Goto(g, "returned", "deleted")
  /\ channels' = channels \ {g}
  /\ UNCHANGED <<closed, wg, waiting>>

\* What a checker does (Cancel, Go) are steps of their own.
Check(g) ==
  /\ Goto(g, "deleted", "checked")
  /\ UNCHANGED <<channels, closed, wg, waiting>>

Done(g) ==
  /\ Goto(g, "checked", "idle")
  /\ wg' = wg - 1
  /\ UNCHANGED <<channels, closed, waiting>>

CancelKeepsChannels ==               \* mutant: closes, does not delete
  /\ closed' = closed \cup channels
  /\ UNCHANGED <<pc, channels, wg, waiting>>

CancelOnlyDeletes ==                 \* mutant: deletes, does not close
  /\ channels' = {}
  /\ UNCHANGED <<pc, closed, wg, waiting>>

Cancel ==
  /\ closed' = closed \cup channels
  /\ channels' = {}
  /\ UNCHANGED <<pc, wg, waiting>>

Count == Cardinality(channels)

WaitCall ==
  /\ ~waiting
  /\ waiting' = TRUE
  /\ UNCHANGED <<pc, channels, closed, wg>>

WaitForCount ==                      \* mutant: waits for Count() = 0
  /\ waiting
  /\ Count = 0
  /\ waiting' = FALSE
  /\ UNCHANGED <<pc, channels, closed, wg>>

WaitReturn ==
  /\ waiting
  /\ wg = 0
  /\ waiting' = FALSE
  /\ UNCHANGED <<pc, channels, closed, wg>>

Step(g) ==
  GoAdd(g) \/ GoStart(g) \/ Return(g) \/ DelChan(g) \/ Check(g) \/ Done(g)

Next ==
  \/ \E g \in Goroutine : Step(g)
  \/ Cancel
  \/ WaitCall
  \/ WaitReturn

(***************************************************************************)
(* The Go scheduler runs every goroutine that can take a step.  A function *)
(* given to Go returns after its stop channel is closed; nothing says that *)
(* it returns before.                                                      *)
(***************************************************************************)
ReturnWhenTold(g) == g \in closed /\ Return(g)

Fairness ==
  \A g \in Goroutine :
    /\ WF_vars(GoStart(g) \/ DelChan(g) \/ Check(g) \/ Done(g))
    /\ WF_vars(ReturnWhenTold(g))

Spec == Init /\ [][Next]_vars

FairSpec == Spec /\ Fairness
-----------------------------------------------------------------------------
(***************************************************************************)
(* Cancel never closes a channel twice (Go panics on that): a registered   *)
(* channel is open and belongs to a goroutine that is running its function *)
(* or has just returned from it, whatever Cancel and delChan interleave.   *)
(***************************************************************************)
NoDoubleClose ==
  \A c \in channels : c \notin closed /\ pc[c] \in {"running", "returned"}

(***************************************************************************)
(* Cancel reaches everything that is running: a running goroutine without  *)
(* an entry in gm.channels has been told to stop.  So Count() = 0 leaves   *)
(* only goroutines that have been told or whose function has returned.     *)
(***************************************************************************)
NobodyUnreachable ==
  \A g \in Goroutine : pc[g] = "running" => (g \in channels \/ g \in closed)

\* The wait group counts exactly the goroutines between wg.Add and wg.Done.
WaitGroupCounts == wg = Cardinality(Live)

(***************************************************************************)
(* Wait returns only when the checker of every goroutine has returned, so  *)
(* a caller of Wait sees what the checkers of all of them have recorded.   *)
(***************************************************************************)
WaitSeesCheckers ==
  [][waiting /\ ~waiting' => \A g \in Goroutine : pc[g] = "idle"]_vars

(***************************************************************************)
(* A goroutine that has been told to stop is gone in the end, its checker  *)
(* run and its wg.Done called.                                             *)
(***************************************************************************)
ToldStops ==
  \A g \in Goroutine : g \in closed ~> pc[g] = "idle"

(***************************************************************************)
(* gorman.go implements TaskGroup.  A goroutine is starting from wg.Add    *)
(* until its channel is registered, and runs until its channel is deleted. *)
(***************************************************************************)
stageOf ==
  [g \in Goroutine |->
     CASE pc[g] = "idle"                    -> "idle"
       [] pc[g] = "added"                   -> "starting"
       [] pc[g] \in {"running", "returned"} -> "running"
       [] pc[g] \in {"deleted", "checked"}  -> "checking"]

toldOf == {g \in closed : stageOf[g] = "running"}

Abstract == INSTANCE TaskGroup
              WITH Task <- Goroutine, stage <- stageOf, told <- toldOf

ImplementsTaskGroup == Abstract!Spec
==============================================================================
