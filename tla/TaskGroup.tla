------------------------------ MODULE TaskGroup ------------------------------
(***************************************************************************)
(* What a goroutine manager (gorman.GoroutineManager) promises its users:  *)
(* a group of tasks that can be told to stop together and waited for       *)
(* together.  A task of the group runs; when its function has returned its *)
(* return code is checked; then it is finished and its slot may be used    *)
(* for a new task.  Wait returns only when no task is left.                *)
(*                                                                         *)
(* This is the abstract specification.  GoroutineManager shows that        *)
(* gorman.go implements it, and NicoHls that the recording session uses    *)
(* its managers by the rules stated here.                                  *)
(***************************************************************************)
CONSTANT Task

VARIABLES
  stage,    \* stage[t]: "idle", "starting", "running" its function, or
            \* "checking" its return code
  told,     \* the running tasks that have been told to stop
  waiting   \* TRUE while a caller is inside Wait

vars == <<stage, told, waiting>>

TypeOK ==
  /\ stage \in [Task -> {"idle", "starting", "running", "checking"}]
  /\ told \subseteq Task
  /\ waiting \in BOOLEAN

Quiet == \A t \in Task : stage[t] = "idle"

Init ==
  /\ stage = [t \in Task |-> "idle"]
  /\ told = {}
  /\ waiting = FALSE

(***************************************************************************)
(* A task may be started while somebody waits only if the group is not     *)
(* quiet: a wait that may already return must not see a new task.  This is *)
(* the rule a sync.WaitGroup imposes on Add and Wait.  A task that is only *)
(* starting is waited for but is not yet told by Cancel.                   *)
(***************************************************************************)
Go(t) ==
  /\ stage[t] = "idle"
  /\ waiting => ~Quiet
  /\ \E s \in {"starting", "running"} : stage' = [stage EXCEPT ![t] = s]
  /\ UNCHANGED <<told, waiting>>

Begin(t) ==
  /\ stage[t] = "starting"
  /\ stage' = [stage EXCEPT ![t] = "running"]
  /\ UNCHANGED <<told, waiting>>

\* Every running task is told to stop; a task that begins later is not.
Cancel ==
  /\ told' = told \cup {t \in Task : stage[t] = "running"}
  /\ UNCHANGED <<stage, waiting>>

\* The function returns; a code that asks for nothing need not be checked.
Return(t) ==
  /\ stage[t] = "running"
  /\ \E s \in {"checking", "idle"} : stage' = [stage EXCEPT ![t] = s]
  /\ told' = told \ {t}
  /\ UNCHANGED waiting

\* The check is over; its last act may be to tell the whole group to stop.
Finish(t) ==
  /\ stage[t] = "checking"
  /\ stage' = [stage EXCEPT ![t] = "idle"]
  /\ told' \in {told, told \cup {u \in Task : stage[u] = "running"}}
  /\ UNCHANGED waiting

WaitCall ==
  /\ ~waiting
  /\ waiting' = TRUE
  /\ UNCHANGED <<stage, told>>

WaitReturn ==
  /\ waiting
  /\ Quiet
  /\ waiting' = FALSE
  /\ UNCHANGED <<stage, told>>

Next ==
  \/ \E t \in Task : Go(t) \/ Begin(t) \/ Return(t) \/ Finish(t)
  \/ Cancel
  \/ WaitCall
  \/ WaitReturn

Spec == Init /\ [][Next]_vars
==============================================================================
