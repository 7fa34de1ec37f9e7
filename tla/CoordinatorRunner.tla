-------------------------- MODULE CoordinatorRunner --------------------------
(***************************************************************************)
(* The Coordinator processor as a process: the shared ProcessorStatus (an  *)
(* atomic state and a set-once error), the block loop, the gatherer tasks, *)
(* the supervisor that joins them, and the Ctrl-C branch that races with   *)
(* the supervisor. Every load and every store of the status is a step, so  *)
(* the check-then-store methods interleave with the other threads.         *)
(***************************************************************************)
EXTENDS Naturals

CONSTANTS Gatherers,  \* the gatherer tasks
          MaxBlocks   \* bound: blocks the loop starts

ASSUME RunnerAssumption == MaxBlocks \in Nat

VARIABLES
  state,    \* ProcessorStatus.state
  error,    \* ProcessorStatus.error: who set it first, "none" if nobody
  loop,     \* the block loop
  task,     \* gatherer -> running, ok, failed, aborted
  super,    \* the supervisor half of the select
  abort,    \* the supervisor has aborted the tasks that still run
  signal,   \* the Ctrl-C half of the select
  exited,   \* run_coordinator_processor has returned
  blocks    \* blocks started

vars == <<state, error, loop, task, super, abort, signal, exited, blocks>>

State == {"Starting", "Running", "Error", "Stopping", "Stopped"}

Init ==
  /\ state = "Starting" /\ error = "none"
  /\ loop = "start"
  /\ task = [g \in Gatherers |-> "running"]
  /\ super = "join" /\ abort = FALSE /\ signal = "wait"
  /\ exited = FALSE /\ blocks = 0

should_run == state \in {"Starting", "Running"}

-----------------------------------------------------------------------------
(* run_coordinator_processor_loop.                                         *)

\* Mutant: mark_running is a plain store.
mark_running_stores ==
  /\ ~exited /\ loop = "start"
  /\ state' = "Running"
  /\ loop' = "check"
  /\ UNCHANGED <<error, task, super, abort, signal, exited, blocks>>

mark_running ==
  /\ ~exited /\ loop = "start"
  /\ state' = IF state = "Starting" THEN "Running" ELSE state
  /\ loop' = "check"
  /\ UNCHANGED <<error, task, super, abort, signal, exited, blocks>>

\* The first load of an iteration: run a block (or sleep until the slot), or
\* go on to the second load.
CheckShouldRun ==
  /\ ~exited /\ loop = "check"
  /\ IF should_run
       THEN blocks < MaxBlocks /\ loop' = "block" /\ blocks' = blocks + 1
       ELSE loop' = "check_error" /\ UNCHANGED blocks
  /\ UNCHANGED <<state, error, task, super, abort, signal, exited>>

\* The second load: parked in Error the loop sleeps on (an await, where an
\* aborted task stops), otherwise it ends.
CheckParked ==
  /\ ~exited /\ loop = "check_error"
  /\ loop' = IF state # "Error" THEN "stop_load"
             ELSE IF abort THEN "ended" ELSE "check"
  /\ UNCHANGED <<state, error, task, super, abort, signal, exited, blocks>>

\* process_block returns; on an error set_error records it...
ProcessBlockReturns ==
  /\ ~exited /\ loop = "block"
  /\ \/ loop' = "check" /\ UNCHANGED error
     \/ /\ loop' = "store_error"
        /\ error' = IF error = "none" THEN "block" ELSE error
  /\ UNCHANGED <<state, task, super, abort, signal, exited, blocks>>

\* Mutant: the failure is recorded and the state left alone.
LoopKeepsState ==
  /\ ~exited /\ loop = "store_error"
  /\ loop' = "check"
  /\ UNCHANGED <<state, error, task, super, abort, signal, exited, blocks>>

\* ... and then stores the state.
LoopStoresError ==
  /\ ~exited /\ loop = "store_error"
  /\ state' = "Error"
  /\ loop' = "check"
  /\ UNCHANGED <<error, task, super, abort, signal, exited, blocks>>

\* mark_stopped: load, then store.
LoopStopLoad ==
  /\ ~exited /\ loop = "stop_load"
  /\ loop' = IF state = "Error" THEN "ended" ELSE "stop_store"
  /\ UNCHANGED <<state, error, task, super, abort, signal, exited, blocks>>

LoopStopStore ==
  /\ ~exited /\ loop = "stop_store"
  /\ state' = "Stopped"
  /\ loop' = "ended"
  /\ UNCHANGED <<error, task, super, abort, signal, exited, blocks>>

-----------------------------------------------------------------------------
(* Gatherers, supervisor and signal.                                       *)

\* A gatherer returns Ok after a handoff once the processor should not run,
\* or when the loop and its trigger channel are gone; Err at any time.
GathererReturns(g) ==
  /\ ~exited /\ task[g] = "running"
  /\ \/ /\ ~should_run \/ loop = "ended"
        /\ task' = [task EXCEPT ![g] = "ok"]
     \/ task' = [task EXCEPT ![g] = "failed"]
  /\ UNCHANGED <<state, error, loop, super, abort, signal, exited, blocks>>

\* Mutant: a failed task is removed like a finished one.
SupervisorIgnoresFailure ==
  /\ ~exited /\ super = "join" /\ signal = "wait"
  /\ (\A g \in Gatherers : task[g] # "running") /\ loop = "ended"
  /\ super' = "done" /\ exited' = TRUE
  /\ UNCHANGED <<state, error, loop, task, abort, signal, blocks>>

\* The first failure records the error; all tasks finished ends the process.
SupervisorJoins ==
  /\ ~exited /\ super = "join" /\ signal = "wait"
  /\ \/ /\ \E g \in Gatherers : task[g] = "failed"
        /\ error' = IF error = "none" THEN "gatherer" ELSE error
        /\ super' = "store" /\ UNCHANGED exited
     \/ /\ \A g \in Gatherers : task[g] = "ok"
        /\ loop = "ended"
        /\ super' = "done" /\ exited' = TRUE /\ UNCHANGED error
  /\ UNCHANGED <<state, loop, task, abort, signal, blocks>>

SupervisorStoresError ==
  /\ ~exited /\ super = "store" /\ signal = "wait"
  /\ state' = "Error"
  /\ super' = "abort"
  /\ UNCHANGED <<error, loop, task, abort, signal, exited, blocks>>

\* Mutant: an aborted task reports a result of its own.
SupervisorCancels ==
  /\ ~exited /\ super = "abort" /\ signal = "wait"
  /\ abort' = TRUE
  /\ task' = [g \in Gatherers |-> IF task[g] = "running" THEN "cancelled" ELSE task[g]]
  /\ super' = "joining"
  /\ UNCHANGED <<state, error, loop, signal, exited, blocks>>

\* Abort the tasks still running, then join them; the loop stops at an await.
SupervisorAborts ==
  /\ ~exited /\ super = "abort" /\ signal = "wait"
  /\ abort' = TRUE
  /\ task' = [g \in Gatherers |-> IF task[g] = "running" THEN "aborted" ELSE task[g]]
  /\ super' = "joining"
  /\ UNCHANGED <<state, error, loop, signal, exited, blocks>>

LoopAborted ==
  /\ ~exited /\ abort /\ loop \in {"start", "check", "block"}
  /\ loop' = "ended"
  /\ UNCHANGED <<state, error, task, super, abort, signal, exited, blocks>>

SupervisorReturns ==
  /\ ~exited /\ super = "joining" /\ signal = "wait" /\ loop = "ended"
  /\ super' = "done" /\ exited' = TRUE
  /\ UNCHANGED <<state, error, loop, task, abort, signal, blocks>>

\* Ctrl-C wins the select: the supervisor is dropped at an await, the tasks
\* run on detached. begin_shutdown loads the state ...
CtrlC ==
  /\ ~exited /\ signal = "wait" /\ super \in {"join", "joining"}
  /\ super' = "dropped"
  /\ signal' = IF state = "Error" THEN "sleep" ELSE "store"
  /\ UNCHANGED <<state, error, loop, task, abort, exited, blocks>>

\* ... and stores Stopping whatever happened in between.
SignalStores ==
  /\ ~exited /\ signal = "store"
  /\ state' = "Stopping"
  /\ signal' = "sleep"
  /\ UNCHANGED <<error, loop, task, super, abort, exited, blocks>>

\* Five seconds later the process exits, wherever the loop is.
SignalReturns ==
  /\ ~exited /\ signal = "sleep"
  /\ signal' = "done" /\ exited' = TRUE
  /\ UNCHANGED <<state, error, loop, task, super, abort, blocks>>

LoopStep ==
  \/ mark_running \/ CheckShouldRun \/ CheckParked \/ ProcessBlockReturns
  \/ LoopStoresError \/ LoopStopLoad \/ LoopStopStore \/ LoopAborted

\* The code between two awaits of the loop runs to its end.
LoopRunsOn == mark_running \/ CheckParked \/ LoopStoresError \/ LoopStopLoad
              \/ LoopStopStore \/ LoopAborted

Supervise == \/ SupervisorJoins \/ SupervisorStoresError \/ SupervisorAborts
             \/ SupervisorReturns

Signal == CtrlC \/ SignalStores \/ SignalReturns

Next == LoopStep \/ Supervise \/ Signal \/ \E g \in Gatherers : GathererReturns(g)

\* The runtime polls every ready task. Nothing makes a block end, a signal
\* arrive or a gatherer return.
Fairness == /\ WF_vars(LoopRunsOn)
            /\ WF_vars(Supervise)
            /\ WF_vars(SignalStores \/ SignalReturns)

Spec == Init /\ [][Next]_vars /\ Fairness

-----------------------------------------------------------------------------
(* Properties.                                                             *)

\* Every variable keeps its type.
TypeOK ==
  /\ state \in State /\ error \in {"none", "block", "gatherer"}
  /\ loop \in {"start", "check", "check_error", "block", "store_error",
               "stop_load", "stop_store", "ended"}
  /\ task \in [Gatherers -> {"running", "ok", "failed", "aborted"}]
  /\ super \in {"join", "store", "abort", "joining", "done", "dropped"}
  /\ abort \in BOOLEAN
  /\ signal \in {"wait", "store", "sleep", "done"}
  /\ exited \in BOOLEAN /\ blocks \in 0 .. MaxBlocks

\* Once the status says that the processor should not run, no later method
\* call of any thread makes it run again: mark_running is a compare-exchange.
NeverRunsAgain == [][~should_run => ~should_run']_vars

\* No block is started on top of a failed one, although Ctrl-C can overwrite
\* the Error state that the failure stored: the restart decides what to do
\* with a half committed block.
NoBlockAfterFailure == [][error = "block" => blocks' = blocks]_vars

\* A gatherer that fails ends the process, even while a block waits for
\* proofs that never come: the loop is aborted at its await.
GathererFailureEndsProcess ==
  (\E g \in Gatherers : task[g] = "failed") ~> exited

\* What processors.md says of the status: Error is sticky.
ErrorIsSticky == [][state = "Error" => state' = "Error"]_vars
=============================================================================
