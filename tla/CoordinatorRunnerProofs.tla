---------------------- MODULE CoordinatorRunnerProofs ----------------------
(***************************************************************************)
(* Safety of the Coordinator's process for any set of gatherers and any    *)
(* number of blocks.                                                       *)
(***************************************************************************)
EXTENDS CoordinatorRunner, TLAPS

\* A block that failed first has stored Error, or is about to.
FailureStops == error = "block" => loop = "store_error" \/ ~should_run

RInv == TypeOK /\ FailureStops

\* Every step keeps the types.
LEMMA TypeStep == ASSUME TypeOK, [Next]_vars PROVE TypeOK'
<1> USE RunnerAssumption DEF TypeOK, State
<1>1. CASE LoopStep
  <2>1. CASE CheckShouldRun
    <3>1. blocks' \in 0 .. MaxBlocks
      BY <2>1 DEF CheckShouldRun
    <3> QED BY <2>1, <3>1 DEF CheckShouldRun
  <2>2. CASE mark_running \/ CheckParked \/ ProcessBlockReturns
    BY <2>2 DEF mark_running, CheckParked, ProcessBlockReturns
  <2>3. CASE LoopStoresError \/ LoopStopLoad \/ LoopStopStore \/ LoopAborted
    BY <2>3 DEF LoopStoresError, LoopStopLoad, LoopStopStore, LoopAborted
  <2> QED BY <1>1, <2>1, <2>2, <2>3 DEF LoopStep
<1>2. CASE Supervise
  BY <1>2 DEF Supervise, SupervisorJoins, SupervisorStoresError, SupervisorAborts,
              SupervisorReturns
<1>3. CASE Signal
  BY <1>3 DEF Signal, CtrlC, SignalStores, SignalReturns
<1>4. ASSUME NEW g \in Gatherers, GathererReturns(g) PROVE TypeOK'
  BY <1>4 DEF GathererReturns
<1>5. CASE UNCHANGED vars
  BY <1>5 DEF vars
<1> QED BY <1>1, <1>2, <1>3, <1>4, <1>5 DEF Next

\* No step makes the status say that the processor should run again: only
\* mark_running stores Running, and only over Starting.
LEMMA StopStep == ASSUME [Next]_vars, ~should_run PROVE ~should_run'
<1> USE DEF should_run
<1>1. CASE LoopStep
  BY <1>1 DEF LoopStep, mark_running, CheckShouldRun, CheckParked, ProcessBlockReturns,
              LoopStoresError, LoopStopLoad, LoopStopStore, LoopAborted
<1>2. CASE Supervise
  BY <1>2 DEF Supervise, SupervisorJoins, SupervisorStoresError, SupervisorAborts,
              SupervisorReturns
<1>3. CASE Signal
  BY <1>3 DEF Signal, CtrlC, SignalStores, SignalReturns
<1>4. ASSUME NEW g \in Gatherers, GathererReturns(g) PROVE ~should_run'
  BY <1>4 DEF GathererReturns
<1>5. CASE UNCHANGED vars
  BY <1>5 DEF vars
<1> QED BY <1>1, <1>2, <1>3, <1>4, <1>5 DEF Next

\* A failure of a block is followed by its own store of Error.
LEMMA FailureStep == ASSUME FailureStops, [Next]_vars PROVE FailureStops'
<1>1. CASE ~should_run
  BY <1>1, StopStep DEF FailureStops
<1>2. CASE should_run
  <2> USE <1>2 DEF FailureStops, should_run
  <2>1. CASE LoopStep
    BY <2>1 DEF LoopStep, mark_running, CheckShouldRun, CheckParked, ProcessBlockReturns,
                LoopStoresError, LoopStopLoad, LoopStopStore, LoopAborted
  <2>2. CASE Supervise
    BY <2>2 DEF Supervise, SupervisorJoins, SupervisorStoresError, SupervisorAborts,
                SupervisorReturns
  <2>3. CASE Signal
    BY <2>3 DEF Signal, CtrlC, SignalStores, SignalReturns
  <2>4. ASSUME NEW g \in Gatherers, GathererReturns(g) PROVE FailureStops'
    BY <2>4 DEF GathererReturns
  <2>5. CASE UNCHANGED vars
    BY <2>5 DEF vars
  <2> QED BY <2>1, <2>2, <2>3, <2>4, <2>5 DEF Next
<1> QED BY <1>1, <1>2

\* The status, the tasks and the two halves of the select keep their types,
\* and a failed block keeps the loop from running.
THEOREM RunnerInvariant == Spec => []RInv
<1>1. Init => RInv
  <2> SUFFICES ASSUME Init PROVE RInv
    OBVIOUS
  <2>1. abort \in BOOLEAN /\ exited \in BOOLEAN
    BY DEF Init
  <2>2. blocks \in 0 .. MaxBlocks
    BY RunnerAssumption DEF Init
  <2>3. task \in [Gatherers -> {"running", "ok", "failed", "aborted"}]
    BY DEF Init
  <2> QED BY <2>1, <2>2, <2>3 DEF Init, RInv, TypeOK, State, FailureStops
<1>2. RInv /\ [Next]_vars => RInv'
  BY TypeStep, FailureStep DEF RInv
<1> QED BY <1>1, <1>2, PTL DEF Spec

\* Every variable of the process keeps its type.
THEOREM RunnerTypes == Spec => []TypeOK
<1>1. RInv => TypeOK
  BY DEF RInv
<1> QED BY RunnerInvariant, <1>1, PTL

\* A status that says stop never says run again, whatever threads interleave
\* their loads and stores.
THEOREM StopIsFinal == Spec => NeverRunsAgain
<1>1. [Next]_vars => [~should_run => ~should_run']_vars
  BY StopStep
<1> QED BY <1>1, PTL DEF Spec, NeverRunsAgain

\* No block starts after a failed one, although Ctrl-C can overwrite Error.
THEOREM FailureIsFinal == Spec => NoBlockAfterFailure
<1>1. RInv /\ [Next]_vars => [error = "block" => blocks' = blocks]_vars
  <2> SUFFICES ASSUME RInv, [Next]_vars, error = "block" PROVE blocks' = blocks
    OBVIOUS
  <2>1. CASE CheckShouldRun
    BY <2>1 DEF CheckShouldRun, RInv, FailureStops, should_run
  <2>2. CASE ~CheckShouldRun
    BY <2>2 DEF Next, LoopStep, mark_running, CheckParked, ProcessBlockReturns,
                LoopStoresError, LoopStopLoad, LoopStopStore, LoopAborted, Supervise,
                SupervisorJoins, SupervisorStoresError, SupervisorAborts,
                SupervisorReturns, Signal, CtrlC, SignalStores, SignalReturns,
                GathererReturns, vars
  <2> QED BY <2>1, <2>2
<1> QED BY RunnerInvariant, <1>1, PTL DEF Spec, NoBlockAfterFailure
=============================================================================
