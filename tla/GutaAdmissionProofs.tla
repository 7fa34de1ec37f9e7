------------------------- MODULE GutaAdmissionProofs -------------------------
(***************************************************************************)
(* Every step of GutaAdmission keeps the committed roots on one chain and  *)
(* bounds how many checkpoints an accepted update can be behind; the       *)
(* theorems that follow hold for all values of the constants.              *)
(***************************************************************************)
EXTENDS GutaAdmissionInvariant

\* No generation is told to the Edge before it is allocated.
GenInv ==
  /\ advertised <= allocated /\ gathering <= allocated
  /\ pc \in {"rotate", "start_rotate"} => advertised < allocated /\ gathering < allocated
  /\ pc \in {"finalize", "prove"} => gathering = allocated

\* The request has compared its old root with the committed state, and at
\* most d checkpoints have been committed since.
Within(r, d) ==
  rpc[r] \notin {"read_generation", "check_state", "rejected"} =>
    committed <= req[r].ckpt + d

\* How old the updates of a generation can be, by where the generation is.
Age(r) ==
  /\ req[r].ckpt <= committed
  /\ rpc[r] # "read_generation" => req[r].gen <= allocated
  /\ pc \in {"rotate", "start_rotate"} /\ rpc[r] # "read_generation" =>
       req[r].gen < allocated
  /\ req[r].gen = allocated => Within(r, 1)
  /\ req[r].gen = gathering => Within(r, IF pc \in {"finalize", "prove"} THEN 0 ELSE 1)
  /\ req[r].gen = key /\ (gpc \in {"gather", "drain"} \/ pc \in {"start", "start_rotate"}) =>
       Within(r, IF pc = "prove" THEN 0 ELSE 1)
  /\ req[r].gen = nextKey /\ gpc = "drain" => Within(r, 0)
  /\ req[r].gen = nextKey /\ gpc = "tail" => Within(r, IF pc = "prove" THEN 0 ELSE 1)
  /\ Has(batch, r) => Within(r, 1)

AgeInv == \A r \in Requests : Age(r)

-----------------------------------------------------------------------------
\* Allocation runs ahead of what the Edge is told by at most one generation.
LEMMA GenStep == TypeOK /\ PhaseInv /\ GenInv /\ [Next]_vars => GenInv'
<1> SUFFICES ASSUME TypeOK, PhaseInv, GenInv, [Next]_vars PROVE GenInv'
  OBVIOUS
<1> USE DEF GenInv
<1>1. ASSUME NEW r \in Requests, SubmitGuta(r) PROVE GenInv'
  BY <1>1, EdgeStep, Zenon DEF EdgeMove, durable, processor
<1>2. CASE Gather
  <2>1. /\ UNCHANGED <<allocated, advertised, gathering>>
        /\ pc' = pc \/ (pc = "finalize" /\ pc' \in {"prove", "parked"})
    <3>1. CASE DumpQueue
      BY <3>1, Zenon DEF DumpQueue, durable, temp, processor
    <3>2. CASE HandoffFirstDrain
      BY <3>2, Zenon DEF HandoffFirstDrain, durable, temp, processor
    <3>3. CASE HandoffFinalize
      BY <3>3, Zenon DEF HandoffFinalize, durable, temp, PhaseInv
    <3>4. CASE DiscardTail
      BY <3>4, Zenon DEF DiscardTail, durable, temp, processor
    <3>5. QED
      BY <1>2, <3>1, <3>2, <3>3, <3>4, Zenon DEF Gather
  <2>2. QED
    BY <2>1, Zenon
<1>3. CASE Process
  <2>1. allocated \in Nat /\ advertised \in Nat /\ gathering \in Nat
    BY DEF TypeOK, Generation
  <2>2. CASE inc_unique_pending_id
    BY <2>1, <2>2 DEF inc_unique_pending_id, temp
  <2>3. CASE set_new_unique_ids
    BY <2>1, <2>3 DEF set_new_unique_ids, durable
  <2>4. CASE commit_state
    BY <2>1, <2>4, Zenon DEF commit_state, temp
  <2>5. CASE Crash
    BY <2>1, <2>5, Zenon DEF Crash, durable, temp
  <2>6. CASE Restart
    BY <2>1, <2>6 DEF Restart, durable
  <2>7. QED
    BY <1>3, <2>2, <2>3, <2>4, <2>5, <2>6, Zenon DEF Process
<1>4. CASE UNCHANGED vars
  BY <1>4, Zenon DEF vars, durable, temp, processor
<1>5. QED
  BY <1>1, <1>2, <1>3, <1>4, Zenon DEF Next

\* A request reads the generation before the committed checkpoint.
LEMMA AgeEdge ==
  ASSUME TypeOK, GenInv, AgeInv, NEW r \in Requests, SubmitGuta(r)
  PROVE  AgeInv'
<1>1. EdgeMove(r)
  BY EdgeStep, Zenon
<1>2. UNCHANGED <<committed, allocated, advertised, pc, gathering, batch, gpc, key, nextKey>>
  BY <1>1, Zenon DEF EdgeMove, durable, processor, gatherer
<1>3. ASSUME NEW s \in Requests \ {r} PROVE Age(s)'
  <2>1. rpc'[s] = rpc[s] /\ req'[s] = req[s]
    BY <1>1, Zenon DEF EdgeMove
  <2>2. QED
    BY <1>2, <2>1, Zenon DEF AgeInv, Age, Within
<1>4. Age(r)'
  <2>1. /\ Age(r) /\ committed \in Nat /\ req[r].ckpt \in Nat
        /\ advertised \in Nat /\ allocated \in Nat
    BY DEF AgeInv, TypeOK, Ckpt, Generation
  <2>2. CASE rpc'[r] = "rejected"
    <3>1. req'[r].ckpt = 0 /\ req'[r].gen = 0
      <4>1. req'[r] = NewRequest
        BY <1>1, <2>2, Zenon DEF EdgeMove
      <4>2. QED
        BY <4>1 DEF NewRequest
    <3>2. \A d \in {0, 1} : Within(r, d)'
      BY <2>2, Zenon DEF Within
    <3>3. QED
      BY <1>2, <2>1, <3>1, <3>2 DEF Age, GenInv
  <2>3. CASE rpc[r] = "read_generation"
    <3>1. rpc'[r] = "check_state" /\ req'[r].gen = advertised /\ req'[r].ckpt = req[r].ckpt
      BY <1>1, <2>3, Zenon DEF EdgeMove
    <3>2. \A d \in {0, 1} : Within(r, d)'
      BY <3>1, Zenon DEF Within
    <3>3. QED
      BY <1>2, <2>1, <3>1, <3>2, Zenon DEF Age, GenInv
  <2>4. CASE rpc[r] = "check_state" /\ rpc'[r] # "rejected"
    <3>1. req'[r].gen = req[r].gen /\ req'[r].ckpt = committed
      BY <1>1, <2>4, Zenon DEF EdgeMove
    <3>2. \A d \in {0, 1} : Within(r, d)'
      <4>1. committed' = req'[r].ckpt /\ committed' \in Nat
        BY <1>2, <2>1, <3>1, Zenon
      <4>2. QED
        BY <4>1 DEF Within
    <3>3. req'[r].ckpt <= committed'
      BY <1>2, <2>1, <3>1
    <3>4. /\ req'[r].gen <= allocated'
          /\ pc' \in {"rotate", "start_rotate"} => req'[r].gen < allocated'
      BY <1>2, <2>1, <2>4, <3>1, Zenon DEF Age
    <3>5. QED
      BY <3>2, <3>3, <3>4, Zenon DEF Age
  <2>5. CASE rpc[r] \notin {"read_generation", "check_state"} /\ rpc'[r] # "rejected"
    <3>1. req'[r].gen = req[r].gen /\ req'[r].ckpt = req[r].ckpt /\ rpc[r] # "rejected"
      BY <1>1, <2>5, Zenon DEF EdgeMove
    <3>2. \A d \in {0, 1} : Within(r, d) => Within(r, d)'
      BY <1>2, <2>5, <3>1, Zenon DEF Within
    <3>3. QED
      BY <1>2, <2>1, <2>5, <3>1, <3>2, Zenon DEF Age
  <2>6. QED
    BY <2>2, <2>3, <2>4, <2>5, Zenon
<1>5. QED
  BY <1>3, <1>4, Zenon DEF AgeInv

\* The handoff takes the key from the processor when no request of that
\* generation is older than the committed checkpoint.
LEMMA AgeGather ==
  ASSUME TypeOK, PhaseInv, QueueInv, AgeInv, Gather
  PROVE  AgeInv'
<1> SUFFICES ASSUME NEW r \in Requests PROVE Age(r)'
  BY Zenon DEF AgeInv
<1>1. Age(r) /\ UNCHANGED <<committed, allocated, gathering, rpc, req>>
  BY Zenon DEF AgeInv, Gather, DumpQueue, HandoffFirstDrain, HandoffFinalize, DiscardTail,
         durable, processor, edge
<1>2. \A d \in {0, 1} : Within(r, d)' <=> Within(r, d)
  BY <1>1, Zenon DEF Within
<1>3. Within(r, 0) => Within(r, 1)
  BY DEF Within, TypeOK, Ckpt
<1>4. CASE DumpQueue
  <2>1. UNCHANGED <<pc, gpc, key, nextKey, batch>>
    BY <1>4, Zenon DEF DumpQueue, processor
  <2>2. QED
    BY <1>1, <1>2, <2>1 DEF Age
<1>5. CASE HandoffFirstDrain
  <2>1. /\ UNCHANGED <<pc, key, batch>> /\ pc = "finalize" /\ gpc = "gather"
        /\ gpc' = "drain" /\ nextKey' = gathering
    BY <1>5, Zenon DEF HandoffFirstDrain, processor
  <2>2. QED
    BY <1>1, <1>2, <2>1, Zenon DEF Age
<1>6. CASE HandoffFinalize
  <2>1. /\ Drain /\ UNCHANGED <<key, nextKey>> /\ gpc = "drain" /\ pc = "finalize"
        /\ \/ batch' = builder' /\ gpc' = "tail" /\ pc' = "prove"
           \/ batch' = batch /\ gpc' = "stopped" /\ pc' = "parked"
    BY <1>6, Zenon DEF HandoffFinalize, Drain, PhaseInv, edge
  <2>2. Has(builder', r) => req[r].gen = key
    BY <1>1, <2>1, DrainKeeps, Zenon
  <2>3. QED
    BY <1>1, <1>2, <1>3, <2>1, <2>2, Zenon DEF Age
<1>7. CASE DiscardTail
  <2>1. /\ UNCHANGED <<pc, batch>> /\ gpc = "tail" /\ gpc' = "gather" /\ key' = nextKey
        /\ nextKey' = nextKey
    BY <1>7, Zenon DEF DiscardTail, processor
  <2>2. QED
    BY <1>1, <1>2, <2>1, Zenon DEF Age
<1>8. QED
  BY <1>4, <1>5, <1>6, <1>7, Zenon DEF Gather

\* A commit makes every update one checkpoint older; the processor rotates
\* and restarts onto generations that are young enough.
LEMMA AgeProcess ==
  ASSUME TypeOK, PhaseInv, GenInv, BatchInv, AgeInv, Process
  PROVE  AgeInv'
<1> SUFFICES ASSUME NEW r \in Requests PROVE Age(r)'
  BY Zenon DEF AgeInv
<1>1. /\ Age(r) /\ UNCHANGED <<rpc, req>>
      /\ committed \in Nat /\ req[r].ckpt \in Nat /\ allocated \in Nat /\ req[r].gen \in Nat
  <2>1. UNCHANGED <<rpc, req>>
    BY Zenon DEF Process, inc_unique_pending_id, set_new_unique_ids, commit_state, Crash, Restart,
           edge
  <2>2. QED
    BY <2>1 DEF AgeInv, TypeOK, Ckpt, Generation
<1>2. Within(r, 0) => Within(r, 1)
  BY <1>1 DEF Within
<1>3. committed' = committed => \A d \in {0, 1} : Within(r, d)' <=> Within(r, d)
  BY <1>1, Zenon DEF Within
<1>4. rpc[r] = "read_generation" => \A d \in {0, 1} : Within(r, d)'
  BY <1>1, Zenon DEF Within
<1>5. CASE inc_unique_pending_id
  <2>1. /\ UNCHANGED <<committed, gathering, batch, gpc, key, nextKey>>
        /\ allocated' = allocated + 1
        /\ \/ pc = "idle" /\ pc' = "rotate"
           \/ pc = "start" /\ pc' = "start_rotate"
    BY <1>5, Zenon DEF inc_unique_pending_id, gatherer
  <2>2. QED
    <3>1. rpc[r] # "read_generation" => req[r].gen < allocated'
      BY <1>1, <2>1 DEF Age
    <3>2. req[r].gen = allocated' => Within(r, 1)'
      BY <1>1, <1>4, <3>1, <2>1
    <3>3. rpc[r] # "read_generation" => req[r].gen <= allocated'
      BY <1>1, <2>1, <3>1
    <3>4. QED
      BY <1>1, <1>3, <2>1, <3>1, <3>2, <3>3, Zenon DEF Age
<1>6. CASE set_new_unique_ids
  <2>1. /\ UNCHANGED <<committed, allocated, batch, key, nextKey>>
        /\ gathering' = allocated
        /\ \/ pc = "rotate" /\ pc' = "finalize" /\ gpc' = gpc
           \/ pc = "start_rotate" /\ pc' = "idle" /\ gpc' = "gather"
    BY <1>6, Zenon DEF set_new_unique_ids, durable
  <2>2. QED
    <3>1. req[r].gen = allocated => \A d \in {0, 1} : Within(r, d)'
      BY <1>1, <1>4, <2>1 DEF Age
    <3>2. CASE pc = "rotate"
      BY <1>1, <1>3, <2>1, <3>1, <3>2, Zenon DEF Age
    <3>3. CASE pc = "start_rotate"
      BY <1>1, <1>3, <2>1, <3>1, <3>3, Zenon DEF Age
    <3>4. QED
      BY <2>1, <3>2, <3>3, Zenon
<1>7. CASE commit_state
  <2>1. /\ UNCHANGED <<allocated, gathering, gpc, key, nextKey>>
        /\ committed' = committed + 1 /\ batch' = << >>
        /\ pc = "prove" /\ pc' = "idle" /\ gpc # "drain" /\ gathering = allocated
    BY <1>7, Zenon DEF commit_state, gatherer, PhaseInv, GenInv
  <2>2. Within(r, 0) => Within(r, 1)'
    BY <1>1, <2>1 DEF Within
  <2>3. ~Has(batch', r)
    BY <2>1, HasEmpty, Zenon
  <2>4. req[r].ckpt <= committed' /\ (rpc[r] # "read_generation" => req[r].gen <= allocated)
    BY <1>1, <2>1 DEF Age
  <2>5. req[r].gen = gathering => Within(r, 1)'
    BY <1>1, <2>1, <2>2, Zenon DEF Age
  <2>6. req[r].gen = key /\ gpc = "gather" => Within(r, 1)'
    BY <1>1, <2>1, <2>2, Zenon DEF Age
  <2>7. req[r].gen = nextKey /\ gpc = "tail" => Within(r, 1)'
    BY <1>1, <2>1, <2>2, Zenon DEF Age
  <2>8. QED
    BY <1>1, <2>1, <2>3, <2>4, <2>5, <2>6, <2>7, Zenon DEF Age
<1>8. CASE Crash
  <2>1. /\ UNCHANGED <<committed, allocated, gathering, key, nextKey>>
        /\ batch' = << >> /\ gpc' = "stopped" /\ pc' = "down"
    BY <1>8, Zenon DEF Crash, durable
  <2>2. ~Has(batch', r)
    BY <2>1, HasEmpty, Zenon
  <2>3. QED
    BY <1>1, <1>2, <1>3, <2>1, <2>2, Zenon DEF Age
<1>9. CASE Restart
  <2>1. /\ UNCHANGED <<committed, allocated, batch, gpc, nextKey>>
        /\ gathering' = (IF committed = 0 THEN 0 ELSE allocated) /\ key' = gathering'
        /\ pc = "down" /\ pc' = "start"
    BY <1>9, Zenon DEF Restart, durable
  <2>2. committed = 0 => Within(r, 1)
    BY <1>1 DEF Within
  <2>3. QED
    BY <1>1, <1>3, <2>1, <2>2, Zenon DEF Age
<1>10. QED
  BY <1>5, <1>6, <1>7, <1>8, <1>9, Zenon DEF Process

\* Every step keeps the ages.
LEMMA AgeStep ==
  TypeOK /\ PhaseInv /\ QueueInv /\ BatchInv /\ GenInv /\ AgeInv /\ [Next]_vars => AgeInv'
<1> SUFFICES ASSUME TypeOK, PhaseInv, QueueInv, BatchInv, GenInv, AgeInv, [Next]_vars
             PROVE  AgeInv'
  OBVIOUS
<1>1. CASE UNCHANGED vars
  BY <1>1 DEF vars, durable, processor, gatherer, edge, AgeInv, Age, Within
<1>2. QED
  BY <1>1, AgeEdge, AgeGather, AgeProcess, Zenon DEF Next

\* The inductive invariant.
IInv ==
  /\ TypeOK /\ PhaseInv /\ ClaimInv /\ QueueInv /\ BatchInv /\ ChainInv /\ GenInv /\ AgeInv
  /\ CommittedUpdatesChain /\ AcceptedCommitsWithinTwo

\* A fresh Coordinator satisfies the invariant.
LEMMA InvariantInit == Init => IInv
<1> SUFFICES ASSUME Init PROVE IInv
  OBVIOUS
<1>1. TypeOK
  BY TypeInit, Zenon
<1>2. PhaseInv /\ ClaimInv
  BY Zenon DEF Init, PhaseInv, ClaimInv, Claiming
<1>3. Len(<< >>) = 0 /\ \A r \in Requests : ~Has(<< >>, r)
  BY HasEmpty
<1>4. QueueInv /\ BatchInv
  BY <1>1, <1>3 DEF Init, QueueInv, BatchInv, TypeOK
<1>5. ChainInv /\ GenInv
  BY AdmissionAssumption DEF Init, ChainInv, GenInv, NewRequest
<1>6. AgeInv
  <2>1. /\ committed = 0
        /\ \A r \in Requests : rpc[r] = "read_generation" /\ req[r].ckpt = 0
    BY Zenon DEF Init, NewRequest
  <2>2. \A r \in Requests : \A d \in {0, 1} : Within(r, d)
    BY <2>1, Zenon DEF Within
  <2>3. 0 <= 0
    OBVIOUS
  <2>4. QED
    BY <2>1, <2>2, <2>3, Zenon DEF AgeInv, Age
<1>7. CommittedUpdatesChain /\ AcceptedCommitsWithinTwo
  BY Zenon DEF Init, CommittedUpdatesChain, AcceptedCommitsWithinTwo
<1>8. QED
  BY <1>1, <1>2, <1>4, <1>5, <1>6, <1>7, Zenon DEF IInv

\* A commit adds the update of its batch to the chain, one or two checkpoints
\* after the request read the committed state; a committed request is no
\* longer at the Edge.
LEMMA CommittedStep ==
  ASSUME TypeOK, BatchInv, ChainInv, AgeInv, CommittedUpdatesChain,
         AcceptedCommitsWithinTwo, [Next]_vars
  PROVE  CommittedUpdatesChain' /\ AcceptedCommitsWithinTwo'
<1>1. CASE commit_state
  <2> committed \in Nat
    BY DEF TypeOK, Ckpt
  <2>1. /\ pc = "prove" /\ UNCHANGED <<rpc, req>>
        /\ \A s \in Requests : ~Has(batch, s) => committedAs'[s] = committedAs[s]
        /\ \A s \in Requests : Has(batch, s) => committedAs'[s] = committed + 1
    BY <1>1, Zenon DEF commit_state, edge, Has
  <2>2. ASSUME NEW s \in Requests, Has(batch, s) PROVE batch # << >> /\ s = batch[1]
    <3>1. batch # << >>
      BY <2>2, HasEmpty, Zenon
    <3>2. Len(batch) = 1
      BY <3>1, OneItem, Zenon DEF BatchInv, TypeOK
    <3>3. QED
      BY <2>2, <3>1, <3>2 DEF Has
  <2>3. ASSUME NEW s \in Requests, Has(batch, s) PROVE req[s].old = root
    BY <2>1, <2>2, <2>3, Zenon DEF ChainInv
  <2>4. CommittedUpdatesChain'
    <3> SUFFICES ASSUME NEW s \in Requests, NEW t \in Requests, s # t,
                        committedAs'[s] # 0, committedAs'[t] # 0
                 PROVE  req[s].old # req[t].old
      BY <2>1, Zenon DEF CommittedUpdatesChain
    <3>1. CASE ~Has(batch, s) /\ ~Has(batch, t)
      BY <2>1, <3>1, Zenon DEF CommittedUpdatesChain
    <3>2. CASE Has(batch, s) /\ ~Has(batch, t)
      BY <2>1, <2>3, <3>2, Zenon DEF ChainInv
    <3>3. CASE ~Has(batch, s) /\ Has(batch, t)
      BY <2>1, <2>3, <3>3, Zenon DEF ChainInv
    <3>4. QED
      BY <2>2, <3>1, <3>2, <3>3, Zenon
  <2>5. ASSUME NEW s \in Requests, Has(batch, s)
        PROVE  committed + 1 \in {req[s].ckpt + 1, req[s].ckpt + 2}
    <3>1. rpc[s] = "published" /\ Within(s, 1) /\ req[s].ckpt <= committed
      BY <2>5, Zenon DEF BatchInv, AgeInv, Age
    <3>2. req[s].ckpt \in Nat
      BY DEF TypeOK, Ckpt
    <3>3. QED
      BY <2>1, <3>1, <3>2 DEF Within
  <2>6. AcceptedCommitsWithinTwo'
    BY <2>1, <2>5, Zenon DEF AcceptedCommitsWithinTwo
  <2>7. QED
    BY <2>4, <2>6, Zenon
<1>2. ASSUME NEW r \in Requests, SubmitGuta(r)
      PROVE  CommittedUpdatesChain' /\ AcceptedCommitsWithinTwo'
  <2>1. committedAs' = committedAs
        /\ \A s \in Requests : committedAs[s] # 0 => req'[s] = req[s]
    BY <1>2, EdgeStep DEF EdgeMove, BatchInv
  <2>2. QED
    BY <2>1 DEF CommittedUpdatesChain, AcceptedCommitsWithinTwo
<1>3. CASE \/ Gather \/ inc_unique_pending_id \/ set_new_unique_ids \/ Crash \/ Restart
           \/ UNCHANGED vars
  <2>1. UNCHANGED <<committedAs, req>>
    BY <1>3, Zenon DEF Gather, DumpQueue, HandoffFirstDrain, HandoffFinalize, DiscardTail,
                inc_unique_pending_id, set_new_unique_ids, Crash, Restart, vars, edge
  <2>2. QED
    BY <2>1, Zenon DEF CommittedUpdatesChain, AcceptedCommitsWithinTwo
<1>4. QED
  BY <1>1, <1>2, <1>3, Zenon DEF Next, Process

\* Every step keeps the invariant.
LEMMA InvariantStep == IInv /\ [Next]_vars => IInv'
BY Zenon, TypeStep, PhaseStep, ClaimStep, QueueStep, BatchStep, ChainStep, GenStep, AgeStep,
   CommittedStep DEF IInv

\* Every reachable state satisfies the invariant.
THEOREM Invariant == Spec => []IInv
BY InvariantInit, InvariantStep, PTL DEF Spec

\* Every variable of the admission path keeps its type.
THEOREM TypeCorrect == Spec => []TypeOK
<1>1. IInv => TypeOK
  BY Zenon DEF IInv
<1>2. QED
  BY <1>1, Invariant, PTL

\* The status claim and the retirement of drained queues keep every builder
\* and every batch at one update of the Realm, over restarts.
THEOREM OneUpdate == Spec => []OneUpdatePerBatch
<1>1. IInv => OneUpdatePerBatch
  <2> SUFFICES ASSUME IInv PROVE OneUpdatePerBatch
    OBVIOUS
  <2>1. Len(builder) \in Nat /\ Len(queue[key]) \in Nat
    BY DEF IInv, TypeOK
  <2>2. QED
    BY <2>1 DEF IInv, QueueInv, BatchInv, OneUpdatePerBatch
<1>2. QED
  BY <1>1, Invariant, PTL

\* No two committed updates start from the same root.
THEOREM OneChain == Spec => []CommittedUpdatesChain
<1>1. IInv => CommittedUpdatesChain
  BY Zenon DEF IInv
<1>2. QED
  BY <1>1, Invariant, PTL

\* An update accepted at checkpoint c is committed as c + 1 or c + 2, or never.
THEOREM WithinTwo == Spec => []AcceptedCommitsWithinTwo
<1>1. IInv => AcceptedCommitsWithinTwo
  BY Zenon DEF IInv
<1>2. QED
  BY <1>1, Invariant, PTL

-----------------------------------------------------------------------------
\* The request has compared its old root with the committed state.
Read(r) == rpc[r] \notin {"read_generation", "check_state", "rejected"}

\* What the requests have read is a history of the committed root: the root
\* between two equal readings is the same, and one that is no longer current
\* was replaced by a committed update that starts from it.
ReadInv ==
  /\ \A r \in Requests : Read(r) /\ req[r].ckpt = committed => req[r].old = root
  /\ \A r, s \in Requests :
       Read(r) /\ Read(s) /\ req[r].old = root /\ req[r].ckpt <= req[s].ckpt =>
         req[s].old = root
  /\ \A r, s, t \in Requests :
       /\ Read(r) /\ Read(s) /\ Read(t) /\ req[r].old = req[t].old
       /\ req[r].ckpt <= req[s].ckpt /\ req[s].ckpt <= req[t].ckpt
       => req[s].old = req[r].old
  /\ \A r \in Requests : Read(r) /\ req[r].old # root =>
       \E u \in Requests : committedAs[u] > req[r].ckpt /\ req[u].old = req[r].old
  /\ \A r \in Requests : committedAs[r] <= committed

\* The in-flight record is that of an accepted request, and a request that
\* goes on to claim saw none that stops it.
RecordInv ==
  /\ \A record \in inFlight :
       /\ Accepted(record.new)
       /\ record.old = req[record.new].old /\ record.at = req[record.new].ckpt
  /\ \A r \in Requests : rpc[r] \in {"claim_status", "claim_in_flight"} =>
       \A record \in req[r].seen :
         record.old = req[r].old =>
           record.at + GUTA_IN_FLIGHT_WINDOW_CHECKPOINTS <= req[r].ckpt

AnyOvertaken == \E r \in Requests : Accepted(r) /\ Overtaken(r)

\* Two accepted updates of one old root are a window apart.
Apart ==
  \A r, s \in Requests :
    r # s /\ Accepted(r) /\ Accepted(s) /\ req[r].old = req[s].old =>
      \/ req[r].ckpt + GUTA_IN_FLIGHT_WINDOW_CHECKPOINTS <= req[s].ckpt
      \/ req[s].ckpt + GUTA_IN_FLIGHT_WINDOW_CHECKPOINTS <= req[r].ckpt

\* Until an overtaken request is accepted, the record is the newest accepted
\* update, and the accepted updates are apart.
Spaced ==
  /\ \A r \in Requests : Accepted(r) =>
       \E record \in inFlight : req[r].ckpt <= record.at
  /\ Apart

SpacedInv == AnyOvertaken \/ Spaced

\* A request that reads the committed state extends the history by the
\* current root.
LEMMA ReadEdge ==
  ASSUME TypeOK, BatchInv, AgeInv, ReadInv, NEW r \in Requests, SubmitGuta(r)
  PROVE  ReadInv'
<1>1. EdgeMove(r)
  BY EdgeStep, Zenon
<1>2. UNCHANGED <<committed, root, committedAs>>
  BY <1>1, Zenon DEF EdgeMove, durable
<1>3. ASSUME NEW s \in Requests, Read(s)'
      PROVE  \/ Read(s) /\ req'[s].ckpt = req[s].ckpt /\ req'[s].old = req[s].old
             \/ req'[s].ckpt = committed /\ req'[s].old = root
  BY <1>1, <1>3, Zenon DEF EdgeMove, Read
<1>4. \A u \in Requests : committedAs[u] # 0 => req'[u] = req[u]
  BY <1>1, Zenon DEF EdgeMove, BatchInv
<1>5. \A s \in Requests : /\ req[s].ckpt \in Nat /\ req[s].ckpt <= committed
                          /\ committedAs[s] \in Nat
  BY DEF AgeInv, Age, TypeOK, Ckpt
<1>6. committed \in Nat
  BY DEF TypeOK, Ckpt
<1>7. \A s \in Requests : Read(s)' /\ req'[s].ckpt = committed' => req'[s].old = root'
  BY <1>2, <1>3, Zenon DEF ReadInv
<1>8. \A s, t \in Requests :
        Read(s)' /\ Read(t)' /\ req'[s].old = root' /\ req'[s].ckpt <= req'[t].ckpt =>
          req'[t].old = root'
  <2> SUFFICES ASSUME NEW s \in Requests, NEW t \in Requests, Read(s)', Read(t)',
                      req'[s].old = root, req'[s].ckpt <= req'[t].ckpt
               PROVE  req'[t].old = root
    BY <1>2, Zenon
  <2>1. CASE Read(t) /\ req'[t].ckpt = req[t].ckpt /\ req'[t].old = req[t].old
    <3>1. CASE Read(s) /\ req'[s].ckpt = req[s].ckpt /\ req'[s].old = req[s].old
      BY <2>1, <3>1 DEF ReadInv
    <3>2. CASE req'[s].ckpt = committed
      <4>1. req[t].ckpt = committed
        BY <1>5, <1>6, <2>1, <3>2
      <4>2. QED
        BY <2>1, <4>1, Zenon DEF ReadInv
    <3>3. QED
      BY <1>3, <3>1, <3>2, Zenon
  <2>2. QED
    BY <1>3, <2>1, Zenon
<1>9. \A s, t, v \in Requests :
        /\ Read(s)' /\ Read(t)' /\ Read(v)' /\ req'[s].old = req'[v].old
        /\ req'[s].ckpt <= req'[t].ckpt /\ req'[t].ckpt <= req'[v].ckpt
        => req'[t].old = req'[s].old
  <2> SUFFICES ASSUME NEW s \in Requests, NEW t \in Requests, NEW v \in Requests,
                      Read(s)', Read(t)', Read(v)', req'[s].old = req'[v].old,
                      req'[s].ckpt <= req'[t].ckpt, req'[t].ckpt <= req'[v].ckpt
               PROVE  req'[t].old = req'[s].old
    OBVIOUS
  <2>1. CASE req'[v].old = root
    BY <1>2, <1>8, <2>1, Zenon
  <2>2. CASE req'[v].old # root
    <3>1. /\ Read(s) /\ req'[s].ckpt = req[s].ckpt /\ req'[s].old = req[s].old
          /\ Read(v) /\ req'[v].ckpt = req[v].ckpt /\ req'[v].old = req[v].old
      BY <1>3, <2>2, Zenon
    <3>2. CASE Read(t) /\ req'[t].ckpt = req[t].ckpt /\ req'[t].old = req[t].old
      <4>1. req[s].ckpt <= req[t].ckpt /\ req[t].ckpt <= req[v].ckpt /\ req[s].old = req[v].old
        BY <3>1, <3>2, Zenon
      <4>2. req[t].old = req[s].old
        BY <3>1, <3>2, <4>1, Zenon DEF ReadInv
      <4>3. QED
        BY <3>1, <3>2, <4>2
    <3>3. CASE req'[t].ckpt = committed
      <4>1. req[v].ckpt = committed
        BY <1>5, <1>6, <3>1, <3>3
      <4>2. QED
        BY <2>2, <3>1, <4>1, Zenon DEF ReadInv
    <3>4. QED
      BY <1>3, <3>2, <3>3, Zenon
  <2>3. QED
    BY <2>1, <2>2, Zenon
<1>10. ASSUME NEW s \in Requests, Read(s)', req'[s].old # root'
       PROVE  \E u \in Requests : committedAs'[u] > req'[s].ckpt /\ req'[u].old = req'[s].old
  <2>1. Read(s) /\ req'[s].ckpt = req[s].ckpt /\ req'[s].old = req[s].old
    BY <1>2, <1>3, <1>10, Zenon
  <2>2. PICK u \in Requests : committedAs[u] > req[s].ckpt /\ req[u].old = req[s].old
    BY <1>2, <1>10, <2>1 DEF ReadInv
  <2>3. committedAs[u] # 0
    BY <1>5, <2>2
  <2>4. QED
    BY <1>2, <1>4, <2>1, <2>2, <2>3
<1>11. QED
  BY <1>2, <1>7, <1>8, <1>9, <1>10, Zenon DEF ReadInv

\* A commit ends the reign of the root its batch starts from.
LEMMA ReadCommit ==
  ASSUME TypeOK, BatchInv, ChainInv, AgeInv, ReadInv, commit_state
  PROVE  ReadInv'
<1>1. /\ pc = "prove" /\ committed' = committed + 1 /\ UNCHANGED <<rpc, req>>
      /\ \A s \in Requests : ~Has(batch, s) => committedAs'[s] = committedAs[s]
      /\ \A s \in Requests : Has(batch, s) => committedAs'[s] = committed + 1
  BY Zenon DEF commit_state, edge, Has
<1>2. \A s \in Requests : Read(s)' <=> Read(s)
  BY <1>1, Zenon DEF Read
<1>3. \A s \in Requests : /\ req[s].ckpt \in Nat /\ req[s].ckpt <= committed
                          /\ committedAs[s] \in Nat
  BY DEF AgeInv, Age, TypeOK, Ckpt
<1>4. committed \in Nat
  BY DEF TypeOK, Ckpt
<1>5. \A s \in Requests : committedAs'[s] <= committed' /\ req[s].ckpt # committed'
  BY <1>1, <1>3, <1>4 DEF ReadInv
<1>6. \A s, t, v \in Requests :
        /\ Read(s)' /\ Read(t)' /\ Read(v)' /\ req'[s].old = req'[v].old
        /\ req'[s].ckpt <= req'[t].ckpt /\ req'[t].ckpt <= req'[v].ckpt
        => req'[t].old = req'[s].old
  BY <1>1, <1>2, Zenon DEF ReadInv
<1>7. CASE batch = << >>
  <2>1. root' = root /\ \A s \in Requests : committedAs'[s] = committedAs[s]
    BY <1>1, <1>7, HasEmpty, Zenon DEF commit_state
  <2>2. QED
    BY <1>1, <1>2, <1>5, <1>6, <2>1 DEF ReadInv
<1>8. CASE batch # << >>
  <2>1. Len(batch) = 1 /\ batch[1] \in Requests
    BY <1>8, OneItem DEF BatchInv, TypeOK
  <2>2. root' = batch[1]
    BY <1>8, <2>1, Zenon DEF commit_state
  <2>3. Has(batch, batch[1])
    BY <2>1 DEF Has
  <2>4. committedAs[batch[1]] = 0 /\ committedAs'[batch[1]] = committed + 1
    BY <1>1, <2>1, <2>3, Zenon DEF BatchInv
  <2>5. req[batch[1]].old = root
    BY <1>1, <1>8, Zenon DEF ChainInv
  <2>6. \A s \in Requests : req[s].old # batch[1]
    BY <2>1, <2>4 DEF ChainInv
  <2>7. ASSUME NEW s \in Requests, Read(s)
        PROVE  \E u \in Requests : committedAs'[u] > req[s].ckpt /\ req[u].old = req[s].old
    <3>1. CASE req[s].old = root
      <4>1. committedAs'[batch[1]] > req[s].ckpt
        BY <1>3, <1>4, <2>4
      <4>2. QED
        BY <2>1, <2>5, <3>1, <4>1, Zenon
    <3>2. CASE req[s].old # root
      <4>1. PICK u \in Requests : committedAs[u] > req[s].ckpt /\ req[u].old = req[s].old
        BY <2>7, <3>2, Zenon DEF ReadInv
      <4>2. committedAs'[u] > req[s].ckpt
        BY <1>1, <1>3, <1>4, <4>1
      <4>3. QED
        BY <4>1, <4>2, Zenon
    <3>3. QED
      BY <3>1, <3>2, Zenon
  <2>8. QED
    BY <1>1, <1>2, <1>5, <1>6, <2>2, <2>6, <2>7 DEF ReadInv
<1>9. QED
  BY <1>7, <1>8, Zenon

\* The steps of the gatherer and all others of the processor leave the
\* committed state and the requests alone.
LEMMA QuietStep ==
  ASSUME \/ Gather \/ inc_unique_pending_id \/ set_new_unique_ids \/ Crash \/ Restart
         \/ UNCHANGED vars
  PROVE  UNCHANGED <<committed, root, committedAs, rpc, req, inFlight>>
BY Zenon DEF Gather, DumpQueue, HandoffFirstDrain, HandoffFinalize, DiscardTail,
       inc_unique_pending_id, set_new_unique_ids, Crash, Restart, vars, durable, temp, edge

\* Every step keeps the history.
LEMMA ReadStep ==
  ASSUME TypeOK, BatchInv, ChainInv, AgeInv, ReadInv, [Next]_vars
  PROVE  ReadInv'
<1>1. CASE UNCHANGED <<committed, root, committedAs, rpc, req>>
  BY <1>1 DEF ReadInv, Read
<1>2. QED
  BY <1>1, QuietStep, ReadEdge, ReadCommit, Zenon DEF Next, Process

-----------------------------------------------------------------------------
\* Two ways a step of a request treats the record: it takes it over from the
\* one it read, or leaves it and every accepted request alone.
Claims(r) ==
  /\ rpc[r] = "claim_in_flight" /\ inFlight = req[r].seen /\ req' = req
  /\ inFlight' = {[old |-> req[r].old, new |-> r, at |-> req[r].ckpt]}
  /\ rpc'[r] = "publish" /\ \A s \in Requests \ {r} : rpc'[s] = rpc[s]

KeepsRecord ==
  /\ inFlight' = inFlight
  /\ \A s \in Requests : /\ Accepted(s)' <=> Accepted(s)
                         /\ Accepted(s) => req'[s] = req[s]
  /\ \A s \in Requests : rpc'[s] \in {"claim_status", "claim_in_flight"} =>
       \/ rpc[s] \in {"claim_status", "claim_in_flight"} /\ req'[s] = req[s]
       \/ /\ ~AlreadyInFlight(s) /\ req'[s].seen = inFlight
          /\ req'[s].old = req[s].old /\ req'[s].ckpt = req[s].ckpt

\* A request that is rejected before its claim keeps the record.
LEMMA RejectKeeps ==
  ASSUME TypeOK, NEW r \in Requests, Reject(r), ~Accepted(r), inFlight' = inFlight
  PROVE  KeepsRecord
<1>1. /\ \A s \in Requests \ {r} : rpc'[s] = rpc[s] /\ req'[s] = req[s]
      /\ rpc'[r] = "rejected"
  BY RejectMove, Zenon
<1>2. QED
  BY <1>1, Zenon DEF KeepsRecord, Accepted

\* Each action of submit_guta_internal is one or the other.
LEMMA RecordMove ==
  ASSUME TypeOK, NEW r \in Requests, SubmitGuta(r)
  PROVE  Claims(r) \/ KeepsRecord
<1>0. rpc \in [Requests -> Step] /\ req \in [Requests -> RequestType]
  BY Zenon DEF TypeOK, Step, RequestType
<1>1. CASE ReadGeneration(r)
  BY <1>0, <1>1 DEF ReadGeneration, temp, KeepsRecord, Accepted, RequestType
<1>2. CASE ensure_guta_matches_current_coordinator_state(r)
  BY <1>0, <1>2, Zenon DEF ensure_guta_matches_current_coordinator_state, temp, KeepsRecord,
                    Accepted, RequestType
<1>3. CASE get_guta_in_flight(r)
  <2>1. ~Accepted(r) /\ inFlight' = inFlight
    BY <1>3 DEF get_guta_in_flight, temp, Accepted
  <2>2. CASE AlreadyInFlight(r)
    BY <1>3, <2>1, <2>2, RejectKeeps DEF get_guta_in_flight
  <2>3. CASE ~AlreadyInFlight(r)
    <3>1. /\ rpc[r] = "read_in_flight" /\ rpc' = [rpc EXCEPT ![r] = "claim_status"]
          /\ req' = [req EXCEPT ![r].seen = inFlight]
      BY <1>3, <2>3 DEF get_guta_in_flight
    <3>2. \A s \in Requests \ {r} : rpc'[s] = rpc[s] /\ req'[s] = req[s]
      BY <1>0, <3>1, Zenon
    <3>3. /\ rpc'[r] = "claim_status" /\ req'[r].seen = inFlight
          /\ req'[r].old = req[r].old /\ req'[r].ckpt = req[r].ckpt
      BY <1>0, <3>1, Zenon DEF RequestType
    <3>4. QED
      BY <2>1, <2>3, <3>2, <3>3, Zenon DEF KeepsRecord, Accepted
  <2>4. QED
    BY <2>2, <2>3, Zenon
<1>4. CASE put_submitted_status_if_absent(r)
  <2>1. ~Accepted(r) /\ inFlight' = inFlight
    BY <1>4, Zenon DEF put_submitted_status_if_absent, Accepted
  <2>2. CASE req[r].gen \in claimed
    BY <1>4, <2>1, <2>2, RejectKeeps, Zenon DEF put_submitted_status_if_absent
  <2>3. CASE req[r].gen \notin claimed
    BY <1>0, <1>4, <2>1, <2>3 DEF put_submitted_status_if_absent, KeepsRecord, Accepted
  <2>4. QED
    BY <2>2, <2>3
<1>5. CASE claim_guta_in_flight(r)
  <2>1. CASE inFlight # req[r].seen
    BY <1>5, <2>1, RejectKeeps, Zenon DEF claim_guta_in_flight, Accepted
  <2>2. CASE inFlight = req[r].seen
    BY <1>0, <1>5, <2>2 DEF claim_guta_in_flight, Claims
  <2>3. QED
    BY <2>1, <2>2, Zenon
<1>6. CASE publish_ephemeral_queue_item_owned(r)
  BY <1>0, <1>6, Zenon DEF publish_ephemeral_queue_item_owned, temp, KeepsRecord, Accepted
<1>7. QED
  BY <1>1, <1>2, <1>3, <1>4, <1>5, <1>6, Zenon DEF SubmitGuta

\* A step that keeps the record keeps what is known of it.
LEMMA KeptRecord ==
  ASSUME TypeOK, RecordInv, SpacedInv, KeepsRecord
  PROVE  RecordInv' /\ SpacedInv' /\ (AnyOvertaken => AnyOvertaken')
<1>1. AnyOvertaken' <=> AnyOvertaken
  BY DEF KeepsRecord, AnyOvertaken, Overtaken
<1>2. RecordInv'
  <2>1. \A record \in inFlight : record.new \in Requests
    BY Zenon DEF TypeOK, Record
  <2>2. \A record \in inFlight' : /\ Accepted(record.new)'
                                  /\ record.old = req'[record.new].old
                                  /\ record.at = req'[record.new].ckpt
    BY <2>1 DEF KeepsRecord, RecordInv
  <2>3. ASSUME NEW s \in Requests, rpc'[s] \in {"claim_status", "claim_in_flight"},
               NEW record \in req'[s].seen, record.old = req'[s].old
        PROVE  record.at + GUTA_IN_FLIGHT_WINDOW_CHECKPOINTS <= req'[s].ckpt
    <3>1. CASE rpc[s] \in {"claim_status", "claim_in_flight"} /\ req'[s] = req[s]
      BY <2>3, <3>1, Zenon DEF RecordInv
    <3>2. CASE /\ ~AlreadyInFlight(s) /\ req'[s].seen = inFlight
               /\ req'[s].old = req[s].old /\ req'[s].ckpt = req[s].ckpt
      <4>1. record \in inFlight /\ record.at \in Nat /\ req[s].ckpt \in Nat
        BY <2>3, <3>2 DEF TypeOK, Record, Ckpt
      <4>2. QED
        BY <2>3, <3>2, <4>1, AdmissionAssumption DEF AlreadyInFlight
    <3>3. QED
      BY <2>3, <3>1, <3>2, Zenon DEF KeepsRecord
  <2>4. QED
    BY <2>2, <2>3 DEF RecordInv
<1>3. Spaced => Spaced'
  BY DEF KeepsRecord, Spaced, Apart
<1>4. QED
  BY <1>1, <1>2, <1>3, Zenon DEF SpacedInv

\* A claim by a request that was not overtaken is a window above every
\* accepted update of the same old root: the record it replaces is the newest
\* of them, or lies between them and the claim and has their old root too.
LEMMA ClaimedRecord ==
  ASSUME TypeOK, ReadInv, RecordInv, SpacedInv, NEW r \in Requests, Claims(r)
  PROVE  RecordInv' /\ SpacedInv' /\ (AnyOvertaken => AnyOvertaken')
<1>1. /\ req' = req /\ Accepted(r)' /\ ~Accepted(r) /\ Read(r)
      /\ \A s \in Requests \ {r} : rpc'[s] = rpc[s]
      /\ \A s \in Requests \ {r} : Accepted(s)' <=> Accepted(s)
      /\ \A s \in Requests : Accepted(s) => Read(s)
      /\ inFlight = req[r].seen
  BY Zenon DEF Claims, Accepted, Read
<1>2. AnyOvertaken => AnyOvertaken'
  BY <1>1, Zenon DEF AnyOvertaken, Overtaken
<1>3. RecordInv'
  <2>1. \A s \in Requests : rpc'[s] \in {"claim_status", "claim_in_flight"} =>
          rpc[s] \in {"claim_status", "claim_in_flight"}
    BY Zenon DEF Claims
  <2>2. \A record \in inFlight' : /\ record.new = r /\ record.old = req[r].old
                                  /\ record.at = req[r].ckpt
    BY DEF Claims
  <2>3. QED
    BY <1>1, <2>1, <2>2, Zenon DEF RecordInv
<1>4. \A s \in Requests : req[s].ckpt \in Nat
  BY DEF TypeOK, Ckpt
<1>5. ASSUME ~AnyOvertaken' PROVE Spaced'
  <2>1. Spaced
    BY <1>2, <1>5, Zenon DEF SpacedInv
  <2>2. ASSUME NEW record \in inFlight
        PROVE  /\ record.new \in Requests /\ Read(record.new)
               /\ record.old = req[record.new].old /\ record.at = req[record.new].ckpt
               /\ record.at \in Nat /\ record.at <= req[r].ckpt
    <3>1. record.new \in Requests /\ record.at \in Nat
      <4>1. inFlight \subseteq Record
        BY Zenon DEF TypeOK
      <4>2. QED
        BY <4>1 DEF Record, Ckpt
    <3>2. ~(record.at > req[r].ckpt)
      BY <1>1, <1>5 DEF AnyOvertaken, Overtaken
    <3>3. QED
      BY <1>1, <1>4, <3>1, <3>2 DEF RecordInv
  <2>3. ASSUME NEW s \in Requests, Accepted(s)
        PROVE  /\ req[s].ckpt <= req[r].ckpt
               /\ req[s].old = req[r].old =>
                    req[s].ckpt + GUTA_IN_FLIGHT_WINDOW_CHECKPOINTS <= req[r].ckpt
    <3>1. PICK record \in inFlight : req[s].ckpt <= record.at
      BY <2>1, <2>3, Zenon DEF Spaced
    <3>2. req[s].ckpt <= req[r].ckpt
      BY <1>4, <2>2, <3>1
    <3>3. ASSUME req[s].old = req[r].old
          PROVE  record.at + GUTA_IN_FLIGHT_WINDOW_CHECKPOINTS <= req[r].ckpt
      <4>1. req[record.new].old = req[r].old
        <5>1. Read(s) /\ Read(r) /\ Read(record.new) /\ record.new \in Requests
          BY <1>1, <2>2, <2>3, Zenon
        <5>2. req[s].ckpt <= req[record.new].ckpt /\ req[record.new].ckpt <= req[r].ckpt
          BY <2>2, <3>1, Zenon
        <5>3. QED
          BY <3>3, <5>1, <5>2, Zenon DEF ReadInv
      <4>2. rpc[r] = "claim_in_flight" /\ record \in req[r].seen /\ record.old = req[r].old
        BY <1>1, <2>2, <4>1, Zenon DEF Claims
      <4>3. QED
        BY <4>2, Zenon DEF RecordInv
    <3>4. QED
      BY <1>4, <2>2, <3>1, <3>2, <3>3, AdmissionAssumption
  <2>4. \A s \in Requests : Accepted(s)' =>
          \E record \in inFlight' : req'[s].ckpt <= record.at
    <3>1. \A s \in Requests : Accepted(s)' => req[s].ckpt <= req[r].ckpt
      BY <1>1, <1>4, <2>3
    <3>2. QED
      BY <1>1, <3>1, Zenon DEF Claims
  <2>5. QED
    BY <1>1, <2>1, <2>3, <2>4 DEF Spaced, Apart
<1>6. QED
  BY <1>2, <1>3, <1>5, Zenon DEF SpacedInv

\* Every step keeps the record facts, and an overtaken request stays accepted.
LEMMA RecordStep ==
  ASSUME TypeOK, ReadInv, RecordInv, SpacedInv, [Next]_vars
  PROVE  RecordInv' /\ SpacedInv' /\ (AnyOvertaken => AnyOvertaken')
<1>1. CASE UNCHANGED <<rpc, req, inFlight>>
  BY <1>1 DEF RecordInv, SpacedInv, Spaced, Apart, AnyOvertaken, Accepted, Overtaken
<1>2. ASSUME commit_state PROVE UNCHANGED <<rpc, req, inFlight>>
  BY <1>2, Zenon DEF commit_state, temp, edge
<1>3. QED
  BY <1>1, <1>2, QuietStep, RecordMove, KeptRecord, ClaimedRecord, Zenon DEF Next, Process

\* The update that replaced a stale update's old root was committed at most
\* one checkpoint after the stale one was accepted, so the two are less than
\* a window apart.
LEMMA StaleIsClose ==
  ASSUME GUTA_IN_FLIGHT_WINDOW_CHECKPOINTS >= 2, IInv, ReadInv,
         HandoffFinalize, ~LeavesMatch(builder')
  PROVE  ~Apart
<1>1. gpc = "drain" /\ pc = "finalize" /\ tree = root /\ Drain
  BY DEF HandoffFinalize, Drain, edge, IInv, PhaseInv, ChainInv
<1>2. builder' \in Seq(Requests) /\ Len(builder') <= 1
  <2>1. builder \in Seq(Requests) /\ queue[key] \in Seq(Requests)
    BY DEF IInv, TypeOK
  <2>2. QED
    BY <1>1, <2>1, DrainMoves DEF Drain, IInv
<1>3. builder' # << >>
  BY DEF LeavesMatch
<1>4. Len(builder') = 1 /\ builder'[1] \in Requests
  BY <1>2, <1>3, OneItem, Zenon
<1> DEFINE r == builder'[1]
<1>5. req[r].old # root
  BY <1>1, <1>4 DEF LeavesMatch
<1>6. rpc[r] = "published" /\ req[r].gen = key /\ committedAs[r] = 0
  <2>1. Has(builder', r)
    BY <1>4 DEF Has
  <2>2. TypeOK /\ QueueInv /\ UNCHANGED <<key, rpc, req, committedAs>>
    BY <1>1, Zenon DEF Drain, IInv
  <2>3. rpc'[r] = "published" /\ req'[r].gen = key' /\ committedAs'[r] = 0
    BY <1>1, <1>4, <2>1, <2>2, DrainKeeps, Zenon
  <2>4. QED
    BY <2>2, <2>3, Zenon
<1>7. committed <= req[r].ckpt + 1
  BY <1>1, <1>4, <1>6 DEF IInv, AgeInv, Age, Within
<1>8. PICK u \in Requests : committedAs[u] > req[r].ckpt /\ req[u].old = req[r].old
  BY <1>4, <1>5, <1>6 DEF ReadInv, Read
<1>9. /\ committed \in Nat /\ req[r].ckpt \in Nat /\ req[u].ckpt \in Nat
      /\ committedAs[u] \in Nat
  <2>1. /\ committed \in Ckpt /\ req \in [Requests -> RequestType]
        /\ committedAs \in [Requests -> Ckpt]
    BY DEF IInv, TypeOK, RequestType
  <2>2. QED
    BY <1>4, <2>1 DEF RequestType, Ckpt
<1>10. committedAs[u] # 0 /\ u # r
  BY <1>6, <1>8, <1>9
<1>11. Accepted(u) /\ Accepted(r)
  BY <1>6, <1>10, Zenon DEF Accepted, IInv, BatchInv
<1>12. committedAs[u] <= committed
       /\ committedAs[u] \in {req[u].ckpt + 1, req[u].ckpt + 2}
  BY <1>10 DEF ReadInv, IInv, AcceptedCommitsWithinTwo
<1>13. /\ ~(req[r].ckpt + GUTA_IN_FLIGHT_WINDOW_CHECKPOINTS <= req[u].ckpt)
       /\ ~(req[u].ckpt + GUTA_IN_FLIGHT_WINDOW_CHECKPOINTS <= req[r].ckpt)
  BY <1>7, <1>8, <1>9, <1>12, AdmissionAssumption
<1>14. QED
  BY <1>4, <1>8, <1>10, <1>11, <1>13, Zenon DEF Apart

\* The planner's leaf check is the only step that parks the processor.
LEMMA ParksWhenStale ==
  ASSUME IInv, [Next]_vars, pc' = "parked", pc # "parked"
  PROVE  HandoffFinalize /\ ~LeavesMatch(builder')
<1>1. ASSUME NEW r \in Requests, SubmitGuta(r) PROVE FALSE
  BY <1>1, EdgeStep DEF EdgeMove, processor, IInv
<1>2. CASE Gather
  BY <1>2, Zenon DEF Gather, DumpQueue, HandoffFirstDrain, HandoffFinalize, DiscardTail,
                     processor
<1>3. ASSUME Process PROVE FALSE
  BY <1>3 DEF Process, inc_unique_pending_id, set_new_unique_ids, commit_state, Crash,
              Restart
<1>4. ASSUME UNCHANGED vars PROVE FALSE
  BY <1>4 DEF vars, processor
<1>5. QED
  BY <1>1, <1>2, <1>3, <1>4, Zenon DEF Next

\* With a window of at least two checkpoints (the code has three), no stale
\* update reaches the planner unless an overtaken request was accepted, for
\* any number of requests, checkpoints and restarts.
THEOREM StaleWasOvertaken ==
  ASSUME GUTA_IN_FLIGHT_WINDOW_CHECKPOINTS >= 2
  PROVE  Spec => []StaleOnlyWhenOvertaken
<1> DEFINE SInv == ReadInv /\ RecordInv /\ SpacedInv /\ StaleOnlyWhenOvertaken
<1>1. Init => SInv
  BY DEF Init, ReadInv, Read, RecordInv, SpacedInv, Spaced, Apart, Accepted,
         StaleOnlyWhenOvertaken
<1>2. IInv /\ SInv /\ [Next]_vars => SInv'
  <2> SUFFICES ASSUME IInv, SInv, [Next]_vars PROVE SInv'
    OBVIOUS
  <2>1. ReadInv' /\ RecordInv' /\ SpacedInv' /\ (AnyOvertaken => AnyOvertaken')
    BY ReadStep, RecordStep, Zenon DEF IInv
  <2>2. pc' = "parked" => AnyOvertaken
    <3>1. CASE pc = "parked"
      BY <3>1, Zenon DEF StaleOnlyWhenOvertaken, AnyOvertaken
    <3>2. CASE pc # "parked"
      BY <3>2, ParksWhenStale, StaleIsClose, Zenon DEF SpacedInv, Spaced
    <3>3. QED
      BY <3>1, <3>2, Zenon
  <2>3. QED
    BY <2>1, <2>2, Zenon DEF StaleOnlyWhenOvertaken, AnyOvertaken
<1>3. SInv => StaleOnlyWhenOvertaken
  OBVIOUS
<1>4. QED
  BY <1>1, <1>2, <1>3, Invariant, PTL DEF Spec

-----------------------------------------------------------------------------
\* With two requests the record a request replaces is that of the other one,
\* overtaken or not, so the accepted updates are always apart.
PairInv ==
  /\ \A r \in Requests : Accepted(r) => inFlight # {}
  /\ Apart

AtMostTwo == \A a, b, c \in Requests : a = b \/ b = c \/ a = c

LEMMA PairClaimed ==
  ASSUME AtMostTwo, TypeOK, RecordInv, PairInv, NEW r \in Requests, Claims(r)
  PROVE  PairInv'
<1>1. /\ req' = req /\ Accepted(r)' /\ ~Accepted(r) /\ inFlight' # {}
      /\ \A s \in Requests \ {r} : Accepted(s)' <=> Accepted(s)
      /\ inFlight = req[r].seen /\ rpc[r] = "claim_in_flight"
  BY DEF Claims, Accepted
<1>2. ASSUME NEW s \in Requests, Accepted(s), req[s].old = req[r].old
      PROVE  req[s].ckpt + GUTA_IN_FLIGHT_WINDOW_CHECKPOINTS <= req[r].ckpt
  <2>1. PICK record \in inFlight : TRUE
    BY <1>2, Zenon DEF PairInv
  <2>2. record.new \in Requests
    BY Zenon DEF TypeOK, Record
  <2>3. /\ Accepted(record.new) /\ record.old = req[record.new].old
        /\ record.at = req[record.new].ckpt
    BY Zenon DEF RecordInv
  <2>4. record.new = s
    BY <1>1, <1>2, <2>2, <2>3, Zenon DEF AtMostTwo
  <2>5. QED
    BY <1>1, <1>2, <2>3, <2>4, Zenon DEF RecordInv
<1>3. QED
  BY <1>1, <1>2, Zenon DEF PairInv, Apart

\* Two copies of an update are never both in flight: with at most two requests
\* and a window of at least two checkpoints no stale update reaches the
\* planner, as the Edge says of its admission. (With three requests one can.)
THEOREM TwoRequestsNeverStale ==
  ASSUME GUTA_IN_FLIGHT_WINDOW_CHECKPOINTS >= 2, AtMostTwo
  PROVE  Spec => []NoStaleUpdateInBatch
<1> DEFINE SInv == ReadInv /\ RecordInv /\ SpacedInv /\ PairInv /\ NoStaleUpdateInBatch
<1>1. Init => SInv
  BY DEF Init, ReadInv, Read, RecordInv, SpacedInv, Spaced, PairInv, Apart, Accepted,
         NoStaleUpdateInBatch
<1>2. IInv /\ SInv /\ [Next]_vars => SInv'
  <2> SUFFICES ASSUME IInv, SInv, [Next]_vars PROVE SInv'
    OBVIOUS
  <2>1. ReadInv' /\ RecordInv' /\ SpacedInv'
    BY ReadStep, RecordStep, Zenon DEF IInv
  <2>2. NoStaleUpdateInBatch'
    BY ParksWhenStale, StaleIsClose, Zenon DEF NoStaleUpdateInBatch, PairInv
  <2>3. PairInv'
    <3>1. ASSUME NEW r \in Requests, Claims(r) PROVE PairInv'
      BY <3>1, PairClaimed, Zenon DEF IInv
    <3>2. CASE KeepsRecord
      BY <3>2, Zenon DEF KeepsRecord, PairInv, Apart
    <3>3. CASE UNCHANGED <<rpc, req, inFlight>>
      BY <3>3 DEF PairInv, Apart, Accepted
    <3>4. ASSUME commit_state PROVE UNCHANGED <<rpc, req, inFlight>>
      BY <3>4, Zenon DEF commit_state, temp, edge
    <3>5. QED
      BY <3>1, <3>2, <3>3, <3>4, QuietStep, RecordMove, Zenon DEF Next, Process, IInv
  <2>4. QED
    BY <2>1, <2>2, <2>3, Zenon
<1>3. SInv => NoStaleUpdateInBatch
  OBVIOUS
<1>4. QED
  BY <1>1, <1>2, <1>3, Invariant, PTL DEF Spec
=============================================================================
