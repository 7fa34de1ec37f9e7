----------------------- MODULE GutaAdmissionInvariant -----------------------
(***************************************************************************)
(* The inductive invariant of GutaAdmission and the proof that every step  *)
(* keeps its types and what it says of claims, queues and batches.         *)
(***************************************************************************)
EXTENDS GutaAdmission, TLAPS

\* The steps of a request that holds the status claim of its generation.
Claiming == {"claim_in_flight", "publish", "published"}

Has(seq, r) == \E i \in 1 .. Len(seq) : seq[i] = r

RequestType == [gen : Generation, ckpt : Ckpt, old : Root, seen : SUBSET Record]

Step == {"read_generation", "check_state", "read_in_flight", "claim_status",
         "claim_in_flight", "publish", "published", "rejected"}

\* A block is begun only below the bound, and drained only when the processor
\* waits for it.
PhaseInv ==
  /\ pc \in {"rotate", "finalize", "prove"} => committed < MaxCheckpoint
  /\ gpc = "drain" => pc = "finalize"

\* A generation is claimed by at most one request.
ClaimInv ==
  /\ \A r \in Requests : rpc[r] \in Claiming => req[r].gen \in claimed
  /\ \A r, s \in Requests :
       r # s /\ rpc[r] \in Claiming /\ rpc[s] \in Claiming => req[r].gen # req[s].gen

\* An update is in one place at a time: its generation's queue, the builder
\* that drains that generation, or the batch.
QueueInv ==
  /\ \A g \in Generation :
       /\ Len(queue[g]) <= 1
       /\ \A r \in Requests : Has(queue[g], r) => /\ rpc[r] = "published"
                                                  /\ req[r].gen = g
                                                  /\ committedAs[r] = 0
  /\ Len(builder) + Len(queue[key]) <= 1
  /\ \A r \in Requests : Has(builder, r) => rpc[r] = "published" /\ req[r].gen = key
  /\ pc \in {"down", "start", "start_rotate"} => builder = << >> /\ gpc = "stopped"
  /\ gpc \in {"gather", "drain"} => \A r \in Requests : Has(builder, r) => committedAs[r] = 0

BatchInv ==
  /\ batch # << >> => pc = "prove"
  /\ Len(batch) <= 1
  /\ \A r \in Requests : Has(batch, r) =>
       /\ rpc[r] = "published" /\ committedAs[r] = 0
       /\ \A g \in Generation : ~Has(queue[g], r)
       /\ gpc = "gather" => ~Has(builder, r)
  /\ \A r \in Requests : committedAs[r] # 0 => rpc[r] = "published"

-----------------------------------------------------------------------------
\* Nothing is in the empty list.
LEMMA HasEmpty == ASSUME NEW r PROVE ~Has(<< >>, r)
BY DEF Has

\* An update is in a concatenation when it is in either part: a drain.
LEMMA HasConcat ==
  ASSUME NEW S, NEW s \in Seq(S), NEW t \in Seq(S), NEW r
  PROVE  Has(s \o t, r) <=> Has(s, r) \/ Has(t, r)
<1>1. Len(s \o t) = Len(s) + Len(t) /\ Len(s) \in Nat /\ Len(t) \in Nat
  OBVIOUS
<1>2. \A i \in 1 .. Len(s) + Len(t) :
        (s \o t)[i] = IF i <= Len(s) THEN s[i] ELSE t[i - Len(s)]
  OBVIOUS
<1>3. ASSUME NEW i \in 1 .. Len(t), t[i] = r PROVE Has(s \o t, r)
  <2>1. i + Len(s) \in 1 .. Len(s) + Len(t) /\ (s \o t)[i + Len(s)] = t[i]
    BY <1>1, <1>2
  <2>2. QED
    BY <2>1, <1>1, <1>3, Zenon DEF Has
<1>4. ASSUME NEW i \in 1 .. Len(s \o t), (s \o t)[i] = r PROVE Has(s, r) \/ Has(t, r)
  BY <1>1, <1>2, <1>4 DEF Has
<1>5. ASSUME NEW i \in 1 .. Len(s), s[i] = r PROVE Has(s \o t, r)
  BY <1>1, <1>2, <1>5 DEF Has
<1>6. QED
  BY <1>3, <1>4, <1>5, Zenon DEF Has

\* An update is in a list after it is appended, and nothing else changes: a
\* publish.
LEMMA HasAppend ==
  ASSUME NEW S, NEW s \in Seq(S), NEW x \in S, NEW r
  PROVE  Has(Append(s, x), r) <=> Has(s, r) \/ r = x
<1>1. Len(Append(s, x)) = Len(s) + 1 /\ Len(s) \in Nat
  OBVIOUS
<1>2. \A i \in 1 .. Len(s) + 1 : Append(s, x)[i] = IF i <= Len(s) THEN s[i] ELSE x
  OBVIOUS
<1>3. QED
  BY <1>1, <1>2 DEF Has

-----------------------------------------------------------------------------
\* A fresh Coordinator has the types.
LEMMA TypeInit == Init => TypeOK
<1> SUFFICES ASSUME Init PROVE TypeOK
  OBVIOUS
<1> QED
  BY AdmissionAssumption DEF Init, TypeOK, Root, Ckpt, Generation, Record, NewRequest

\* The locals of a request that has read nothing have their type.
LEMMA NewRequestType == NewRequest \in RequestType
BY AdmissionAssumption DEF NewRequest, RequestType, Root, Ckpt, Generation

\* A rejected request keeps the types of the Edge.
LEMMA RejectType ==
  ASSUME TypeOK, NEW r \in Requests, Reject(r)
  PROVE  /\ req' \in [Requests -> RequestType]
         /\ rpc' \in [Requests -> {"read_generation", "check_state", "read_in_flight",
                                  "claim_status", "claim_in_flight", "publish",
                                  "published", "rejected"}]
BY NewRequestType, Zenon DEF TypeOK, Reject, RequestType

\* Every step keeps the types; the checkpoint stays below its bound because a
\* block is begun below it.
LEMMA TypeStep == TypeOK /\ PhaseInv /\ [Next]_vars => TypeOK'
<1> SUFFICES ASSUME TypeOK, PhaseInv, [Next]_vars PROVE TypeOK'
  OBVIOUS
<1> USE AdmissionAssumption
<1>1. ASSUME NEW r \in Requests, ReadGeneration(r) PROVE TypeOK'
  <2>1. req \in [Requests -> RequestType] /\ advertised \in Generation
    BY Zenon DEF TypeOK, RequestType
  <2>2. req' \in [Requests -> RequestType]
    BY <1>1, <2>1 DEF ReadGeneration, RequestType
  <2>3. rpc' \in [Requests -> Step]
    BY <1>1, Zenon DEF ReadGeneration, TypeOK, Step
  <2>4. UNCHANGED <<durable, temp, queue, processor, gatherer, committedAs, restarts>>
    BY <1>1, Zenon DEF ReadGeneration
  <2>5. QED
    BY <2>2, <2>3, <2>4, Zenon DEF TypeOK, RequestType, Step, durable, temp, processor, gatherer
<1>2. ASSUME NEW r \in Requests, ensure_guta_matches_current_coordinator_state(r)
      PROVE  TypeOK'
  <2>1. req \in [Requests -> RequestType] /\ committed \in Ckpt /\ root \in Root
    BY Zenon DEF TypeOK, RequestType
  <2>2. req' \in [Requests -> RequestType]
    BY <1>2, <2>1, Zenon DEF ensure_guta_matches_current_coordinator_state, RequestType
  <2>3. rpc' \in [Requests -> Step]
    BY <1>2, Zenon DEF ensure_guta_matches_current_coordinator_state, TypeOK, Step
  <2>4. UNCHANGED <<durable, temp, queue, processor, gatherer, committedAs, restarts>>
    BY <1>2, Zenon DEF ensure_guta_matches_current_coordinator_state
  <2>5. QED
    BY <2>2, <2>3, <2>4 DEF TypeOK, RequestType, Step, durable, temp, processor, gatherer
<1>3. ASSUME NEW r \in Requests, get_guta_in_flight(r) PROVE TypeOK'
  <2>1. CASE AlreadyInFlight(r)
    BY <1>3, <2>1, RejectType, Zenon DEF TypeOK, get_guta_in_flight, RequestType, durable, temp,
                                  processor, gatherer
  <2>2. CASE ~AlreadyInFlight(r)
    <3>1. req \in [Requests -> RequestType] /\ inFlight \in SUBSET Record
      BY Zenon DEF TypeOK, RequestType
    <3>2. req' = [req EXCEPT ![r].seen = inFlight]
      BY <1>3, <2>2, Zenon DEF get_guta_in_flight
    <3>3. req' \in [Requests -> RequestType]
      BY <3>1, <3>2, Zenon DEF RequestType
    <3>4. QED
      BY <1>3, <2>2, <3>3, Zenon DEF TypeOK, get_guta_in_flight, RequestType, durable, temp,
                              processor, gatherer
  <2>3. QED
    BY <2>1, <2>2, Zenon
<1>4. ASSUME NEW r \in Requests, put_submitted_status_if_absent(r) PROVE TypeOK'
  <2>1. claimed' \subseteq Generation
    BY <1>4 DEF put_submitted_status_if_absent, TypeOK
  <2>2. CASE req[r].gen \in claimed
    BY <1>4, <2>1, <2>2, RejectType, Zenon DEF TypeOK, put_submitted_status_if_absent,
                                        RequestType, durable, processor, gatherer
  <2>3. CASE req[r].gen \notin claimed
    BY <1>4, <2>1, <2>3, Zenon DEF TypeOK, put_submitted_status_if_absent, durable, processor,
                            gatherer
  <2>4. QED
    BY <2>2, <2>3, Zenon
<1>5. ASSUME NEW r \in Requests, claim_guta_in_flight(r) PROVE TypeOK'
  <2> DEFINE record == [old |-> req[r].old, new |-> r, at |-> req[r].ckpt]
  <2>2. req[r] \in RequestType
    BY Zenon DEF TypeOK, RequestType
  <2>3. record \in Record
    BY <2>2, Zenon DEF RequestType, Record
  <2>4. CASE inFlight = req[r].seen
    <3>1. inFlight' \subseteq Record /\ (\A a, b \in inFlight' : a = b)
      BY <1>5, <2>3, <2>4, Zenon DEF claim_guta_in_flight
    <3>2. QED
      BY <1>5, <2>4, <3>1, Zenon DEF TypeOK, claim_guta_in_flight, durable, processor, gatherer
  <2>5. CASE inFlight # req[r].seen
    <3>1. Reject(r) /\ UNCHANGED inFlight
      BY <1>5, <2>5, Zenon DEF claim_guta_in_flight
    <3>2. req' \in [Requests -> RequestType] /\ rpc' \in [Requests -> Step]
      BY <3>1, RejectType, Zenon DEF Step
    <3>3. QED
      BY <1>5, <3>1, <3>2, Zenon DEF TypeOK, claim_guta_in_flight, RequestType, Step,
                                     durable, processor, gatherer
  <2>6. QED
    BY <2>4, <2>5, Zenon
<1>6. ASSUME NEW r \in Requests, publish_ephemeral_queue_item_owned(r) PROVE TypeOK'
  BY <1>6 DEF TypeOK, publish_ephemeral_queue_item_owned, durable, temp, processor,
              gatherer
<1>7. CASE DumpQueue
  BY <1>7 DEF TypeOK, DumpQueue, durable, temp, processor, edge
<1>8. CASE HandoffFirstDrain
  BY <1>8 DEF TypeOK, HandoffFirstDrain, durable, temp, processor, edge
<1>9. CASE HandoffFinalize
  <2>1. builder' \in Seq(Requests)
    BY <1>9 DEF HandoffFinalize, TypeOK
  <2>2. LeafAfter(builder') \in Root
    <3>1. CASE builder' = << >>
      BY <3>1, Zenon DEF LeafAfter, TypeOK
    <3>2. CASE builder' # << >>
      <4>1. Len(builder') \in 1 .. Len(builder')
        BY <2>1, <3>2
      <4>2. builder'[Len(builder')] \in Requests
        BY <2>1, <4>1
      <4>3. QED
        BY <3>2, <4>2, Zenon DEF LeafAfter, Root
    <3>3. QED
      BY <3>1, <3>2, Zenon
  <2>3. CASE LeavesMatch(builder')
    <3>1. tree' \in Root /\ batch' = builder' /\ gpc' = "tail" /\ pc' = "prove"
      BY <1>9, <2>2, <2>3, Zenon DEF HandoffFinalize
    <3>2. queue' \in [Generation -> Seq(Requests)]
      BY <1>9 DEF HandoffFinalize, TypeOK
    <3>3. UNCHANGED <<durable, temp, processing, gathering, key, nextKey, edge,
                      committedAs, restarts>>
      BY <1>9, Zenon DEF HandoffFinalize
    <3>4. QED
      BY <2>1, <3>1, <3>2, <3>3, Zenon DEF TypeOK, durable, temp, edge
  <2>4. CASE ~LeavesMatch(builder')
    BY <1>9, <2>1, <2>4 DEF TypeOK, HandoffFinalize, durable, temp, edge
  <2>5. QED
    BY <2>3, <2>4, Zenon
<1>10. CASE DiscardTail
  BY <1>10 DEF TypeOK, DiscardTail, durable, temp, processor, edge
<1>11. CASE inc_unique_pending_id
  <2>1. allocated' \in Generation
    BY <1>11 DEF inc_unique_pending_id, Generation, TypeOK
  <2>2. QED
    BY <1>11, <2>1, Zenon DEF TypeOK, inc_unique_pending_id, Generation, temp, gatherer, edge
<1>12. CASE set_new_unique_ids
  BY <1>12, Zenon DEF TypeOK, set_new_unique_ids, durable, edge
<1>13. CASE commit_state
  <2>1. committed' \in Ckpt
    BY <1>13 DEF commit_state, PhaseInv, Ckpt, TypeOK
  <2>2. root' \in Root
    <3>1. CASE batch = << >>
      BY <1>13, <3>1, Zenon DEF commit_state, TypeOK
    <3>2. CASE batch # << >>
      <4>1. batch \in Seq(Requests) /\ Len(batch) \in 1 .. Len(batch)
        BY <3>2 DEF TypeOK
      <4>2. QED
        BY <1>13, <3>2, <4>1 DEF commit_state, Root
    <3>3. QED
      BY <3>1, <3>2, Zenon
  <2>3. committedAs' \in [Requests -> Ckpt]
    BY <1>13, <2>1, Zenon DEF commit_state, TypeOK
  <2>4. QED
    BY <1>13, <2>1, <2>2, <2>3 DEF TypeOK, commit_state, temp, gatherer, edge
<1>14. CASE Crash
  BY <1>14 DEF TypeOK, Crash, durable, temp, edge
<1>15. CASE Restart
  BY <1>15 DEF TypeOK, Restart, Generation, durable, edge
<1>16. CASE UNCHANGED vars
  BY <1>16, Zenon DEF TypeOK, vars, durable, temp, processor, gatherer, edge
<1>17. QED
  BY Zenon, <1>1, <1>2, <1>3, <1>4, <1>5, <1>6, <1>7, <1>8, <1>9, <1>10, <1>11, <1>12, <1>13,
     <1>14, <1>15, <1>16 DEF Next, SubmitGuta, Gather, Process

-----------------------------------------------------------------------------
\* What a step of request r may do, whichever step it is.
EdgeMove(r) ==
  /\ rpc[r] \notin {"published", "rejected"}
  /\ \A s \in Requests \ {r} : rpc'[s] = rpc[s] /\ req'[s] = req[s]
  /\ claimed \subseteq claimed'
  /\ UNCHANGED <<durable, processor, gatherer, committedAs, restarts, advertised>>
  /\ rpc'[r] = "rejected" => req'[r] = NewRequest
  /\ rpc'[r] # "rejected" =>
       /\ req'[r].gen = IF rpc[r] = "read_generation" THEN advertised ELSE req[r].gen
       /\ req'[r].ckpt = IF rpc[r] = "check_state" THEN committed ELSE req[r].ckpt
       /\ req'[r].old = IF rpc[r] = "check_state" THEN root ELSE req[r].old
  /\ rpc'[r] \in Claiming /\ rpc[r] \notin Claiming =>
       req[r].gen \notin claimed /\ req[r].gen \in claimed'
  /\ rpc'[r] # "read_generation"
  /\ rpc'[r] = "check_state" <=> rpc[r] = "read_generation"
  /\ rpc'[r] \in Claiming => rpc[r] \in Claiming \cup {"claim_status"}
  /\ IF rpc'[r] = "published"
       THEN queue' = [queue EXCEPT ![req[r].gen] = Append(@, r)] /\ rpc[r] = "publish"
       ELSE UNCHANGED queue

\* A rejected request leaves every other one alone.
LEMMA RejectMove ==
  ASSUME TypeOK, NEW r \in Requests, Reject(r)
  PROVE  /\ \A s \in Requests \ {r} : rpc'[s] = rpc[s] /\ req'[s] = req[s]
         /\ rpc'[r] = "rejected" /\ req'[r] = NewRequest
BY Zenon DEF TypeOK, Reject

\* Each action of submit_guta_internal is such a step.
LEMMA EdgeStep ==
  ASSUME TypeOK, NEW r \in Requests, SubmitGuta(r)
  PROVE  EdgeMove(r)
<1> USE DEF EdgeMove, Claiming
<1>1. CASE ReadGeneration(r)
  BY <1>1, Zenon DEF TypeOK, ReadGeneration, temp
<1>2. CASE ensure_guta_matches_current_coordinator_state(r)
  BY <1>2 DEF TypeOK, ensure_guta_matches_current_coordinator_state, temp
<1>3. CASE get_guta_in_flight(r)
  <2>1. CASE AlreadyInFlight(r)
    <3>1. Reject(r)
      BY <1>3, <2>1, Zenon DEF get_guta_in_flight
    <3>2. QED
      BY <1>3, <3>1, RejectMove, Zenon DEF get_guta_in_flight, temp
  <2>2. CASE ~AlreadyInFlight(r)
    BY <1>3, <2>2 DEF TypeOK, get_guta_in_flight, temp
  <2>3. QED
    BY <2>1, <2>2, Zenon
<1>4. CASE put_submitted_status_if_absent(r)
  <2>1. CASE req[r].gen \in claimed
    <3>1. Reject(r)
      BY <1>4, <2>1, Zenon DEF put_submitted_status_if_absent
    <3>2. QED
      BY <1>4, <3>1, RejectMove, Zenon DEF put_submitted_status_if_absent
  <2>2. CASE req[r].gen \notin claimed
    BY <1>4, <2>2, Zenon DEF TypeOK, put_submitted_status_if_absent
  <2>3. QED
    BY <2>1, <2>2, Zenon
<1>5. CASE claim_guta_in_flight(r)
  <2>1. CASE inFlight # req[r].seen
    <3>1. Reject(r)
      BY <1>5, <2>1, Zenon DEF claim_guta_in_flight
    <3>2. QED
      BY <1>5, <3>1, RejectMove, Zenon DEF claim_guta_in_flight
  <2>2. CASE inFlight = req[r].seen
    BY <1>5, <2>2, Zenon DEF TypeOK, claim_guta_in_flight
  <2>3. QED
    BY <2>1, <2>2, Zenon
<1>6. CASE publish_ephemeral_queue_item_owned(r)
  BY <1>6, Zenon DEF TypeOK, publish_ephemeral_queue_item_owned, temp
<1>7. QED
  BY <1>1, <1>2, <1>3, <1>4, <1>5, <1>6, Zenon DEF SubmitGuta

\* Only inc_unique_pending_id begins a block, and only a commit raises the
\* checkpoint.
LEMMA PhaseStep == TypeOK /\ PhaseInv /\ [Next]_vars => PhaseInv'
<1> SUFFICES ASSUME TypeOK, PhaseInv, [Next]_vars PROVE PhaseInv'
  OBVIOUS
<1> USE DEF PhaseInv
<1>1. ASSUME NEW r \in Requests, SubmitGuta(r) PROVE PhaseInv'
  <2>1. EdgeMove(r)
    BY <1>1, EdgeStep, Zenon
  <2>2. UNCHANGED <<committed, pc, gpc>>
    BY <2>1, Zenon DEF EdgeMove, durable, processor, gatherer
  <2>3. QED
    BY <2>2, Zenon
<1>2. CASE Gather
  <2>1. CASE DumpQueue
    BY <2>1, Zenon DEF DumpQueue, durable, processor
  <2>2. CASE HandoffFirstDrain
    BY <2>2, Zenon DEF HandoffFirstDrain, durable, processor
  <2>3. CASE HandoffFinalize
    BY <2>3, Zenon DEF HandoffFinalize, durable
  <2>4. CASE DiscardTail
    BY <2>4, Zenon DEF DiscardTail, durable, processor
  <2>5. QED
    BY <1>2, <2>1, <2>2, <2>3, <2>4, Zenon DEF Gather
<1>3. CASE Process
  <2>1. CASE inc_unique_pending_id
    BY <2>1, Zenon DEF inc_unique_pending_id, gatherer
  <2>2. CASE set_new_unique_ids
    BY <2>2, Zenon DEF set_new_unique_ids, durable
  <2>3. CASE commit_state
    BY <2>3, Zenon DEF commit_state, gatherer
  <2>4. CASE Crash
    BY <2>4, Zenon DEF Crash, durable
  <2>5. CASE Restart
    BY <2>5, Zenon DEF Restart, durable
  <2>6. QED
    BY <1>3, <2>1, <2>2, <2>3, <2>4, <2>5, Zenon DEF Process
<1>4. CASE UNCHANGED vars
  BY <1>4, Zenon DEF vars, durable, processor, gatherer
<1>5. QED
  BY <1>1, <1>2, <1>3, <1>4, Zenon DEF Next

\* The status claim is put only if it is absent.
LEMMA ClaimStep == TypeOK /\ ClaimInv /\ [Next]_vars => ClaimInv'
<1> SUFFICES ASSUME TypeOK, ClaimInv, [Next]_vars PROVE ClaimInv'
  OBVIOUS
<1>1. ASSUME NEW r \in Requests, SubmitGuta(r) PROVE ClaimInv'
  <2>1. EdgeMove(r)
    BY <1>1, EdgeStep, Zenon
  <2>2. ASSUME NEW s \in Requests, (rpc[s] \in Claiming)' PROVE (req[s].gen \in claimed)'
    BY <2>1, <2>2, Zenon DEF ClaimInv, EdgeMove, Claiming
  <2>3. ASSUME NEW s \in Requests \ {r}, (rpc[s] \in Claiming)', (rpc[r] \in Claiming)'
        PROVE  (req[s].gen # req[r].gen)'
    BY <2>1, <2>3 DEF ClaimInv, EdgeMove, Claiming
  <2>4. ASSUME NEW s \in Requests \ {r}, NEW t \in Requests \ {r}, s # t,
               (rpc[s] \in Claiming)', (rpc[t] \in Claiming)'
        PROVE  (req[s].gen # req[t].gen)'
    <3>1. /\ rpc'[s] = rpc[s] /\ req'[s] = req[s]
          /\ rpc'[t] = rpc[t] /\ req'[t] = req[t]
      BY <2>1, Zenon DEF EdgeMove
    <3>2. QED
      BY <2>4, <3>1, Zenon DEF ClaimInv
  <2>5. QED
    BY <2>2, <2>3, <2>4, Zenon DEF ClaimInv
<1>7. CASE Gather
  BY <1>7, Zenon DEF ClaimInv, Gather, DumpQueue, HandoffFirstDrain, HandoffFinalize, DiscardTail,
              temp, edge
<1>8. CASE Process
  BY <1>8, Zenon DEF ClaimInv, Process, inc_unique_pending_id, set_new_unique_ids, commit_state,
              Crash, Restart, temp, edge
<1>9. CASE UNCHANGED vars
  BY <1>9, Zenon DEF ClaimInv, vars, temp, edge
<1>10. QED
  BY <1>1, <1>7, <1>8, <1>9, Zenon DEF Next

\* A drain moves the queue of the gatherer's key into the builder.
Drain ==
  /\ builder' = builder \o queue[key]
  /\ queue' = [queue EXCEPT ![key] = << >>]
  /\ UNCHANGED <<key, rpc, req, committedAs>>

\* What a drain leaves in the queues and the builder.
LEMMA DrainMoves ==
  ASSUME TypeOK, QueueInv, Drain
  PROVE  /\ Len(builder') <= 1
         /\ queue'[key] = << >>
         /\ \A g \in Generation : g # key => queue'[g] = queue[g]
         /\ \A r \in Requests : Has(builder', r) <=> Has(builder, r) \/ Has(queue[key], r)
<1>1. builder \in Seq(Requests) /\ queue[key] \in Seq(Requests) /\ key \in Generation
  BY Zenon DEF TypeOK
<1>2. Len(builder') = Len(builder) + Len(queue[key])
  BY <1>1 DEF Drain
<1>3. \A r \in Requests : Has(builder', r) <=> Has(builder, r) \/ Has(queue[key], r)
  BY <1>1, HasConcat, Zenon DEF Drain
<1>4. QED
  BY <1>1, <1>2, <1>3 DEF Drain, QueueInv, TypeOK

\* The queue facts survive a drain.
LEMMA DrainKeeps ==
  ASSUME TypeOK, QueueInv, Drain
  PROVE  /\ \A g \in Generation :
              /\ Len(queue'[g]) <= 1
              /\ \A r \in Requests : Has(queue'[g], r) => /\ rpc'[r] = "published"
                                                          /\ req'[r].gen = g
                                                          /\ committedAs'[r] = 0
         /\ Len(builder') + Len(queue'[key']) <= 1
         /\ \A r \in Requests : Has(builder', r) => rpc'[r] = "published" /\ req'[r].gen = key'
         /\ gpc \in {"gather", "drain"} =>
              \A r \in Requests : Has(builder', r) => committedAs'[r] = 0
<1> USE DrainMoves, HasEmpty
<1>1. Len(<< >>) = 0 /\ key \in Generation /\ UNCHANGED <<key, rpc, req, committedAs>>
  BY Zenon DEF Drain, TypeOK
<1>2. ASSUME NEW g \in Generation
      PROVE  /\ Len(queue'[g]) <= 1
             /\ \A r \in Requests : Has(queue'[g], r) => /\ rpc'[r] = "published"
                                                         /\ req'[r].gen = g
                                                         /\ committedAs'[r] = 0
  BY <1>1 DEF QueueInv
<1>3. Len(builder') + Len(queue'[key']) <= 1
  <2>1. Len(builder') \in Nat
    BY DEF Drain, TypeOK
  <2>2. QED
    BY <1>1, <2>1
<1>4. \A r \in Requests : Has(builder', r) => rpc'[r] = "published" /\ req'[r].gen = key'
  BY <1>1, Zenon DEF QueueInv
<1>5. gpc \in {"gather", "drain"} =>
        \A r \in Requests : Has(builder', r) => committedAs'[r] = 0
  BY <1>1, Zenon DEF QueueInv
<1>6. QED
  BY <1>2, <1>3, <1>4, <1>5, Zenon

\* A generation whose claim is with a request that has not published yet has
\* nothing in its queue and nothing in a builder.
LEMMA UnpublishedIsAlone ==
  ASSUME TypeOK, ClaimInv, QueueInv, NEW r \in Requests, rpc[r] = "publish"
  PROVE  /\ queue[req[r].gen] = << >>
         /\ req[r].gen = key => builder = << >>
<1>1. req[r].gen \in Generation /\ queue[req[r].gen] \in Seq(Requests)
      /\ builder \in Seq(Requests)
  BY Zenon DEF TypeOK
<1>2. \A s \in Requests : rpc[s] = "published" => req[s].gen # req[r].gen
  BY Zenon DEF ClaimInv, Claiming
<1>3. queue[req[r].gen] = << >>
  <2>1. ASSUME queue[req[r].gen] # << >> PROVE FALSE
    <3>1. queue[req[r].gen][1] \in Requests /\ 1 \in 1 .. Len(queue[req[r].gen])
      BY <1>1, <2>1
    <3>2. Has(queue[req[r].gen], queue[req[r].gen][1])
      BY <3>1, Zenon DEF Has
    <3>3. QED
      BY <1>1, <1>2, <3>1, <3>2 DEF QueueInv
  <2>2. QED
    BY <2>1, Zenon
<1>4. ASSUME req[r].gen = key, builder # << >> PROVE FALSE
  <2>1. builder[1] \in Requests /\ 1 \in 1 .. Len(builder)
    BY <1>1, <1>4
  <2>2. Has(builder, builder[1])
    BY <2>1, Zenon DEF Has
  <2>3. QED
    BY <1>2, <1>4, <2>1, <2>2, Zenon DEF QueueInv
<1>5. QED
  BY <1>3, <1>4, Zenon

\* A request publishes into a queue that is empty.
LEMMA QueueEdge ==
  ASSUME TypeOK, ClaimInv, QueueInv, BatchInv, NEW r \in Requests, SubmitGuta(r)
  PROVE  QueueInv'
<1>1. EdgeMove(r)
  BY EdgeStep, Zenon
<1>2. CASE rpc'[r] = "published"
  <2>1. /\ queue' = [queue EXCEPT ![req[r].gen] = Append(@, r)] /\ rpc[r] = "publish"
        /\ req'[r].gen = req[r].gen
        /\ committedAs[r] = 0
    BY <1>1, <1>2, Zenon DEF EdgeMove, BatchInv
  <2>2. /\ Len(queue'[req[r].gen]) = 1
        /\ \A s \in Requests : Has(queue'[req[r].gen], s) <=> s = r
        /\ \A g \in Generation : g # req[r].gen => queue'[g] = queue[g]
        /\ req[r].gen = key => builder = << >>
        /\ req[r].gen \in Generation
    <3>1. req[r].gen \in Generation /\ queue \in [Generation -> Seq(Requests)]
      BY Zenon DEF TypeOK
    <3>2. queue[req[r].gen] = << >> /\ (req[r].gen = key => builder = << >>)
      BY <2>1, UnpublishedIsAlone, Zenon
    <3>3. queue'[req[r].gen] = Append(queue[req[r].gen], r)
      BY <2>1, <3>1, Zenon
    <3>4. /\ Len(queue'[req[r].gen]) = 1
          /\ \A s \in Requests : Has(queue'[req[r].gen], s) <=> s = r
      <4>1. << >> \in Seq(Requests) /\ Len(Append(<< >>, r)) = 1
        OBVIOUS
      <4>2. \A s \in Requests : Has(Append(<< >>, r), s) <=> s = r
        BY <4>1, HasAppend, HasEmpty, ZenonT(60)
      <4>3. QED
        BY <3>2, <3>3, <4>1, <4>2, Zenon
    <3>5. \A g \in Generation : g # req[r].gen => queue'[g] = queue[g]
      BY <2>1, <3>1, Zenon
    <3>6. QED
      BY <3>1, <3>2, <3>3, <3>4, <3>5, Zenon
  <2>3. Len(<< >>) = 0
    OBVIOUS
  <2>4. UNCHANGED <<key, builder, pc, gpc, committedAs>>
    BY <1>1, Zenon DEF EdgeMove, processor, gatherer
  <2>5. \A s \in Requests : rpc[s] = "published" => rpc'[s] = rpc[s] /\ req'[s] = req[s]
    BY <1>1, Zenon DEF EdgeMove
  <2>6. ASSUME NEW g \in Generation
        PROVE  (/\ Len(queue[g]) <= 1
                /\ \A s \in Requests : Has(queue[g], s) => /\ rpc[s] = "published"
                                                           /\ req[s].gen = g
                                                           /\ committedAs[s] = 0)'
    <3>1. CASE g = req[r].gen
      <4>1. /\ Len(queue'[g]) = 1
            /\ \A s \in Requests : Has(queue'[g], s) => s = r
        BY <2>2, <3>1, Zenon
      <4>2. rpc'[r] = "published" /\ req'[r].gen = g /\ committedAs'[r] = 0
        BY <1>2, <2>1, <2>4, <3>1, Zenon
      <4>3. QED
        BY <4>1, <4>2
    <3>2. CASE g # req[r].gen
      BY <2>2, <2>4, <2>5, <3>2 DEF QueueInv
    <3>3. QED
      BY <3>1, <3>2, Zenon
  <2>7. (Len(builder) + Len(queue[key]) <= 1)'
    <3>1. key \in Generation /\ key' = key /\ builder' = builder
      BY <2>4, Zenon DEF TypeOK
    <3>2. CASE key = req[r].gen
      <4>1. Len(builder') = 0
        BY <2>2, <2>3, <3>1, <3>2, Zenon
      <4>2. Len(queue'[key']) = 1
        BY <2>2, <3>1, <3>2, Zenon
      <4>3. QED
        BY <4>1, <4>2
    <3>3. CASE key # req[r].gen
      BY <2>2, <3>1, <3>3, Zenon DEF QueueInv
    <3>4. QED
      BY <3>2, <3>3, Zenon
  <2>8. (/\ \A s \in Requests : Has(builder, s) => rpc[s] = "published" /\ req[s].gen = key
         /\ pc \in {"down", "start", "start_rotate"} => builder = << >> /\ gpc = "stopped"
         /\ gpc \in {"gather", "drain"} =>
              \A s \in Requests : Has(builder, s) => committedAs[s] = 0)'
    BY <2>4, <2>5 DEF QueueInv
  <2>9. QED
    BY <2>6, <2>7, <2>8, Zenon DEF QueueInv
<1>3. CASE rpc'[r] # "published"
  <2>1. UNCHANGED <<queue, key, builder, pc, gpc, committedAs>>
    BY <1>1, <1>3, Zenon DEF EdgeMove, processor, gatherer
  <2>2. \A s \in Requests : rpc[s] = "published" => rpc'[s] = rpc[s] /\ req'[s] = req[s]
    BY <1>1 DEF EdgeMove
  <2>3. QED
    BY <2>1, <2>2 DEF QueueInv
<1>4. QED
  BY <1>2, <1>3, Zenon

\* The gatherer drains the queue of one generation into one builder, and
\* starts the next generation with an empty one.
LEMMA QueueGather ==
  ASSUME TypeOK, PhaseInv, QueueInv, Gather
  PROVE  QueueInv'
<1>1. CASE DumpQueue
  <2>1. Drain /\ UNCHANGED <<pc, gpc>> /\ gpc = "gather"
    BY <1>1, Zenon DEF DumpQueue, Drain, processor, edge
  <2>2. pc \notin {"down", "start", "start_rotate"}
    BY <2>1, Zenon DEF QueueInv
  <2>3. QED
    BY <2>1, <2>2, DrainKeeps, Zenon DEF QueueInv
<1>2. CASE HandoffFirstDrain
  <2>1. Drain /\ UNCHANGED pc /\ gpc = "gather" /\ pc = "finalize"
    BY <1>2, Zenon DEF HandoffFirstDrain, Drain, processor, edge
  <2>2. QED
    BY <2>1, DrainKeeps, Zenon DEF QueueInv
<1>3. CASE HandoffFinalize
  <2>1. Drain /\ pc' \in {"prove", "parked"} /\ gpc' \in {"tail", "stopped"}
    BY <1>3, Zenon DEF HandoffFinalize, Drain, edge
  <2>2. QED
    BY <2>1, DrainKeeps, Zenon DEF QueueInv
<1>4. CASE DiscardTail
  <2>1. /\ builder' = << >> /\ gpc = "tail"
        /\ UNCHANGED <<pc, rpc, req, committedAs>>
        /\ key' \in Generation /\ key \in Generation
    BY <1>4, Zenon DEF DiscardTail, processor, edge, TypeOK
  <2>2. queue'[key] = << >> /\ \A g \in Generation : g # key => queue'[g] = queue[g]
    BY <1>4, Zenon DEF DiscardTail, TypeOK
  <2>3. Len(<< >>) = 0
    OBVIOUS
  <2>4. ASSUME NEW g \in Generation
        PROVE  (/\ Len(queue[g]) <= 1
                /\ \A s \in Requests : Has(queue[g], s) => /\ rpc[s] = "published"
                                                           /\ req[s].gen = g
                                                           /\ committedAs[s] = 0)'
    BY <2>1, <2>2, <2>3, HasEmpty DEF QueueInv
  <2>5. Len(builder') = 0 /\ \A s \in Requests : ~Has(builder', s)
    BY <2>1, <2>3, HasEmpty, Zenon
  <2>6. pc' \notin {"down", "start", "start_rotate"}
    BY <2>1, Zenon DEF QueueInv
  <2>7. Len(queue'[key']) \in Nat
    <3>1. queue' \in [Generation -> Seq(Requests)]
      BY <1>4 DEF DiscardTail, TypeOK
    <3>2. QED
      BY <2>1, <3>1
  <2>8. (Len(builder) + Len(queue[key]) <= 1)'
    BY <2>1, <2>4, <2>5, <2>7
  <2>9. QED
    BY <2>4, <2>5, <2>6, <2>8, Zenon DEF QueueInv
<1>5. QED
  BY <1>1, <1>2, <1>3, <1>4, Zenon DEF Gather

\* The processor never touches a queue; a commit takes only updates that are
\* in the batch, and a restart finds an empty builder.
LEMMA QueueProcess ==
  ASSUME TypeOK, PhaseInv, QueueInv, BatchInv, Process
  PROVE  QueueInv'
<1>1. CASE inc_unique_pending_id
  BY <1>1, Zenon DEF inc_unique_pending_id, QueueInv, gatherer, edge
<1>2. CASE set_new_unique_ids
  BY <1>2, HasEmpty, Zenon DEF set_new_unique_ids, QueueInv, edge
<1>3. CASE commit_state
  <2>1. /\ UNCHANGED <<queue, builder, key, gpc, rpc, req>>
        /\ pc = "prove" /\ pc' = "idle"
        /\ \A r \in Requests : ~Has(batch, r) => committedAs'[r] = committedAs[r]
    BY <1>3, Zenon DEF commit_state, gatherer, edge, Has
  <2>2. ASSUME NEW g \in Generation, NEW r \in Requests, Has(queue[g], r)
        PROVE  committedAs'[r] = 0
    BY <2>1, <2>2, Zenon DEF QueueInv, BatchInv
  <2>3. ASSUME gpc \in {"gather", "drain"}, NEW r \in Requests, Has(builder, r)
        PROVE  committedAs'[r] = 0
    BY <2>1, <2>3, Zenon DEF QueueInv, BatchInv, PhaseInv
  <2>4. QED
    BY <2>1, <2>2, <2>3 DEF QueueInv
<1>4. CASE Crash
  <2>1. /\ builder' = << >> /\ gpc' = "stopped"
        /\ UNCHANGED <<queue, key, rpc, req, committedAs>>
    BY <1>4, Zenon DEF Crash, edge
  <2>2. Len(builder') = 0 /\ \A s \in Requests : ~Has(builder', s)
    BY <2>1, HasEmpty, Zenon
  <2>3. key \in Generation /\ Len(queue[key]) \in Nat
    BY DEF TypeOK
  <2>4. QED
    BY <2>1, <2>2, <2>3 DEF QueueInv
<1>5. CASE Restart
  <2>1. /\ UNCHANGED <<queue, builder, gpc, rpc, req, committedAs>>
        /\ key' \in Generation /\ pc = "down"
    BY <1>5, AdmissionAssumption DEF Restart, edge, TypeOK, Generation
  <2>2. builder = << >> /\ gpc = "stopped"
    BY <2>1, Zenon DEF QueueInv
  <2>3. Len(builder') = 0 /\ \A s \in Requests : ~Has(builder', s)
    BY <2>1, <2>2, HasEmpty, Zenon
  <2>4. Len(queue[key']) \in Nat
    BY <2>1 DEF TypeOK
  <2>5. QED
    <3>1. (Len(builder) + Len(queue[key]) <= 1)'
      BY <2>1, <2>3, <2>4 DEF QueueInv
    <3>2. QED
      BY <2>1, <2>2, <2>3, <3>1 DEF QueueInv
<1>6. QED
  BY <1>1, <1>2, <1>3, <1>4, <1>5, Zenon DEF Process

\* Every step keeps the queue facts.
LEMMA QueueStep ==
  TypeOK /\ PhaseInv /\ ClaimInv /\ QueueInv /\ BatchInv /\ [Next]_vars => QueueInv'
<1> SUFFICES ASSUME TypeOK, PhaseInv, ClaimInv, QueueInv, BatchInv, [Next]_vars
             PROVE  QueueInv'
  OBVIOUS
<1>1. CASE UNCHANGED vars
  BY <1>1, Zenon DEF vars, processor, gatherer, edge, QueueInv
<1>2. QED
  BY <1>1, QueueEdge, QueueGather, QueueProcess, Zenon DEF Next

-----------------------------------------------------------------------------
\* A request that is still at the Edge is in no batch.
LEMMA BatchEdge ==
  ASSUME TypeOK, BatchInv, NEW r \in Requests, SubmitGuta(r)
  PROVE  BatchInv'
<1>1. EdgeMove(r)
  BY EdgeStep, Zenon
<1>2. UNCHANGED <<batch, pc, gpc, builder, committedAs>>
  BY <1>1, ZenonT(60) DEF EdgeMove, processor, gatherer
<1>3. \A s \in Requests : rpc[s] = "published" => rpc'[s] = "published" /\ s # r
  BY <1>1, Zenon DEF EdgeMove
<1>4. ASSUME NEW g \in Generation, NEW s \in Requests \ {r}, ~Has(queue[g], s)
      PROVE  ~Has(queue'[g], s)
  <2>1. CASE UNCHANGED queue
    BY <1>4, <2>1, Zenon
  <2>2. CASE queue' = [queue EXCEPT ![req[r].gen] = Append(@, r)]
    <3>1. queue \in [Generation -> Seq(Requests)] /\ req[r].gen \in Generation
      BY Zenon DEF TypeOK
    <3>2. CASE g = req[r].gen
      <4>1. queue'[g] = Append(queue[g], r) /\ queue[g] \in Seq(Requests)
        BY <2>2, <3>1, <3>2, Zenon
      <4>2. QED
        BY <1>4, <4>1, HasAppend
    <3>3. CASE g # req[r].gen
      BY <1>4, <2>2, <3>1, <3>3, Zenon
    <3>4. QED
      BY <3>2, <3>3, Zenon
  <2>3. QED
    BY <1>1, <2>1, <2>2, Zenon DEF EdgeMove
<1>5. QED
  BY <1>2, <1>3, <1>4, Zenon DEF BatchInv

\* A batch is the builder of the drained generation, which is then in no
\* queue; the gatherer meets its updates nowhere else.
LEMMA BatchGather ==
  ASSUME TypeOK, PhaseInv, QueueInv, BatchInv, Gather
  PROVE  BatchInv'
<1> USE HasEmpty
<1>1. CASE DumpQueue
  <2>1. Drain /\ UNCHANGED <<batch, pc, gpc>>
    BY <1>1, Zenon DEF DumpQueue, Drain, processor, edge
  <2>2. UNCHANGED <<rpc, committedAs>> /\ key \in Generation
    BY <2>1, Zenon DEF Drain, TypeOK
  <2>3. QED
    BY <2>1, <2>2, DrainMoves DEF BatchInv
<1>2. CASE HandoffFirstDrain
  <2>1. Drain /\ UNCHANGED <<batch, pc>> /\ pc = "finalize"
    BY <1>2, Zenon DEF HandoffFirstDrain, Drain, processor, edge
  <2>2. UNCHANGED <<rpc, committedAs>> /\ batch = << >>
    BY <2>1, Zenon DEF Drain, BatchInv
  <2>3. QED
    BY <2>1, <2>2, Zenon DEF BatchInv
<1>3. CASE HandoffFinalize
  <2>1. Drain /\ gpc = "drain" /\ gpc' # "gather" /\ pc = "finalize"
    BY <1>3, Zenon DEF HandoffFinalize, Drain, edge, PhaseInv
  <2>2. UNCHANGED <<rpc, req, committedAs, key>> /\ batch = << >>
    BY <2>1, Zenon DEF Drain, BatchInv
  <2>3. CASE batch' = builder' /\ pc' = "prove"
    <3>1. ASSUME NEW r \in Requests, Has(batch', r), NEW g \in Generation
          PROVE  ~Has(queue'[g], r)
      <4>1. req[r].gen = key
        BY <2>1, <2>2, <2>3, <3>1, DrainKeeps, Zenon
      <4>2. CASE g = key
        BY <2>1, <4>2, DrainMoves, Zenon
      <4>3. CASE g # key
        BY <2>1, <4>1, <4>3, DrainMoves, Zenon DEF QueueInv
      <4>4. QED
        BY <4>2, <4>3, Zenon
    <3>2. Len(batch') <= 1
      BY <2>1, <2>3, DrainMoves, Zenon
    <3>3. \A r \in Requests : Has(batch', r) => rpc'[r] = "published" /\ committedAs'[r] = 0
      BY <2>1, <2>3, DrainKeeps, Zenon
    <3>4. QED
      BY <2>1, <2>2, <2>3, <3>1, <3>2, <3>3, Zenon DEF BatchInv
  <2>4. CASE batch' = batch
    BY <2>1, <2>2, <2>4, Zenon DEF BatchInv
  <2>5. QED
    BY <1>3, <2>3, <2>4, Zenon DEF HandoffFinalize
<1>4. CASE DiscardTail
  <2>1. builder' = << >> /\ UNCHANGED <<batch, pc, rpc, committedAs>> /\ key \in Generation
    BY <1>4, Zenon DEF DiscardTail, processor, edge, TypeOK
  <2>2. queue'[key] = << >> /\ \A g \in Generation : g # key => queue'[g] = queue[g]
    BY <1>4, Zenon DEF DiscardTail, TypeOK
  <2>3. QED
    BY <2>1, <2>2 DEF BatchInv
<1>5. QED
  BY <1>1, <1>2, <1>3, <1>4, Zenon DEF Gather

\* The processor only empties the batch.
LEMMA BatchProcess ==
  ASSUME TypeOK, BatchInv, Process
  PROVE  BatchInv'
<1> USE HasEmpty DEF BatchInv
<1>1. CASE inc_unique_pending_id
  BY <1>1, ZenonT(60) DEF inc_unique_pending_id, gatherer, edge
<1>2. CASE set_new_unique_ids
  BY <1>2, ZenonT(60) DEF set_new_unique_ids, edge
<1>3. CASE commit_state
  <2>1. batch' = << >> /\ UNCHANGED rpc
        /\ \A r \in Requests : ~Has(batch, r) => committedAs'[r] = committedAs[r]
    BY <1>3, Zenon DEF commit_state, edge, Has
  <2>2. QED
    BY <2>1
<1>4. CASE Crash
  BY <1>4 DEF Crash, edge
<1>5. CASE Restart
  BY <1>5, Zenon DEF Restart, edge
<1>6. QED
  BY <1>1, <1>2, <1>3, <1>4, <1>5, Zenon DEF Process

\* Every step keeps the batch facts.
LEMMA BatchStep ==
  TypeOK /\ PhaseInv /\ QueueInv /\ BatchInv /\ [Next]_vars => BatchInv'
<1> SUFFICES ASSUME TypeOK, PhaseInv, QueueInv, BatchInv, [Next]_vars PROVE BatchInv'
  OBVIOUS
<1>1. CASE UNCHANGED vars
  BY <1>1, Zenon DEF vars, processor, gatherer, edge, BatchInv
<1>2. QED
  BY <1>1, BatchEdge, BatchGather, BatchProcess, Zenon DEF Next

-----------------------------------------------------------------------------
\* The committed root, the gatherer's leaf and the old roots of the requests.
ChainInv ==
  /\ root \in Requests => committedAs[root] # 0
  /\ \A r \in Requests : req[r].old \in Requests => committedAs[req[r].old] # 0
  /\ \A r \in Requests : committedAs[r] # 0 => req[r].old # root
  /\ pc \in {"start", "start_rotate", "idle", "rotate", "finalize"} => tree = root
  /\ pc = "prove" => /\ batch = << >> => tree = root
                     /\ batch # << >> => tree = batch[1] /\ req[batch[1]].old = root

\* A list of at most one update that is not empty has one.
LEMMA OneItem ==
  ASSUME NEW s \in Seq(Requests), s # << >>, Len(s) <= 1
  PROVE  Len(s) = 1 /\ s[1] \in Requests
<1>1. Len(s) # 0
  OBVIOUS
<1>2. Len(s) \in Nat /\ (1 <= Len(s) => s[1] \in Requests)
  OBVIOUS
<1>3. QED
  BY <1>1, <1>2

\* A request takes the committed root as its old root, and a committed request
\* has left the Edge.
LEMMA ChainEdge ==
  ASSUME TypeOK, BatchInv, ChainInv, NEW r \in Requests, SubmitGuta(r)
  PROVE  ChainInv'
<1>1. EdgeMove(r)
  BY EdgeStep, Zenon
<1>2. UNCHANGED <<committed, root, tree, batch, pc, committedAs>>
  BY <1>1 DEF EdgeMove, durable, processor, gatherer
<1>3. ASSUME NEW s \in Requests
      PROVE  req'[s].old \in {req[s].old, root, InitialRoot}
  BY <1>1 DEF EdgeMove, NewRequest
<1>4. ASSUME NEW s \in Requests, rpc[s] = "published" PROVE req'[s] = req[s]
  BY <1>1, <1>4, Zenon DEF EdgeMove
<1>5. batch # << >> => batch[1] \in Requests /\ rpc[batch[1]] = "published"
  <2>1. ASSUME batch # << >> PROVE batch[1] \in Requests /\ 1 \in 1 .. Len(batch)
    BY <2>1 DEF TypeOK
  <2>2. QED
    BY <2>1, Zenon DEF BatchInv, Has
<1>6. \A s \in Requests : req'[s].old \in Requests => committedAs[req'[s].old] # 0
  BY <1>3, AdmissionAssumption, Zenon DEF ChainInv
<1>7. \A s \in Requests : committedAs[s] # 0 => req'[s].old # root
  BY <1>4, Zenon DEF ChainInv, BatchInv
<1>8. QED
  BY <1>2, <1>4, <1>5, <1>6, <1>7, Zenon DEF ChainInv

\* The planner accepts a batch only if it starts at the leaf of the tree.
LEMMA ChainGather ==
  ASSUME TypeOK, PhaseInv, QueueInv, ChainInv, Gather
  PROVE  ChainInv'
<1>1. CASE HandoffFinalize
  <2>1. /\ Drain /\ pc = "finalize" /\ tree = root
        /\ UNCHANGED <<root, req, committedAs>>
    BY <1>1, Zenon DEF HandoffFinalize, Drain, durable, edge, PhaseInv, ChainInv
  <2>2. CASE LeavesMatch(builder')
    <3>1. batch' = builder' /\ tree' = LeafAfter(builder') /\ pc' = "prove"
      BY <1>1, <2>2, Zenon DEF HandoffFinalize
    <3>2. builder' \in Seq(Requests) /\ Len(builder') <= 1
      <4>1. builder \in Seq(Requests) /\ queue[key] \in Seq(Requests)
        BY Zenon DEF TypeOK
      <4>2. QED
        BY <2>1, <4>1, DrainMoves DEF Drain
    <3>3. CASE builder' = << >>
      BY <2>1, <3>1, <3>3, Zenon DEF LeafAfter, ChainInv
    <3>4. CASE builder' # << >>
      <4>1. Len(builder') = 1
        BY <3>2, <3>4, OneItem, Zenon
      <4>2. tree' = builder'[1]
        BY <3>1, <3>4, <4>1, Zenon DEF LeafAfter
      <4>3. req[builder'[1]].old = tree
        BY <2>2, <4>1 DEF LeavesMatch
      <4>4. QED
        BY <2>1, <3>1, <3>4, <4>2, <4>3, Zenon DEF ChainInv
    <3>5. QED
      BY <3>3, <3>4, Zenon
  <2>3. CASE ~LeavesMatch(builder')
    BY <1>1, <2>1, <2>3, Zenon DEF HandoffFinalize, ChainInv
  <2>4. QED
    BY <2>2, <2>3, Zenon
<1>2. CASE DumpQueue \/ HandoffFirstDrain \/ DiscardTail
  BY <1>2, Zenon DEF DumpQueue, HandoffFirstDrain, DiscardTail, ChainInv, durable, processor, edge
<1>3. QED
  BY <1>1, <1>2, Zenon DEF Gather

\* A commit moves the root along its batch, whose update nothing starts from
\* yet; a restart loads the committed root.
LEMMA ChainProcess ==
  ASSUME TypeOK, BatchInv, ChainInv, Process
  PROVE  ChainInv'
<1>1. CASE commit_state
  <2>1. /\ pc = "prove" /\ pc' = "idle" /\ UNCHANGED <<req, tree>>
        /\ \A s \in Requests : ~Has(batch, s) => committedAs'[s] = committedAs[s]
        /\ \A s \in Requests : Has(batch, s) => committedAs'[s] = committed + 1
        /\ committed + 1 # 0
    BY <1>1 DEF commit_state, edge, gatherer, Has, TypeOK, Ckpt
  <2>2. \A s \in Requests : committedAs[s] # 0 => committedAs'[s] # 0
    BY <2>1, Zenon
  <2>3. CASE batch = << >>
    <3>1. root' = root /\ \A s \in Requests : committedAs'[s] = committedAs[s]
      BY <1>1, <2>1, <2>3, HasEmpty, Zenon DEF commit_state
    <3>2. QED
      BY <2>1, <2>3, <3>1 DEF ChainInv
  <2>4. CASE batch # << >>
    <3>1. Len(batch) = 1 /\ batch[1] \in Requests
      BY <2>4, OneItem, Zenon DEF BatchInv, TypeOK
    <3>2. root' = batch[1]
      BY <1>1, <2>4, <3>1, Zenon DEF commit_state
    <3>3. Has(batch, batch[1]) /\ \A s \in Requests : Has(batch, s) => s = batch[1]
      BY <3>1 DEF Has
    <3>4. tree = batch[1]
      BY <2>1, <2>4, Zenon DEF ChainInv
    <3>5. committedAs[batch[1]] = 0
      BY <3>1, <3>3, Zenon DEF BatchInv
    <3>6. \A s \in Requests : req[s].old # batch[1]
      BY <3>1, <3>5, Zenon DEF ChainInv
    <3>7. committedAs'[batch[1]] # 0
      BY <2>1, <3>1, <3>3, Zenon
    <3>8. QED
      BY <2>1, <2>2, <3>1, <3>2, <3>4, <3>6, <3>7, Zenon DEF ChainInv
  <2>5. QED
    BY <2>3, <2>4, Zenon
<1>2. CASE inc_unique_pending_id
  BY <1>2, Zenon DEF inc_unique_pending_id, gatherer, edge, ChainInv
<1>3. CASE set_new_unique_ids
  BY <1>3, Zenon DEF set_new_unique_ids, durable, edge, ChainInv
<1>4. CASE Crash
  BY <1>4, Zenon DEF Crash, durable, edge, ChainInv
<1>5. CASE Restart
  BY <1>5, Zenon DEF Restart, durable, edge, ChainInv
<1>6. QED
  BY <1>1, <1>2, <1>3, <1>4, <1>5, Zenon DEF Process

\* Every step keeps the chain facts.
LEMMA ChainStep ==
  TypeOK /\ PhaseInv /\ QueueInv /\ BatchInv /\ ChainInv /\ [Next]_vars => ChainInv'
<1> SUFFICES ASSUME TypeOK, PhaseInv, QueueInv, BatchInv, ChainInv, [Next]_vars
             PROVE  ChainInv'
  OBVIOUS
<1>1. CASE UNCHANGED vars
  BY <1>1, Zenon DEF vars, durable, processor, gatherer, edge, ChainInv
<1>2. QED
  BY <1>1, ChainEdge, ChainGather, ChainProcess, Zenon DEF Next
=============================================================================
