----------------------------- MODULE WorkerJobs -----------------------------
(***************************************************************************)
(* The proving of a Coordinator block: the processor publishes the jobs of *)
(* a block stage by stage and waits for each stage; workers claim jobs and *)
(* submit proofs through the Edge; NATS delivers, redelivers and counts    *)
(* acknowledgements. Every write of the Edge's two handlers is a step, with *)
(* the reads before it, except where a stale read can matter.              *)
(*                                                                         *)
(* A generation is a pending id together with its processing id. The tag   *)
(* of a claim is random in the code; here it is the worker, which holds    *)
(* one job at a time. A reward value is the tag it was computed from with  *)
(* the children's values, so that hashing is injective; a proof is the     *)
(* witness it proves and the reward value it commits to.                   *)
(***************************************************************************)
EXTENDS Naturals, Sequences, FiniteSets, SequencesExt

CONSTANTS Workers,        \* workers, each a public key
          Unreliable,     \* the workers that are slow or die
          Contents,       \* what the gatherers can give the transition of a block
          Levels,         \* generation -> the levels of jobs that publish_jobs publishes
          SlowJobs,       \* jobs whose proving may outlast ack_wait
          MaxGen,         \* bound: generations
          MaxCheckpoint,  \* bound: checkpoints
          FaultGens,      \* bound: generations during which faults happen
          MaxFaults       \* bound: abandoned requests, lost acknowledgements, failed
                          \* deletions and redeliveries of a job somebody works on

ASSUME WorkerJobsAssumption ==
  MaxGen \in Nat /\ MaxCheckpoint \in Nat /\ MaxFaults \in Nat

Gens == 1 .. MaxGen

\* The levels, then the aggregation job, then the checkpoint transition.
Stages == [p \in Gens |-> Levels[p] \o << <<"agg">>, <<"root">> >>]
JobSeq == [p \in Gens |-> FlattenSeq(Stages[p])]
Jobs   == UNION {Range(JobSeq[p]) : p \in Gens}
StageJobs(p, k) == Range(Stages[p][k])
StageOf(p, j) == CHOOSE k \in DOMAIN Stages[p] : j \in StageJobs(p, k)
DepsOf(p, j) == IF StageOf(p, j) = 1 THEN {} ELSE StageJobs(p, StageOf(p, j) - 1)
Deps == [p \in Gens |-> [j \in Range(JobSeq[p]) |-> DepsOf(p, j)]]

None == <<>>

VARIABLES
  gen,       \* the unique ids the Edge reads; 0 before the first block
  target,    \* generation -> checkpoint it works on
  content,   \* generation -> content of its block
  latest,    \* latest committed checkpoint
  committed, \* checkpoint -> generation, proof and reward root it was committed with
  pc, stage, \* the processor
  fetched,   \* the proof that wait_for_job_ready has fetched
  fetchedReward, \* and the reward root
  msg,       \* generation, job -> its message in the queue of the generation
  consumer,  \* generations whose worker consumer exists
  kv,        \* <<generation, job>> whose reply subject is in the KV bucket
  claimTag, claim, reward, proof, tagTree, \* generation, job -> stored value
  worker,    \* worker -> the request it is in
  credits,   \* <<submitter, worker whose reputation the submission raised>>
  faults, premature

idVars    == <<gen, target, content, latest, committed>>
procVars  == <<idVars, pc, stage, fetched, fetchedReward>>
queueVars == <<msg, consumer, kv>>
storeVars == <<claimTag, claim, reward, proof, tagTree>>
faultVars == <<faults, premature>>
vars == <<procVars, queueVars, storeVars, worker, credits, faultVars>>

Idle == [pc |-> "idle"]

Table(v) == [p \in Gens |-> [j \in Jobs |-> v]]

Init ==
  /\ gen = 0 /\ target = [p \in Gens |-> 0] /\ latest = 0
  /\ content = [p \in Gens |-> None] /\ committed = <<>>
  /\ pc = "idle" /\ stage = 0 /\ fetched = None /\ fetchedReward = None
  /\ msg = Table("unsent") /\ consumer = {} /\ kv = {}
  /\ claimTag = Table(None) /\ claim = Table(None) /\ reward = Table(None)
  /\ proof = Table(None) /\ tagTree = Table(None)
  /\ worker = [w \in Workers |-> Idle] /\ credits = {}
  /\ faults = 0 /\ premature = 0

\* Mutant: no job id carries the pending id.
IdOfCheckpoint(j, p) == <<j, target[p]>>

\* Job ids carry the pending id, the transition's carries the checkpoint: it
\* is the same in every generation that tries that checkpoint.
JobId(j, p) == IF j = "root" THEN <<j, target[p]>> ELSE <<j, p>>

\* What a proof of the job proves.
Witness(j, p) == IF j = "root" THEN <<j, target[p], content[p]>> ELSE <<j, p>>

MoreFaults == gen \in FaultGens /\ faults + premature < MaxFaults
Fault == MoreFaults /\ faults' = faults + 1

-----------------------------------------------------------------------------
(* The queue.                                                              *)

Unacked == {"delivered", "expired"}

Seqs(p) == DOMAIN JobSeq[p] \* the stream sequences of the queue
State(p, i) == msg[p][JobSeq[p][i]]

\* JetStream makes a published message part of the consumer's state later.
ConsumerSees(p, j) ==
  /\ msg[p][j] = "published"
  /\ \A i, k \in Seqs(p) :
       JobSeq[p][i] = j /\ State(p, k) = "published" => i <= k
  /\ msg' = [msg EXCEPT ![p][j] = "visible"]
  /\ UNCHANGED <<procVars, consumer, kv, storeVars, worker, credits, faultVars>>

Holds(w, p, j) == worker[w].pc # "idle" /\ worker[w].job = j /\ worker[w].gen = p

Held(p, j) == \E w \in Workers : Holds(w, p, j)

\* The acknowledgement does not come within ack_wait: deliver again.
AckWaitExpires(p, j) ==
  /\ msg[p][j] = "delivered" /\ p \in consumer
  /\ \/ ~Held(p, j) /\ UNCHANGED premature
     \/ /\ \E w \in Unreliable : Holds(w, p, j)
        /\ j \in SlowJobs /\ MoreFaults /\ premature' = premature + 1
  /\ msg' = [msg EXCEPT ![p][j] = "expired"]
  /\ UNCHANGED <<procVars, consumer, kv, storeVars, worker, credits, faults>>

num_pending(p) == Cardinality({j \in Jobs : msg[p][j] = "visible"})
num_ack_pending(p) == Cardinality({j \in Jobs : msg[p][j] \in Unacked})

Highest(S) == CHOOSE i \in S \cup {0} : \A k \in S : k <= i
delivered_sequence(p) == Highest({i \in Seqs(p) : State(p, i) \in Unacked \cup {"acked"}})
ack_floor(p) == Highest({i \in Seqs(p) : \A k \in 1 .. i : State(p, k) = "acked"})

required_ack_stream_sequence(p, k) ==
  Highest({i \in Seqs(p) : JobSeq[p][i] \in StageJobs(p, k)})

\* Mutant: an idle consumer completes the publication.
IdleConsumerCompletes(p, required) == num_pending(p) = 0 /\ num_ack_pending(p) = 0

worker_queue_completion_reached(p, required) ==
  /\ num_pending(p) = 0
  /\ num_ack_pending(p) = 0
  /\ delivered_sequence(p) >= required
  /\ ack_floor(p) >= required

-----------------------------------------------------------------------------
(* The processor: process_block after the gatherers' results.              *)

outside == <<storeVars, worker, credits, faultVars>>

\* Mutant: the consumer of the generation after.
ensure_consumer_ahead == consumer' = consumer \cup {gen + 2}

ensure_consumer == consumer' = consumer \cup {gen + 1}

\* Creates the consumer, then lets the Edge read the new ids. A parked
\* processor takes new ids after its restart.
set_new_unique_ids ==
  /\ pc \in {"idle", "parked"}
  /\ gen < MaxGen /\ latest < MaxCheckpoint
  /\ ensure_consumer /\ gen' = gen + 1
  /\ target' = [target EXCEPT ![gen + 1] = latest + 1]
  /\ \E c \in Contents : content' = [content EXCEPT ![gen + 1] = c]
  /\ pc' = "publish" /\ stage' = 1 /\ fetched' = None /\ fetchedReward' = None
  /\ UNCHANGED <<latest, committed, msg, kv, outside>>

\* Mutant: publishes the levels below again.
BatchWithLevelsBelow(p, k) == UNION {StageJobs(p, i) : i \in 1 .. k}

Batch(p, k) == StageJobs(p, k)

publish_worker_jobs ==
  /\ pc = "publish"
  /\ msg' = [msg EXCEPT ![gen] = [j \in Jobs |->
               IF j \in Batch(gen, stage) THEN "published" ELSE msg[gen][j]]]
  /\ pc' = "barrier"
  /\ UNCHANGED <<idVars, stage, fetched, fetchedReward, consumer, kv, outside>>

wait_for_jobs_completion ==
  /\ pc = "barrier"
  /\ worker_queue_completion_reached(gen, required_ack_stream_sequence(gen, stage))
  /\ pc' = IF stage <= Len(Levels[gen]) THEN "level" ELSE "proof"
  /\ UNCHANGED <<idVars, stage, fetched, fetchedReward, queueVars, outside>>

NextStage == pc' = "publish" /\ stage' = stage + 1

wait_for_level_proofs ==
  /\ pc = "level"
  /\ \A j \in StageJobs(gen, stage) : proof[gen][j] # None
  /\ NextStage
  /\ UNCHANGED <<idVars, fetched, fetchedReward, queueVars, outside>>

\* wait_for_job_ready polls the proof, then the reward value, which is stored
\* before the proof: it never has to start over.
FetchProof ==
  /\ pc = "proof"
  /\ \E j \in StageJobs(gen, stage) : proof[gen][j] # None /\ fetched' = proof[gen][j]
  /\ pc' = "reward"
  /\ UNCHANGED <<idVars, stage, fetchedReward, queueVars, outside>>

FetchReward ==
  /\ pc = "reward"
  /\ \E j \in StageJobs(gen, stage) :
       /\ reward[gen][j] # None
       /\ \/ j = "agg" /\ NextStage /\ UNCHANGED fetchedReward
          \/ j = "root" /\ pc' = "commit" /\ fetchedReward' = reward[gen][j] /\ UNCHANGED stage
  /\ UNCHANGED <<idVars, fetched, queueVars, outside>>

TimedOut == \* a wait ends with an error, which parks the processor
  /\ pc \in {"barrier", "level", "proof", "reward"}
  /\ pc' = "parked"
  /\ UNCHANGED <<idVars, stage, fetched, fetchedReward, queueVars, outside>>

\* Mutant: any proof of the transition is committed.
NoCommitment == TRUE

\* The checkpoint leaf holds the reward root that was read; the proof must
\* commit to that leaf.
ensure_non_genesis_checkpoint_chain_commitment ==
  fetched = <<Witness("root", gen), fetchedReward>>

\* Mutant: deletes the proofs of the checkpoint just committed.
PendingIdOfCommitted == gen

\* get_unique_pending_id_for_checkpoint_id(previous_checkpoint_id)
PreviousPendingId == IF latest = 0 THEN 0 ELSE committed[latest].gen

\* The marker, then the best-effort deletion of the previous proofs.
commit_state ==
  /\ pc = "commit"
  /\ IF ensure_non_genesis_checkpoint_chain_commitment
     THEN /\ latest' = latest + 1
          /\ committed' = Append(committed,
               [gen |-> gen, proof |-> fetched, reward |-> fetchedReward])
          /\ pc' = "cleanup"
          /\ \/ /\ proof' = [p \in Gens |-> IF p = PreviousPendingId
                                           THEN [j \in Jobs |-> None] ELSE proof[p]]
                /\ UNCHANGED faults
             \/ /\ Fault
                /\ UNCHANGED proof
     ELSE pc' = "parked" /\ UNCHANGED <<latest, committed, proof, faults>>
  /\ UNCHANGED <<gen, target, content, stage, fetched, fetchedReward, queueVars, claimTag,
                 claim, reward, tagTree, worker, credits, premature>>

delete_worker_queue_consumer ==
  /\ pc = "cleanup"
  /\ \/ consumer' = consumer \ {gen} /\ UNCHANGED faults
     \/ Fault /\ UNCHANGED consumer
  /\ pc' = "idle"
  /\ UNCHANGED <<idVars, stage, fetched, fetchedReward, msg, kv, storeVars, worker, credits,
                 premature>>

-----------------------------------------------------------------------------
(* get_proving_work_with_child_proofs, for worker w.                       *)

Step(w, k) == worker' = [worker EXCEPT ![w] = [@ EXCEPT !.pc = k]]
Ends(w)    == worker' = [worker EXCEPT ![w] = Idle]

\* Mutant: a message is delivered once.
DeliveredOnce(p) == {j \in Jobs : p \in consumer /\ msg[p][j] = "visible"}

Deliverable(p) == {j \in Jobs : p \in consumer /\ msg[p][j] \in {"visible", "expired"}}

\* Reads the current ids and fetches one message of their queue, whose reply
\* subject is put under the job's key. Without a message the request fails,
\* and nothing changes.
get_message_if_exists_dqi_worker(w) ==
  /\ worker[w].pc = "idle" /\ gen > 0
  /\ \E j \in Deliverable(gen) :
       /\ msg' = [msg EXCEPT ![gen][j] = "delivered"]
       /\ kv' = kv \cup {<<gen, j>>}
       /\ worker' = [worker EXCEPT ![w] = [pc |-> "tag", gen |-> gen, job |-> j]]
  /\ UNCHANGED <<procVars, consumer, storeVars, credits, faultVars>>

ChildValues(p, j) == [d \in Deps[p][j] |-> reward[p][d]]

\* Reads the children's proofs and reward values and sets the claim tag. The
\* previous transition's proof, which the transition also depends on, is read
\* from the committed state.
set_proof_claim_tag(w) ==
  LET p == worker[w].gen
      j == worker[w].job IN
  /\ worker[w].pc = "tag"
  /\ IF \A d \in Deps[p][j] : proof[p][d] # None /\ reward[p][d] # None
     THEN /\ worker' = [worker EXCEPT ![w] =
               [pc |-> "claim", gen |-> p, job |-> j,
                proof |-> IF \A d \in Deps[p][j] : proof[p][d][2] = reward[p][d]
                          THEN <<Witness(j, p), <<w, ChildValues(p, j)>> >>
                          ELSE None]]
          /\ claimTag' = [claimTag EXCEPT ![p][j] = <<w>>]
     ELSE Ends(w) /\ UNCHANGED claimTag
  /\ UNCHANGED <<procVars, queueVars, claim, reward, proof, tagTree, credits, faultVars>>

\* Mutant: the first claim of a job stays.
FirstClaim(w) ==
  LET first == claim[worker[w].gen][worker[w].job] IN IF first = None THEN <<w>> ELSE first

ClaimRecord(w) == <<w>>

set_job_claim(w) ==
  /\ worker[w].pc = "claim"
  /\ claim' = [claim EXCEPT ![worker[w].gen][worker[w].job] = ClaimRecord(w)]
  /\ Step(w, "prove")
  /\ UNCHANGED <<procVars, queueVars, claimTag, reward, proof, tagTree, credits, faultVars>>

-----------------------------------------------------------------------------
(* The worker proves and calls submit_proof_raw_internal.                  *)

\* The newest generation with a claim on this job id.
\* SUBMIT_PROOF_PENDING_LOOKBACK is beyond MaxGen.
Claimed(w) ==
  LET j == worker[w].job IN
  {p \in 1 .. gen : claim[p][j] # None /\ JobId(j, p) = JobId(j, worker[w].gen)}

\* Children that disagree with their reward values cannot be proved. The
\* submission begins with the ids that are current by then and the newest
\* claim; without one, it is taken for the current generation.
resolve_unique_pending_id_for_submitted_job(w) ==
  LET j == worker[w].job
      p == IF Claimed(w) = {} THEN gen ELSE Highest(Claimed(w)) IN
  /\ worker[w].pc = "prove"
  /\ IF worker[w].proof = None
     THEN Ends(w)
     ELSE worker' = [worker EXCEPT ![w] =
            [pc |-> "verify", gen |-> worker[w].gen, job |-> j,
             proof |-> worker[w].proof, now |-> gen, at |-> p, claim |-> claim[p][j]]]
  /\ UNCHANGED <<procVars, queueVars, storeVars, credits, faultVars>>

\* A tag mismatch costs the submitter reputation and ends the submission. The
\* proof is verified against the public inputs that the children's reward
\* values, read again, give.
verify_zk_proof(w) ==
  LET p == worker[w].at
      j == worker[w].job IN
  /\ worker[w].pc = "verify"
  /\ IF /\ claimTag[p][j] = <<w>>
        /\ \A d \in Deps[p][j] : reward[p][d] # None
        /\ worker[w].proof = <<Witness(j, p), <<w, ChildValues(p, j)>> >>
     THEN Step(w, "reward") ELSE Ends(w)
  /\ UNCHANGED <<procVars, queueVars, storeVars, credits, faultVars>>

set_proof_miner_rewards_tree_value(w) ==
  /\ worker[w].pc = "reward"
  /\ reward' = [reward EXCEPT ![worker[w].at][worker[w].job] = worker[w].proof[2]]
  /\ Step(w, "readback")
  /\ UNCHANGED <<procVars, queueVars, claimTag, claim, proof, tagTree, credits, faultVars>>

ReadBack(w) ==
  /\ worker[w].pc = "readback"
  /\ IF reward[worker[w].at][worker[w].job] = worker[w].proof[2]
     THEN Step(w, "put") ELSE Ends(w)
  /\ UNCHANGED <<procVars, queueVars, storeVars, credits, faultVars>>

put_proof_bytes_for_job_id(w) ==
  /\ worker[w].pc = "put"
  /\ proof' = [proof EXCEPT ![worker[w].at][worker[w].job] = worker[w].proof]
  /\ Step(w, "ack")
  /\ UNCHANGED <<procVars, queueVars, claimTag, claim, reward, tagTree, credits, faultVars>>

\* The end of the submission: the claimant's reputation, the node of the tag
\* tree, and report_message_completed_dq, which looks the reply subject up
\* under the current processing id, publishes the acknowledgement without
\* confirmation, and deletes the entry.
report_job_completed(w) ==
  LET p == worker[w].now
      j == worker[w].job
      found == <<p, j>> \in kv /\ JobId(j, p) = JobId(j, worker[w].gen) IN
  /\ worker[w].pc = "ack"
  /\ credits' = credits \cup {<<w, c>> : c \in Range(worker[w].claim)}
  /\ tagTree' = [tagTree EXCEPT ![worker[w].at][j] = worker[w].proof[2]]
  /\ kv' = IF found THEN kv \ {<<p, j>>} ELSE kv
  /\ \/ /\ msg' = IF found /\ p \in consumer
                  THEN [msg EXCEPT ![p][j] = "acked"] ELSE msg
        /\ UNCHANGED faults
     \/ found /\ w \in Unreliable /\ Fault /\ UNCHANGED msg
  /\ Ends(w)
  /\ UNCHANGED <<procVars, consumer, claimTag, claim, reward, proof, premature>>

\* The worker or the Edge's request dies.
Abandon(w) ==
  /\ worker[w].pc # "idle"
  /\ w \in Unreliable /\ Fault
  /\ Ends(w)
  /\ UNCHANGED <<procVars, queueVars, storeVars, credits, premature>>

-----------------------------------------------------------------------------
Worker(w) ==
  \/ get_message_if_exists_dqi_worker(w)
  \/ set_proof_claim_tag(w) \/ set_job_claim(w)
  \/ resolve_unique_pending_id_for_submitted_job(w)
  \/ verify_zk_proof(w) \/ set_proof_miner_rewards_tree_value(w)
  \/ ReadBack(w) \/ put_proof_bytes_for_job_id(w) \/ report_job_completed(w)

Processor ==
  \/ publish_worker_jobs \/ wait_for_jobs_completion \/ wait_for_level_proofs
  \/ FetchProof \/ FetchReward \/ commit_state \/ delete_worker_queue_consumer

JetStream ==
  \E p \in {gen} \cap Gens, j \in Jobs :
    ConsumerSees(p, j) \/ (~Held(p, j) /\ AckWaitExpires(p, j))

Next ==
  \/ set_new_unique_ids \/ Processor \/ TimedOut
  \/ \E w \in Workers : Worker(w) \/ Abandon(w)
  \/ \E p \in Gens, j \in Jobs : ConsumerSees(p, j) \/ AckWaitExpires(p, j)

\* The processor's task and every worker's loop go on, and JetStream delivers
\* and redelivers. Nothing is assumed of timeouts, faults and new blocks.
Fairness ==
  /\ WF_vars(Processor)
  /\ \A w \in Workers : WF_vars(Worker(w))
  /\ WF_vars(JetStream)

Spec == Init /\ [][Next]_vars /\ Fairness

-----------------------------------------------------------------------------
\* The variables keep their types: statuses of the processor, of messages and
\* of requests are the ones the code and JetStream know.
TypeOK ==
  /\ gen \in 0 .. MaxGen /\ latest \in 0 .. MaxCheckpoint /\ Len(committed) = latest
  /\ pc \in {"idle", "parked", "publish", "barrier", "level", "proof", "reward", "commit",
             "cleanup"}
  /\ stage \in 0 .. (IF gen = 0 THEN 0 ELSE Len(Stages[gen]))
  /\ msg \in [Gens -> [Jobs -> {"unsent", "published", "visible", "acked"} \cup Unacked]]
  /\ consumer \subseteq 1 .. gen /\ kv \subseteq (1 .. gen) \X Jobs
  /\ \A p \in Gens, j \in Jobs : {claimTag[p][j], claim[p][j]} \subseteq {<<w>> : w \in Workers} \cup {None}
  /\ credits \subseteq Workers \X Workers
  /\ faults + premature \in 0 .. MaxFaults

Running == pc \notin {"idle", "parked"}

\* A block never goes on from a stage without the proofs: while an attempt
\* runs, the proofs of all the stages it has left behind can be read and prove
\* what its own generation asked for, and so can those of the latest committed
\* checkpoint, whatever commit_state has deleted and whichever late submission
\* the lookback has resolved to another generation.
StagesKeepTheirProofs ==
  /\ Running /\ pc # "cleanup" =>
       \A k \in 1 .. stage - 1 : \A j \in StageJobs(gen, k) :
         proof[gen][j] # None /\ proof[gen][j][1] = Witness(j, gen)
  /\ latest > 0 =>
       \A j \in Range(JobSeq[committed[latest].gen]) : proof[committed[latest].gen][j] # None

\* The queue barrier is never passed early: when the processor has left the
\* barrier of a stage, every job of it was acknowledged, although JetStream's
\* counts lag behind the publication and fall to zero between two deliveries.
BarrierCountsAcks ==
  /\ pc \in {"level", "proof", "reward", "commit"} =>
       \A j \in StageJobs(gen, stage) : msg[gen][j] = "acked"
  /\ Running => \A k \in 1 .. stage - 1 : \A j \in StageJobs(gen, k) : msg[gen][j] = "acked"

LateTransition(p) ==
  \E w \in Workers : worker[w].pc = "ack" /\ worker[w].now = p /\ worker[w].at < p

\* Only successful jobs are acknowledged: a step that acknowledges a job finds
\* its proof stored. The one exception the code has is the transition, whose id
\* is the same in every attempt at a checkpoint: the submission of an older
\* attempt, resolved to that attempt, acknowledges the message of the new one.
AckNeedsProof ==
  [][\A p \in Gens, j \in Jobs :
       msg'[p][j] = "acked" /\ msg[p][j] # "acked" =>
         proof[p][j] # None \/ (j = "root" /\ LateTransition(p))]_vars

\* Reputation goes to the worker whose proof was accepted, as long as no job
\* was delivered again while somebody worked on it: the claim is read before
\* the tag is checked, and set after it.
CreditGoesToSubmitter ==
  premature = 0 => \A c \in credits : c[1] = c[2]

\* The rewards of acknowledged jobs below the transition form one tree, as long as no job was
\* delivered again while somebody worked on it: the stored proof commits to the
\* stored reward value of its job, the tag tree holds the same value, and it
\* was computed from the stored values of the children.
RewardTreeConsistent ==
  premature = 0 =>
    \A p \in Gens, j \in Jobs \ {"root"} :
      msg[p][j] = "acked" /\ proof[p][j] # None =>
        /\ proof[p][j][2] = reward[p][j] /\ tagTree[p][j] = reward[p][j]
        /\ reward[p][j][2] = ChildValues(p, j)

\* Whatever the overlap of claims, a committed checkpoint holds the reward
\* root that its transition proof commits to.
CommittedRootIsProved ==
  \A c \in 1 .. latest :
    committed[c].proof[2] = committed[c].reward /\ target[committed[c].gen] = c

\* A job of the running attempt that no delivery can finish: acknowledged
\* without a proof, or its stored proof and reward value come from two claims.
Blocked ==
  /\ gen > 0
  /\ \E j \in Jobs : \/ msg[gen][j] = "acked" /\ proof[gen][j] = None
                     \/ proof[gen][j] # None /\ proof[gen][j][2] # reward[gen][j]

\* An attempt goes on until it commits or fails, or it is blocked: lost
\* workers, lost acknowledgements and failed submissions are all repaired by
\* redelivery.
AttemptEndsUnlessBlocked == []<>(~Running \/ Blocked)
=============================================================================
