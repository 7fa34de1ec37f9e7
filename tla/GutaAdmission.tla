---------------------------- MODULE GutaAdmission ----------------------------
(***************************************************************************)
(* How a Realm's GUTA update (a new root of the Realm's subtree of the     *)
(* global user tree) travels from the Coordinator Edge into a block:       *)
(* concurrent submit_guta requests at the Edge, the per-generation queues, *)
(* the GUTA gatherer task with its tree and its two handoff drains, and    *)
(* the processor that rotates generations and commits checkpoints, with    *)
(* crashes and restarts of the processor.                                  *)
(*                                                                         *)
(* One Realm: all keys of the admission path are per Realm. An update is   *)
(* named by its request and the root it produces by the same name.         *)
(* Commits are atomic here; CoordinatorCommit has their steps.             *)
(***************************************************************************)
EXTENDS Naturals, Sequences

CONSTANTS Requests,       \* submit_guta calls
          InitialRoot,    \* the Realm's root at genesis
          GUTA_IN_FLIGHT_WINDOW_CHECKPOINTS,
          MaxCheckpoint,  \* bound: last checkpoint committed
          MaxGeneration,  \* bound: last generation allocated
          MaxRestart      \* bound: processor crashes explored

ASSUME AdmissionAssumption ==
  /\ InitialRoot \notin Requests
  /\ GUTA_IN_FLIGHT_WINDOW_CHECKPOINTS \in Nat
  /\ MaxCheckpoint \in Nat /\ MaxGeneration \in Nat /\ MaxRestart \in Nat

Root == Requests \cup {InitialRoot}
Ckpt == 0 .. MaxCheckpoint
Generation == 0 .. MaxGeneration

VARIABLES
  committed,    \* latest_checkpoint_id
  root,         \* the Realm's root at the committed checkpoint
  allocated,    \* last generation (pending id) allocated in the database
  advertised,   \* gathering generation in the temp database
  claimed,      \* generations with a submitted status for the Realm
  inFlight,     \* the Realm's in-flight record, as a set of at most one
  queue,        \* generation -> updates published and not fetched
  pc,           \* the processor
  processing,   \* the generation the current block processes
  gathering,    \* the generation the Edge is told to use
  batch,        \* updates of the block being proved
  gpc,          \* the gatherer task
  key,          \* generation of the queue the gatherer reads
  nextKey,      \* the key it takes over after the handoff
  builder,      \* updates given to the current builder
  tree,         \* the Realm's leaf in the gatherer's tree
  rpc,          \* request -> next step at the Edge
  req,          \* request -> what it has read: gen, ckpt, old, seen
  committedAs,  \* request -> checkpoint its update was committed in, 0 if none
  restarts

durable == <<committed, root, allocated>>
temp == <<advertised, claimed, inFlight>>
processor == <<pc, processing, gathering, batch>>
gatherer == <<gpc, key, nextKey, builder, tree>>
edge == <<rpc, req>>
vars == <<durable, temp, queue, processor, gatherer, edge, committedAs, restarts>>

NewRequest == [gen |-> 0, ckpt |-> 0, old |-> InitialRoot, seen |-> {}]

\* A fresh Coordinator after new_init: generation 0 everywhere, the gatherers
\* not created yet.
Init ==
  /\ committed = 0 /\ root = InitialRoot /\ allocated = 0
  /\ advertised = 0 /\ claimed = {} /\ inFlight = {}
  /\ queue = [g \in Generation |-> << >>]
  /\ pc = "start" /\ processing = 0 /\ gathering = 0 /\ batch = << >>
  /\ gpc = "stopped" /\ key = 0 /\ nextKey = 0 /\ builder = << >> /\ tree = InitialRoot
  /\ rpc = [r \in Requests |-> "read_generation"]
  /\ req = [r \in Requests |-> NewRequest]
  /\ committedAs = [r \in Requests |-> 0]
  /\ restarts = 0

-----------------------------------------------------------------------------
(* The Edge: submit_guta_internal, one action per await.                   *)

ReadGeneration(r) ==
  /\ rpc[r] = "read_generation"
  /\ req' = [req EXCEPT ![r].gen = advertised]
  /\ rpc' = [rpc EXCEPT ![r] = "check_state"]
  /\ UNCHANGED <<durable, temp, queue, processor, gatherer, committedAs, restarts>>

\* An update whose old root is not the committed one is rejected, so the
\* request's old root is the committed root.
ensure_guta_matches_current_coordinator_state(r) ==
  /\ rpc[r] = "check_state"
  /\ req' = [req EXCEPT ![r].ckpt = committed, ![r].old = root]
  /\ rpc' = [rpc EXCEPT ![r] = "read_in_flight"]
  /\ UNCHANGED <<durable, temp, queue, processor, gatherer, committedAs, restarts>>

\* Mutant: the window ends one checkpoint after acceptance.
InFlightShortWindow(r) ==
  \E record \in inFlight : /\ record.old = req[r].old
                           /\ req[r].ckpt < record.at + 1

AlreadyInFlight(r) ==
  \E record \in inFlight :
    /\ record.old = req[r].old
    /\ req[r].ckpt < record.at + GUTA_IN_FLIGHT_WINDOW_CHECKPOINTS

\* The request returns an error and its locals are gone.
Reject(r) ==
  /\ rpc' = [rpc EXCEPT ![r] = "rejected"]
  /\ req' = [req EXCEPT ![r] = NewRequest]

get_guta_in_flight(r) ==
  /\ rpc[r] = "read_in_flight"
  /\ IF AlreadyInFlight(r)
       THEN Reject(r)
       ELSE /\ req' = [req EXCEPT ![r].seen = inFlight]
            /\ rpc' = [rpc EXCEPT ![r] = "claim_status"]
  /\ UNCHANGED <<durable, temp, queue, processor, gatherer, committedAs, restarts>>

\* Mutant: the claim is overwritten instead of put if absent.
claim_status_always(r) ==
  /\ rpc[r] = "claim_status"
  /\ claimed' = claimed \cup {req[r].gen}
  /\ rpc' = [rpc EXCEPT ![r] = "claim_in_flight"]
  /\ UNCHANGED <<durable, advertised, inFlight, queue, processor, gatherer, req,
                 committedAs, restarts>>

\* Certificate and proof are valid; one claim per generation and Realm.
put_submitted_status_if_absent(r) ==
  /\ rpc[r] = "claim_status"
  /\ claimed' = claimed \cup {req[r].gen}
  /\ IF req[r].gen \in claimed
       THEN Reject(r)
       ELSE rpc' = [rpc EXCEPT ![r] = "claim_in_flight"] /\ UNCHANGED req
  /\ UNCHANGED <<durable, advertised, inFlight, queue, processor, gatherer,
                 committedAs, restarts>>

\* Mutant: the record is written without comparing.
claim_without_compare(r) ==
  /\ rpc[r] = "claim_in_flight"
  /\ inFlight' = {[old |-> req[r].old, new |-> r, at |-> req[r].ckpt]}
  /\ rpc' = [rpc EXCEPT ![r] = "publish"]
  /\ UNCHANGED <<durable, advertised, claimed, queue, processor, gatherer, req,
                 committedAs, restarts>>

\* Mutant: the record is kept beside the one that was read.
claim_keeps_old_record(r) ==
  /\ rpc[r] = "claim_in_flight"
  /\ IF inFlight = req[r].seen
       THEN /\ inFlight' = inFlight \cup {[old |-> req[r].old, new |-> r, at |-> req[r].ckpt]}
            /\ rpc' = [rpc EXCEPT ![r] = "publish"] /\ UNCHANGED req
       ELSE Reject(r) /\ UNCHANGED inFlight
  /\ UNCHANGED <<durable, advertised, claimed, queue, processor, gatherer,
                 committedAs, restarts>>

\* Compare-and-set against the record that was read.
claim_guta_in_flight(r) ==
  /\ rpc[r] = "claim_in_flight"
  /\ IF inFlight = req[r].seen
       THEN /\ inFlight' = {[old |-> req[r].old, new |-> r, at |-> req[r].ckpt]}
            /\ rpc' = [rpc EXCEPT ![r] = "publish"] /\ UNCHANGED req
       ELSE Reject(r) /\ UNCHANGED inFlight
  /\ UNCHANGED <<durable, advertised, claimed, queue, processor, gatherer,
                 committedAs, restarts>>

\* Mutant: the generation is read again when the update is published.
publish_to_current_generation(r) ==
  /\ rpc[r] = "publish"
  /\ queue' = [queue EXCEPT ![advertised] = Append(@, r)]
  /\ rpc' = [rpc EXCEPT ![r] = "published"]
  /\ UNCHANGED <<durable, temp, processor, gatherer, req, committedAs, restarts>>

publish_ephemeral_queue_item_owned(r) ==
  /\ rpc[r] = "publish"
  /\ queue' = [queue EXCEPT ![req[r].gen] = Append(@, r)]
  /\ rpc' = [rpc EXCEPT ![r] = "published"]
  /\ UNCHANGED <<durable, temp, processor, gatherer, req, committedAs, restarts>>

-----------------------------------------------------------------------------
(* The gatherer task: gatherer_runner_for_tree with the GUTA builder.      *)

\* Between commands the queue of the current key is dumped into the builder.
DumpQueue ==
  /\ gpc = "gather" /\ queue[key] # << >>
  /\ builder' = builder \o queue[key]
  /\ queue' = [queue EXCEPT ![key] = << >>]
  /\ UNCHANGED <<durable, temp, processor, gpc, key, nextKey, tree, edge, committedAs,
                 restarts>>

\* Finalize arrives: the new key is read, then the old queue drained once.
HandoffFirstDrain ==
  /\ gpc = "gather" /\ pc = "finalize"
  /\ builder' = builder \o queue[key]
  /\ queue' = [queue EXCEPT ![key] = << >>]
  /\ nextKey' = gathering
  /\ gpc' = "drain"
  /\ UNCHANGED <<durable, temp, processor, key, tree, edge, committedAs, restarts>>

\* Mutant: the planner does not compare the old leaf.
LeavesUnchecked(items) == items \in Seq(Requests)

\* The planner's leaf check over the updates in order: each update starts
\* from the leaf that the tree holds after the ones before it.
LeavesMatch(items) ==
  \A i \in 1 .. Len(items) :
    req[items[i]].old = IF i = 1 THEN tree ELSE items[i - 1]

LeafAfter(items) == IF items = << >> THEN tree ELSE items[Len(items)]

\* Second drain, finalize of the builder and the reply to the processor. A
\* stale update makes finalize fail: gatherer and processor stop.
HandoffFinalize ==
  /\ gpc = "drain"
  /\ queue' = [queue EXCEPT ![key] = << >>]
  /\ builder' = builder \o queue[key]
  /\ IF LeavesMatch(builder')
       THEN /\ tree' = LeafAfter(builder') /\ batch' = builder'
            /\ gpc' = "tail" /\ pc' = "prove"
       ELSE /\ gpc' = "stopped" /\ pc' = "parked"
            /\ UNCHANGED <<tree, batch>>
  /\ UNCHANGED <<durable, temp, processing, gathering, key, nextKey, edge,
                 committedAs, restarts>>

\* After the reply the rest of the old queue is fetched and discarded; the
\* next builder reads the queue of the generation that is now gathering.
DiscardTail ==
  /\ gpc = "tail"
  /\ queue' = [queue EXCEPT ![key] = << >>]
  /\ key' = nextKey
  /\ builder' = << >>
  /\ gpc' = "gather"
  /\ UNCHANGED <<durable, temp, processor, nextKey, tree, edge, committedAs,
                 restarts>>

-----------------------------------------------------------------------------
(* The processor: rotation, proving, commit, crash and restart.            *)

\* set_new_unique_ids, first write: the next generation in the database.
inc_unique_pending_id ==
  /\ pc \in {"idle", "start"}
  /\ allocated < MaxGeneration /\ committed < MaxCheckpoint
  /\ allocated' = allocated + 1
  /\ pc' = IF pc = "idle" THEN "rotate" ELSE "start_rotate"
  /\ UNCHANGED <<committed, root, temp, queue, processing, gathering, batch,
                 gatherer, edge, committedAs, restarts>>

\* The rest of set_new_unique_ids. At startup the gatherers are created next,
\* in a block they are told to finalize.
set_new_unique_ids ==
  /\ pc \in {"rotate", "start_rotate"}
  /\ processing' = gathering
  /\ gathering' = allocated
  /\ advertised' = allocated
  /\ IF pc = "rotate"
       THEN pc' = "finalize" /\ UNCHANGED gpc
       ELSE pc' = "idle" /\ gpc' = "gather"
  /\ UNCHANGED <<durable, claimed, inFlight, queue, batch, key, nextKey, builder,
                 tree, edge, committedAs, restarts>>

\* The block is proved and committed: the Edge sees checkpoint and root.
commit_state ==
  /\ pc = "prove"
  /\ committed' = committed + 1
  /\ root' = IF batch = << >> THEN root ELSE batch[Len(batch)]
  /\ committedAs' = [r \in Requests |->
                       IF \E i \in 1 .. Len(batch) : batch[i] = r
                         THEN committed + 1 ELSE committedAs[r]]
  /\ batch' = << >>
  /\ pc' = "idle"
  /\ UNCHANGED <<allocated, temp, queue, processing, gathering, gatherer, edge,
                 restarts>>

\* The processor dies with its gatherers; queues and databases survive.
Crash ==
  /\ pc # "down" /\ restarts < MaxRestart
  /\ restarts' = restarts + 1
  /\ pc' = "down" /\ gpc' = "stopped"
  /\ batch' = << >> /\ builder' = << >>
  /\ UNCHANGED <<durable, temp, queue, processing, gathering, key, nextKey, tree,
                 edge, committedAs>>

\* new_init and the tree load: the last allocated generation (0 before the
\* first block) becomes the id state, the gatherers' queue key and what the
\* Edge is told, until init rotates.
Restart ==
  /\ pc = "down"
  /\ gathering' = IF committed = 0 THEN 0 ELSE allocated
  /\ processing' = gathering' /\ key' = gathering' /\ advertised' = gathering'
  /\ tree' = root
  /\ pc' = "start"
  /\ UNCHANGED <<durable, claimed, inFlight, queue, batch, gpc, nextKey, builder,
                 edge, committedAs, restarts>>

SubmitGuta(r) ==
  \/ ReadGeneration(r) \/ ensure_guta_matches_current_coordinator_state(r)
  \/ get_guta_in_flight(r) \/ put_submitted_status_if_absent(r)
  \/ claim_guta_in_flight(r) \/ publish_ephemeral_queue_item_owned(r)

Gather == DumpQueue \/ HandoffFirstDrain \/ HandoffFinalize \/ DiscardTail

Process == \/ inc_unique_pending_id \/ set_new_unique_ids \/ commit_state
           \/ Crash \/ Restart

Next == (\E r \in Requests : SubmitGuta(r)) \/ Gather \/ Process

Spec == Init /\ [][Next]_vars

-----------------------------------------------------------------------------
(* Properties.                                                             *)

Record == [old : Root, new : Requests, at : Ckpt]

\* Every variable keeps its type.
TypeOK ==
  /\ committed \in Ckpt /\ root \in Root /\ allocated \in Generation
  /\ advertised \in Generation /\ claimed \subseteq Generation
  /\ inFlight \subseteq Record /\ (\A a, b \in inFlight : a = b)
  /\ queue \in [Generation -> Seq(Requests)]
  /\ pc \in {"idle", "rotate", "finalize", "prove", "parked", "down", "start",
             "start_rotate"}
  /\ processing \in Generation /\ gathering \in Generation
  /\ batch \in Seq(Requests)
  /\ gpc \in {"gather", "drain", "tail", "stopped"}
  /\ key \in Generation /\ nextKey \in Generation
  /\ builder \in Seq(Requests) /\ tree \in Root
  /\ rpc \in [Requests -> {"read_generation", "check_state", "read_in_flight",
                           "claim_status", "claim_in_flight", "publish",
                           "published", "rejected"}]
  /\ req \in [Requests -> [gen : Generation, ckpt : Ckpt, old : Root,
                           seen : SUBSET Record]]
  /\ committedAs \in [Requests -> Ckpt]
  /\ restarts \in 0 .. MaxRestart

\* A copy accepted at committed checkpoint c commits as c + 1 or c + 2, or
\* never, whatever delays the request and whichever generation it was queued
\* in, also over a restart of the processor: what the length of the in-flight
\* window rests on.
AcceptedCommitsWithinTwo ==
  \A r \in Requests :
    committedAs[r] # 0 => committedAs[r] \in {req[r].ckpt + 1, req[r].ckpt + 2}

\* The roots committed for the Realm form one chain: no two committed updates
\* start from the same root (the planner's leaf check).
CommittedUpdatesChain ==
  \A r, s \in Requests :
    (r # s /\ committedAs[r] # 0 /\ committedAs[s] # 0) => req[r].old # req[s].old

\* No batch holds two updates of the Realm: the status claim of a generation
\* and the retirement of drained queues keep every builder at one update.
OneUpdatePerBatch == Len(builder) <= 1 /\ Len(batch) <= 1

Accepted(r) == rpc[r] \in {"publish", "published"}

\* The request read the committed state before another update was accepted at
\* a later checkpoint, and read the in-flight record after that.
Overtaken(r) == \E record \in req[r].seen : record.at > req[r].ckpt

\* A stale update reaches the planner only after some request was accepted
\* although it had been overtaken between its two reads: while no claim is
\* made by such a request, the in-flight record stops every second copy. (The
\* stale update itself need not be the overtaken one: the overtaken claim
\* replaces the record of a live update, which then no longer stops a copy.)
StaleOnlyWhenOvertaken ==
  pc = "parked" => \E r \in Requests : Accepted(r) /\ Overtaken(r)

\* What the Edge says of its admission: one accepted copy per Realm and old
\* root at a time, so that no second copy in a later batch fails the planner's
\* leaf check and parks the Coordinator.
NoStaleUpdateInBatch == pc # "parked"

\* What the gatherer documentation says of rotation: after it, the generation
\* that was gathering is the one processed, and finalize consumes it.
FinalizeConsumesProcessing == gpc = "drain" => key = processing
=============================================================================
