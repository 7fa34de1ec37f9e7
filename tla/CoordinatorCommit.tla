-------------------------- MODULE CoordinatorCommit --------------------------
(***************************************************************************)
(* The block lifecycle of the Coordinator, the single writer of the        *)
(* checkpoint chain: startup (new_init, genesis, recovery check, tree      *)
(* load), rotation of the pending ids, gathering, proving, and the         *)
(* sequence of separate database writes of commit_state, with a crash      *)
(* possible between any two of them.                                       *)
(*                                                                         *)
(* A block attempt is identified by the pending id it processes; a record  *)
(* is modelled by the pending id of the attempt that wrote it, a tree by   *)
(* the set of attempts whose updates it holds, and a chain hash by the     *)
(* sequence of attempts it commits to.                                     *)
(***************************************************************************)
EXTENDS Integers, Sequences, FiniteSets

CONSTANTS MaxCheckpoint, \* bound: last checkpoint id explored
          MaxPending,    \* bound: last pending id allocated
          MaxCrash,      \* bound: crashes and restarts explored
          Batches,       \* which trees a gathered batch may touch
          GenesisParts   \* trees that the genesis block writes

\* The three trees a block updates.
Part == {"contract", "user", "guta"}

ASSUME BoundsAssumption == /\ MaxCheckpoint \in Nat
                           /\ MaxPending \in Nat
                           /\ MaxCrash \in Nat
ASSUME BatchesAssumption == Batches \subseteq SUBSET Part
\* Genesis registers the validator and relayer accounts.
ASSUME GenesisAssumption == /\ GenesisParts \subseteq Part
                            /\ "user" \in GenesisParts

Ckpt == 0 .. MaxCheckpoint
Pending == 0 .. MaxPending
NoId == -1

VARIABLES
  \* durable: counters, mappings and markers in the database
  latest,          \* latest_checkpoint_id, the commit marker
  pendingCounter,  \* the pending id counter
  procMapped,      \* pending ids that have a processor id
  p2c,             \* pending id -> checkpoint id
  c2p,             \* checkpoint id -> pending id
  transition,      \* checkpoint id -> chain hash of the stored proof
  rows,            \* row kind -> checkpoint id -> attempts that wrote rows
  roots,           \* checkpoint id -> global state roots
  records,         \* record kind -> checkpoint id -> attempt that wrote it
  latestBlock,     \* checkpoint id of the latest L2 block state
  ring,            \* checkpoint id -> leaf in the checkpoint tree backup
  ringNext,        \* next_backup_checkpoint_id
  backup,          \* pending id -> batch in the gatherer backup files
  \* volatile: the processor
  pc,              \* next step of the processor
  step,            \* index of the next row or record write
  ckptId,          \* ids.checkpoint_id
  processing,      \* ids.unique_pending_id
  gathering,       \* ids.gathering_unique_pending_id
  lastRoots,       \* last_committed.checkpoint_state_roots
  lastChain,       \* last_committed.last_chain_hash
  l2Loaded,        \* last_committed.l2_state holds a block's state
  trees,           \* the gatherers' in-memory trees
  job,             \* the block being built or committed
  crashes

maps == <<p2c, c2p, transition>>
ids == <<ckptId, processing, gathering>>
lastCommitted == <<lastRoots, lastChain, l2Loaded>>
durable == <<latest, pendingCounter, procMapped, maps, rows, roots, records,
             latestBlock, ring, ringNext, backup>>
vars == <<durable, pc, step, ids, lastCommitted, trees, job, crashes>>

\* Optional writes of commit_state in order: the data rows and the tree nodes
\* of each part the block touches. Data rows that the database keys by pending
\* id or public key are filed under the checkpoint they were written for.
RowOrder == <<"contract_data", "contract_tree", "user_data", "user_tree",
              "guta_tree", "guta_data">>
RowKind == {"contract_data", "contract_tree", "user_data", "user_tree",
            "guta_tree", "guta_data"}
PartOf == [contract_data |-> "contract", contract_tree |-> "contract",
           user_data |-> "user", user_tree |-> "user",
           guta_tree |-> "guta", guta_data |-> "guta"]
TreeRow == [contract |-> "contract_tree", user |-> "user_tree", guta |-> "guta_tree"]

\* Unconditional per-checkpoint writes of commit_state, in order.
RecordOrder == <<"state_roots", "l2_block_state", "l2_latest", "leaf_data",
                 "tree_leaf", "root_to_id">>
RecordKind == {"state_roots", "l2_block_state", "leaf_data", "tree_leaf",
               "root_to_id"}

GenesisChain == <<0>>
GenesisRoots == [k \in Part |-> IF k \in GenesisParts THEN {0} ELSE {}]
NoRoots == [k \in Part |-> {}]

NoJob == [ckpt |-> NoId, pending |-> NoId, parts |-> {}, start |-> NoRoots,
          end |-> NoRoots, then |-> "idle"]

-----------------------------------------------------------------------------
(* Reads of the database.                                                  *)

\* Pending ids 1..counter that have a processor id.
Mapped == {p \in procMapped : 1 <= p /\ p <= pendingCounter}

get_latest_mapped_unique_pending_id ==
  IF pendingCounter = 0
    THEN 0
    ELSE IF Mapped = {}
           THEN NoId
           ELSE CHOOSE p \in Mapped : \A q \in Mapped : q <= p

get_database_check_state ==
  LET last == get_latest_mapped_unique_pending_id
  IN  IF last = NoId
        THEN IF latest = 0 THEN "NeedsGenesis" ELSE "Inconsistent"
      ELSE IF p2c[last] = NoId
        THEN IF latest = 0 THEN "NeedsGenesis" ELSE "Ready"
      ELSE IF p2c[last] = latest THEN "Ready"
      ELSE IF p2c[last] = latest + 1 THEN "NeedsRecovery"
      ELSE "Inconsistent"

get_checkpoint_chain_hash(c) == IF c = 0 THEN GenesisChain ELSE transition[c]

\* The nodes of tree k visible at version c.
TreeAt(k, c) == UNION {rows[TreeRow[k]][d] : d \in {e \in Ckpt : e <= c}}

-----------------------------------------------------------------------------
(* Startup.                                                                *)

Init ==
  /\ latest = 0 /\ pendingCounter = 0 /\ procMapped = {}
  /\ p2c = [p \in Pending |-> NoId]
  /\ c2p = [c \in Ckpt |-> NoId]
  /\ transition = [c \in Ckpt |-> << >>]
  /\ rows = [k \in RowKind |-> [c \in Ckpt |-> {}]]
  /\ roots = [c \in Ckpt |-> NoRoots]
  /\ records = [k \in RecordKind |-> [c \in Ckpt |-> NoId]]
  /\ latestBlock = NoId
  /\ ring = [c \in Ckpt |-> NoId] /\ ringNext = 0
  /\ backup = [p \in Pending |-> {}]
  /\ pc = "down" /\ step = 1
  /\ ckptId = 0 /\ processing = 0 /\ gathering = 0
  /\ lastRoots = NoRoots /\ lastChain = << >> /\ l2Loaded = FALSE
  /\ trees = NoRoots /\ job = NoJob /\ crashes = 0

\* Mutant: the sync takes one leaf past the marker.
sync_past_marker ==
  IF records["tree_leaf"][latest] = NoId
    THEN UNCHANGED <<ring, ringNext>>
    ELSE LET upto == IF latest < MaxCheckpoint /\ records["tree_leaf"][latest + 1] # NoId
                       THEN latest + 1 ELSE latest
         IN  /\ ring' = [c \in Ckpt |-> IF ringNext <= c /\ c <= upto
                                          THEN records["tree_leaf"][c] ELSE ring[c]]
             /\ ringNext' = IF ringNext <= upto THEN upto + 1 ELSE ringNext

\* sync_from_database(latest): append the committed leaves the ring lacks;
\* a zero leaf at checkpoint 0 leaves the ring empty.
sync_from_database ==
  IF records["tree_leaf"][latest] = NoId
    THEN UNCHANGED <<ring, ringNext>>
    ELSE /\ ring' = [c \in Ckpt |-> IF ringNext <= c /\ c <= latest
                                      THEN records["tree_leaf"][c] ELSE ring[c]]
         /\ ringNext' = IF ringNext <= latest THEN latest + 1 ELSE ringNext

\* Mutant: the pending id is read back also when nothing is committed.
new_init_reads_pending_at_zero ==
  /\ pc = "down"
  /\ ckptId' = latest
  /\ processing' = get_latest_mapped_unique_pending_id
  /\ gathering' = processing'
  /\ sync_from_database
  /\ lastRoots' = IF latest = 0 THEN GenesisRoots ELSE roots[latest]
  /\ lastChain' = get_checkpoint_chain_hash(latest)
  /\ l2Loaded' = (latest # 0)
  /\ pc' = "ensure_genesis"
  /\ UNCHANGED <<latest, pendingCounter, procMapped, maps, rows, roots, records,
                 latestBlock, backup, step, trees, job, crashes>>

new_init ==
  /\ pc = "down"
  /\ ckptId' = latest
  /\ processing' = IF latest = 0 THEN 0 ELSE get_latest_mapped_unique_pending_id
  /\ gathering' = processing'
  /\ sync_from_database
  /\ lastRoots' = IF latest = 0 THEN GenesisRoots ELSE roots[latest]
  /\ lastChain' = get_checkpoint_chain_hash(latest)
  /\ l2Loaded' = (latest # 0)
  /\ pc' = "ensure_genesis"
  /\ UNCHANGED <<latest, pendingCounter, procMapped, maps, rows, roots, records,
                 latestBlock, backup, step, trees, job, crashes>>

GenesisJob(then) ==
  [ckpt |-> 0, pending |-> 0, parts |-> GenesisParts, start |-> GenesisRoots,
   end |-> GenesisRoots, then |-> then]

\* ensure_genesis_applied, first call, before the trees are loaded.
EnsureGenesis ==
  /\ pc = "ensure_genesis"
  /\ LET state == get_database_check_state
     IN  /\ job' = IF state = "NeedsGenesis" THEN GenesisJob("load") ELSE job
         /\ pc' = CASE state = "NeedsGenesis" -> "commit"
                    [] state = "Inconsistent" -> "down"
                    [] state \in {"Ready", "NeedsRecovery"} -> "load"
  /\ UNCHANGED <<durable, step, ids, lastCommitted, trees, crashes>>

\* The trees are read at version ids.checkpoint_id + 1.
load_coordinator_memory_trees_from_db ==
  /\ pc = "load"
  /\ trees' = [k \in Part |-> TreeAt(k, ckptId + 1)]
  /\ pc' = "init"
  /\ UNCHANGED <<durable, step, ids, lastCommitted, job, crashes>>

\* The block rebuilt from the gatherer backups of the interrupted attempt.
BackupJob ==
  LET parts == backup[processing]
  IN  [ckpt |-> ckptId + 1, pending |-> processing, parts |-> parts,
       start |-> trees,
       end |-> [k \in Part |-> IF k \in parts THEN trees[k] \cup {processing}
                                              ELSE trees[k]],
       then |-> "rotate_init"]

\* init_with_setup_and_genesis up to its rotation: genesis again if it is
\* still needed, or the restore from backups, whose start roots must match.
InitCheck ==
  /\ pc = "init"
  /\ LET state == get_database_check_state
     IN  /\ job' = CASE state = "NeedsGenesis" -> GenesisJob("rotate_init")
                     [] state = "NeedsRecovery" -> BackupJob
                     [] state \in {"Ready", "Inconsistent"} -> job
         /\ trees' = IF state = "NeedsRecovery" THEN BackupJob.end ELSE trees
         /\ pc' = CASE state = "NeedsGenesis" -> "commit"
                    [] state = "NeedsRecovery" ->
                         IF trees = lastRoots THEN "commit" ELSE "down"
                    [] state = "Inconsistent" -> "down"
                    [] state = "Ready" -> "rotate_init"
  /\ UNCHANGED <<durable, step, ids, lastCommitted, crashes>>

-----------------------------------------------------------------------------
(* Rotation of the pending ids: the counter first, then the processor id.  *)

inc_unique_pending_id ==
  /\ pc \in {"rotate_init", "idle"}
  /\ pendingCounter < MaxPending
  /\ ckptId < MaxCheckpoint
  /\ pendingCounter' = pendingCounter + 1
  /\ pc' = IF pc = "idle" THEN "rotated" ELSE "rotated_init"
  /\ UNCHANGED <<latest, procMapped, maps, rows, roots, records, latestBlock,
                 ring, ringNext, backup, step, ids, lastCommitted, trees, job,
                 crashes>>

\* Mutant: the rotation allocates a generation but keeps processing the old one.
rotation_keeps_processing ==
  /\ pc \in {"rotated_init", "rotated"}
  /\ procMapped' = procMapped \cup {pendingCounter}
  /\ gathering' = pendingCounter
  /\ pc' = IF pc = "rotated" THEN "gather" ELSE "idle"
  /\ UNCHANGED <<latest, pendingCounter, maps, rows, roots, records,
                 latestBlock, ring, ringNext, backup, step, ckptId, processing,
                 lastCommitted, trees, job, crashes>>

set_new_unique_ids ==
  /\ pc \in {"rotated_init", "rotated"}
  /\ procMapped' = procMapped \cup {pendingCounter}
  /\ processing' = gathering
  /\ gathering' = pendingCounter
  /\ pc' = IF pc = "rotated" THEN "gather" ELSE "idle"
  /\ UNCHANGED <<latest, pendingCounter, maps, rows, roots, records,
                 latestBlock, ring, ringNext, backup, step, ckptId,
                 lastCommitted, trees, job, crashes>>

-----------------------------------------------------------------------------
(* process_block up to commit_state.                                       *)

\* The append-only trees must end where last_committed.l2_state says they do
\* when a gatherer creates its builder (next user id, next contract id).
BuilderAccepts ==
  \A k \in {"user", "contract"} :
    trees[k] = IF l2Loaded THEN lastRoots[k] ELSE {}

\* Finalize the gatherers: their trees take the batch, its items are in the
\* backup files. A builder that was refused has stopped the gatherer.
get_results_from_gatherers ==
  /\ pc = "gather"
  /\ IF BuilderAccepts
       THEN \E parts \in Batches :
              LET after == [k \in Part |->
                              IF k \in parts THEN trees[k] \cup {processing}
                                              ELSE trees[k]]
              IN  /\ trees' = after
                  /\ backup' = [backup EXCEPT ![processing] = parts]
                  /\ job' = [ckpt |-> ckptId + 1, pending |-> processing,
                             parts |-> parts, start |-> trees, end |-> after,
                             then |-> "idle"]
                  /\ pc' = "prove"
       ELSE /\ pc' = "parked"
            /\ UNCHANGED <<trees, backup, job>>
  /\ UNCHANGED <<latest, pendingCounter, procMapped, maps, rows, roots, records,
                 latestBlock, ring, ringNext, step, ids, lastCommitted, crashes>>

\* Mutant: the start roots are not compared.
old_leaf_ignores_roots == ckptId < ringNext /\ ring[ckptId] = lastChain[Len(lastChain)]

\* The leaf of the last checkpoint recomputed from the block's start roots
\* must be the leaf at ids.checkpoint_id of the in-memory checkpoint tree.
OldLeafMatches ==
  /\ ckptId < ringNext
  /\ ring[ckptId] = lastChain[Len(lastChain)]
  /\ job.start = lastRoots

\* Plan the state transition and wait for the workers' proof.
plan_checkpoint_state_transition ==
  /\ pc = "prove"
  /\ pc' = IF OldLeafMatches THEN "commit" ELSE "parked"
  /\ UNCHANGED <<durable, step, ids, lastCommitted, trees, job, crashes>>

-----------------------------------------------------------------------------
(* commit_state, one action per database write.                            *)

\* Mutant: the block extends the chain hash stored under its own id.
chain_of_own_checkpoint ==
  IF job.ckpt = 0 THEN GenesisChain
                  ELSE Append(get_checkpoint_chain_hash(job.ckpt), job.pending)

JobChain == IF job.ckpt = 0 THEN GenesisChain ELSE Append(lastChain, job.pending)

\* Checks before the first write: sequential checkpoint id, unchanged
\* predecessor, current proving generation.
CommitChecks ==
  job.ckpt # 0 => /\ job.ckpt = ckptId + 1
                  /\ job.pending = processing
                  /\ latest = ckptId
                  /\ get_checkpoint_chain_hash(ckptId) = lastChain

\* The checks, then the first write: transition and ZK proof.
SaveTransition ==
  /\ pc = "commit"
  /\ IF CommitChecks
       THEN /\ transition' = [transition EXCEPT ![job.ckpt] = JobChain]
            /\ pc' = "map_pending"
       ELSE /\ pc' = "parked"
            /\ UNCHANGED transition
  /\ UNCHANGED <<latest, pendingCounter, procMapped, p2c, c2p, rows, roots,
                 records, latestBlock, ring, ringNext, backup, step, ids,
                 lastCommitted, trees, job, crashes>>

set_unique_pending_id_checkpoint_id_mapping ==
  /\ pc = "map_pending"
  /\ p2c' = [p2c EXCEPT ![job.pending] = job.ckpt]
  /\ pc' = "map_checkpoint"
  /\ UNCHANGED <<latest, pendingCounter, procMapped, c2p, transition, rows,
                 roots, records, latestBlock, ring, ringNext, backup, step, ids,
                 lastCommitted, trees, job, crashes>>

\* Two writes in the code; the second repeats the processor id that the
\* rotation stored, so a crash between them is seen by no reader.
set_checkpoint_id_to_unique_pending_id_mapping ==
  /\ pc = "map_checkpoint"
  /\ c2p' = [c2p EXCEPT ![job.ckpt] = job.pending]
  /\ procMapped' = procMapped \cup {job.pending}
  /\ pc' = "rows"
  /\ step' = 1
  /\ UNCHANGED <<latest, pendingCounter, p2c, transition, rows, roots, records,
                 latestBlock, ring, ringNext, backup, ids, lastCommitted, trees,
                 job, crashes>>

\* Row and node writes, each skipped when the block has nothing for it.
WriteRows ==
  /\ pc = "rows"
  /\ LET kind == RowOrder[step]
     IN  rows' = IF PartOf[kind] \in job.parts
                   THEN [rows EXCEPT ![kind][job.ckpt] = @ \cup {job.pending}]
                   ELSE rows
  /\ IF step < Len(RowOrder)
       THEN step' = step + 1 /\ pc' = "rows"
       ELSE step' = 1 /\ pc' = "records"
  /\ UNCHANGED <<latest, pendingCounter, procMapped, maps, roots, records,
                 latestBlock, ring, ringNext, backup, ids, lastCommitted, trees,
                 job, crashes>>

\* Mutant: the last record is skipped.
last_record_skipped ==
  /\ pc = "records"
  /\ LET kind == RecordOrder[step]
     IN  /\ records' = IF kind \in RecordKind
                         THEN [records EXCEPT ![kind][job.ckpt] = job.pending]
                         ELSE records
         /\ roots' = IF kind = "state_roots"
                       THEN [roots EXCEPT ![job.ckpt] = job.end] ELSE roots
         /\ latestBlock' = IF kind = "l2_latest" THEN job.ckpt ELSE latestBlock
  /\ IF step + 1 < Len(RecordOrder)
       THEN step' = step + 1 /\ pc' = "records"
       ELSE step' = 1 /\ pc' = "marker"
  /\ UNCHANGED <<latest, pendingCounter, procMapped, maps, rows, ring, ringNext,
                 backup, ids, lastCommitted, trees, job, crashes>>

\* Mutant: the records go under the id of the checkpoint the block extends.
records_under_old_id ==
  /\ pc = "records"
  /\ LET kind == RecordOrder[step]
     IN  /\ records' = IF kind \in RecordKind
                         THEN [records EXCEPT ![kind][ckptId] = job.pending]
                         ELSE records
         /\ roots' = IF kind = "state_roots"
                       THEN [roots EXCEPT ![ckptId] = job.end] ELSE roots
         /\ latestBlock' = IF kind = "l2_latest" THEN job.ckpt ELSE latestBlock
  /\ IF step < Len(RecordOrder)
       THEN step' = step + 1 /\ pc' = "records"
       ELSE step' = 1 /\ pc' = "marker"
  /\ UNCHANGED <<latest, pendingCounter, procMapped, maps, rows, ring, ringNext,
                 backup, ids, lastCommitted, trees, job, crashes>>

WriteRecord ==
  /\ pc = "records"
  /\ LET kind == RecordOrder[step]
     IN  /\ records' = IF kind \in RecordKind
                         THEN [records EXCEPT ![kind][job.ckpt] = job.pending]
                         ELSE records
         /\ roots' = IF kind = "state_roots"
                       THEN [roots EXCEPT ![job.ckpt] = job.end] ELSE roots
         /\ latestBlock' = IF kind = "l2_latest" THEN job.ckpt ELSE latestBlock
  /\ IF step < Len(RecordOrder)
       THEN step' = step + 1 /\ pc' = "records"
       ELSE step' = 1 /\ pc' = "marker"
  /\ UNCHANGED <<latest, pendingCounter, procMapped, maps, rows, ring, ringNext,
                 backup, ids, lastCommitted, trees, job, crashes>>

\* Mutant: the marker is set to the next checkpoint id.
marker_skips_one ==
  /\ pc = "marker"
  /\ latest' = IF job.ckpt = MaxCheckpoint THEN job.ckpt ELSE job.ckpt + 1
  /\ pc' = "backup"
  /\ UNCHANGED <<pendingCounter, procMapped, maps, rows, roots, records,
                 latestBlock, ring, ringNext, backup, step, ids, lastCommitted,
                 trees, job, crashes>>

set_latest_checkpoint_id ==
  /\ pc = "marker"
  /\ latest' = job.ckpt
  /\ pc' = "backup"
  /\ UNCHANGED <<pendingCounter, procMapped, maps, rows, roots, records,
                 latestBlock, ring, ringNext, backup, step, ids, lastCommitted,
                 trees, job, crashes>>

\* Sequential append, or the idempotent repeat of the last leaf.
append_checkpoint_leaf_hash ==
  /\ pc = "backup"
  /\ IF job.ckpt = ringNext
       THEN /\ ring' = [ring EXCEPT ![job.ckpt] = job.pending]
            /\ ringNext' = ringNext + 1
            /\ pc' = "memory"
       ELSE /\ pc' = IF job.ckpt = ringNext - 1 /\ ring[job.ckpt] = job.pending
                       THEN "memory" ELSE "parked"
            /\ UNCHANGED <<ring, ringNext>>
  /\ UNCHANGED <<latest, pendingCounter, procMapped, maps, rows, roots, records,
                 latestBlock, backup, step, ids, lastCommitted, trees, job,
                 crashes>>

\* Mutant: the committed roots are not kept in memory.
memory_keeps_old_roots ==
  /\ pc = "memory"
  /\ ckptId' = job.ckpt
  /\ lastChain' = JobChain
  /\ l2Loaded' = TRUE
  /\ pc' = job.then
  /\ job' = NoJob
  /\ UNCHANGED <<durable, step, processing, gathering, lastRoots, trees, crashes>>

UpdateLastCommitted ==
  /\ pc = "memory"
  /\ ckptId' = job.ckpt
  /\ lastRoots' = job.end
  /\ lastChain' = JobChain
  /\ l2Loaded' = TRUE
  /\ pc' = job.then
  /\ job' = NoJob
  /\ UNCHANGED <<durable, step, processing, gathering, trees, crashes>>

-----------------------------------------------------------------------------
(* Failures.                                                               *)

BlockSteps == {"rotated", "gather", "prove", "commit", "map_pending",
               "map_checkpoint", "rows", "records", "marker", "backup"}

\* A database, queue or gatherer error inside process_block parks the
\* processor in Error until it is restarted.
StepFails ==
  /\ pc \in BlockSteps
  /\ job.then = "idle"
  /\ pc' = "parked"
  /\ UNCHANGED <<durable, step, ids, lastCommitted, trees, job, crashes>>

\* The process dies, or is restarted by the operator; memory is lost.
Crash ==
  /\ pc # "down"
  /\ crashes < MaxCrash
  /\ crashes' = crashes + 1
  /\ pc' = "down"
  /\ step' = 1 /\ job' = NoJob /\ trees' = NoRoots
  /\ UNCHANGED <<durable, ids, lastCommitted>>

Next ==
  \/ new_init \/ EnsureGenesis \/ load_coordinator_memory_trees_from_db
  \/ InitCheck \/ inc_unique_pending_id \/ set_new_unique_ids
  \/ get_results_from_gatherers \/ plan_checkpoint_state_transition
  \/ SaveTransition \/ set_unique_pending_id_checkpoint_id_mapping
  \/ set_checkpoint_id_to_unique_pending_id_mapping \/ WriteRows \/ WriteRecord
  \/ set_latest_checkpoint_id \/ append_checkpoint_leaf_hash
  \/ UpdateLastCommitted \/ StepFails \/ Crash

Spec == Init /\ [][Next]_vars

-----------------------------------------------------------------------------
(* Properties.                                                             *)

Label == {"down", "ensure_genesis", "load", "init", "rotate_init",
          "rotated_init", "idle", "memory", "parked"} \cup BlockSteps
IdOrNone == Pending \cup {NoId}
Roots == [Part -> SUBSET Pending]
Jobs == [ckpt : Ckpt \cup {NoId}, pending : IdOrNone, parts : SUBSET Part,
         start : Roots, end : Roots, then : {"load", "rotate_init", "idle"}]

\* Every variable keeps its type.
TypeOK ==
  /\ latest \in Ckpt /\ pendingCounter \in Pending
  /\ procMapped \subseteq Pending
  /\ p2c \in [Pending -> Ckpt \cup {NoId}]
  /\ c2p \in [Ckpt -> IdOrNone]
  /\ transition \in [Ckpt -> Seq(Pending)]
  /\ rows \in [RowKind -> [Ckpt -> SUBSET Pending]]
  /\ roots \in [Ckpt -> Roots]
  /\ records \in [RecordKind -> [Ckpt -> IdOrNone]]
  /\ latestBlock \in Ckpt \cup {NoId}
  /\ ring \in [Ckpt -> IdOrNone] /\ ringNext \in 0 .. MaxCheckpoint + 1
  /\ backup \in [Pending -> SUBSET Part]
  /\ pc \in Label /\ step \in 1 .. 6
  /\ ckptId \in Ckpt /\ processing \in Pending /\ gathering \in Pending
  /\ lastRoots \in Roots /\ lastChain \in Seq(Pending) /\ l2Loaded \in BOOLEAN
  /\ trees \in Roots
  /\ job \in Jobs
  /\ crashes \in 0 .. MaxCrash

\* The marker never runs ahead of what it claims: every checkpoint at or
\* below latest_checkpoint_id, genesis included once a block is committed,
\* has both pending-id mappings and every checkpoint record, all written by
\* one and the same attempt, whatever crashes and restarts came before
\* (commit_state writes the marker last).
CommittedComplete ==
  latest > 0 =>
    \A c \in 0 .. latest :
      /\ c2p[c] \in Pending
      /\ p2c[c2p[c]] = c
      /\ \A k \in RecordKind : records[k][c] = c2p[c]

\* The stored proof of every committed checkpoint extends the stored chain
\* hash of its predecessor by the attempt that the mapping names, although an
\* abandoned attempt may have stored its own proof for the same checkpoint.
ChainContinuous ==
  \A c \in 1 .. latest :
    transition[c] = Append(get_checkpoint_chain_hash(c - 1), c2p[c])

\* The tree nodes a reader finds at a committed checkpoint are those of the
\* checkpoint's recorded state roots, and all come from committed attempts:
\* nodes written by an interrupted commit never end up under a committed
\* root, although the restart loads them (the old-leaf check of
\* get_checkpoint_state_transition_witness).
CommittedTreesMatchRoots ==
  latest > 0 =>
    \A c \in 0 .. latest : \A k \in Part :
      /\ roots[c][k] = TreeAt(k, c)
      /\ roots[c][k] \subseteq {c2p[d] : d \in 0 .. c}

\* No pending id is committed twice, and later checkpoints come from later
\* generations, also when a restart skips or re-reads generations.
PendingIdsIncrease ==
  \A c \in 1 .. latest : c2p[c - 1] < c2p[c]

\* The checkpoint tree kept in the backup ring, from which the next
\* witness is built, never holds a leaf the marker does not cover nor one
\* of an abandoned attempt.
RingFollowsMarker ==
  /\ ringNext <= latest + 1
  /\ \A c \in 0 .. ringNext - 1 : ring[c] = records["tree_leaf"][c]

\* The single writer never trips over its own guards: the predecessor and
\* generation checks of commit_state and the sequential-append check of the
\* ring always hold when they are reached.
CommitNeverRefused ==
  /\ pc = "commit" => CommitChecks
  /\ pc = "backup" => \/ job.ckpt = ringNext
                      \/ job.ckpt = ringNext - 1 /\ ring[job.ckpt] = job.pending

\* No rows of an abandoned attempt lie at the checkpoint about to be built.
NoLeftovers ==
  ckptId < MaxCheckpoint => \A k \in Part : rows[TreeRow[k]][ckptId + 1] = {}

\* After a restart the Coordinator resumes: unless an interrupted commit left
\* tree nodes at the next checkpoint, or genesis was not applied in this
\* boot, the gatherers accept their trees and the old-leaf check passes.
CleanStateResumes ==
  l2Loaded /\ NoLeftovers =>
    /\ pc = "gather" => BuilderAccepts
    /\ pc = "prove" => OldLeafMatches

\* What processors.md promises of an interrupted commit: found at startup by
\* its mapping to the checkpoint after the marker, it is NeedsRecovery.
InterruptedCommitNeedsRecovery ==
  (pc = "ensure_genesis" /\ \E p \in Pending : p2c[p] = latest + 1)
    => get_database_check_state = "NeedsRecovery"

\* What processors.md asks of every processor: the latest L2 block state is
\* not exposed ahead of the marker.
LatestBlockNotAheadOfMarker == latestBlock <= latest

\* No step rewrites anything stored for a committed block: not its proof, its
\* mapping, its rows, its roots or its records. Genesis may be re-applied.
CommittedNeverRewritten ==
  [][\A c \in 1 .. latest :
       /\ transition'[c] = transition[c] /\ c2p'[c] = c2p[c]
       /\ roots'[c] = roots[c]
       /\ \A k \in RecordKind : records'[k][c] = records[k][c]
       /\ \A k \in RowKind : rows'[k][c] = rows[k][c]]_vars

\* The committed chain, for the abstract specification.
Chain == INSTANCE CheckpointChain
           WITH Id <- Pending, chain <- [c \in 1 .. latest |-> c2p[c]]

\* The Coordinator implements an append-only chain of distinct generations.
ChainSpec == Chain!Spec
=============================================================================
