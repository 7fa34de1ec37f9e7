------------------------------ MODULE Rollback ------------------------------
(***************************************************************************)
(* Rolling a processor back to an earlier checkpoint.  The node commits    *)
(* checkpoints and keeps the checkpoint tree backup; while it is stopped   *)
(* an operator generates a plan, executes it, again after every crash,     *)
(* and then starts the node, which commits other checkpoints under the     *)
(* same ids.  A leaf hash is the era, before or after the rollback, that   *)
(* committed it.                                                           *)
(*                                                                         *)
(* The plan's 37 phases erase keys table by table.  They are represented   *)
(* by one table for each way of choosing the keys: "temp" (rows of a       *)
(* pending id), "map" (pending id and checkpoint id of a commit), "trans"  *)
(* (the checkpoint transition, the first row a commit writes) and "tree"   *)
(* (checkpoint tree nodes, standing for all rows a commit writes after the *)
(* mapping).  The final phases are all here.                               *)
(***************************************************************************)
EXTENDS CheckpointBackup

CONSTANTS MaxCheckpoint,   \* bound on checkpoint ids
          MaxPending,      \* bound on pending ids
          MaxCrashes       \* bound on crashes

VARIABLES
  \* Database, temp store and files
  marker,      \* latest checkpoint id
  counter,     \* pending id counter
  data,        \* table -> keys present
  leaf,        \* checkpoint id -> leaf hash of the checkpoint tree
  info,        \* latest_info: checkpoint of the L2 state, and tree root
  backups,     \* pending ids with a gatherer backup file
  ring,        \* ring file
  buckets,     \* bucket index -> bucket file
  plan,        \* rollback plan, and
  done,        \* its phases persisted as completed
  \* Running program
  pc,          \* its step, "down" when none runs
  mgr,         \* its CheckpointTreeBackupManager
  stage,       \* "running", "planned", "executed", "resumed"
  torn,        \* history: checkpoints whose bucket record a crash lost
  crashes      \* history: number of crashes

db == <<marker, counter, data, leaf, info>>
files == <<backups, ring, buckets>>
vars == <<marker, counter, data, leaf, info, backups, ring, buckets, plan, done,
          pc, mgr, stage, torn, crashes>>

Ckpt == 0 .. MaxCheckpoint
Pending == 1 .. MaxPending
Eras == {1, 2}
Tables == {"temp", "map", "trans", "tree"}
Phases == <<"temp", "map", "trans", "tree", "latest_info",
            "checkpoint_tree_backup", "all", "u64_singleton_table">>
NoPlan == [target |-> 0, latest |-> 0, pending |-> 0, ids |-> {}]

\* The checkpoint tree as the database holds it, and its root at version c.
Tree == [i \in 1 .. MaxCheckpoint + 1 |->
           IF i - 1 \in data["tree"] THEN leaf[i - 1] ELSE ZeroHash]
RootAt(c) == LeavesBelow(Tree, c + 1)

\* The database holds the genesis checkpoint; the node has just created the
\* ring file.
Init ==
  /\ marker = 0 /\ counter = 0
  /\ data = [t \in Tables |-> IF t \in {"trans", "tree"} THEN {0} ELSE {}]
  /\ leaf = [c \in Ckpt |-> IF c = 0 THEN 1 ELSE ZeroHash]
  /\ info = [state |-> 0, root |-> <<1>>]
  /\ backups = {}
  /\ ring = <<>>
  /\ buckets = [b \in 0 .. BucketOf(MaxCheckpoint) |-> <<>>]
  /\ plan = NoPlan /\ done = {}
  /\ pc = "open"
  /\ mgr = NoManager
  /\ stage = "running" /\ torn = {} /\ crashes = 0

-----------------------------------------------------------------------------
(* The node                                                                *)

Era == IF stage = "resumed" THEN 2 ELSE 1

\* Startup opens the backup, then sync_from_database starts over when the
\* window is not the one it needs, and appends the leaves it lacks.
StartNode ==
  /\ pc = "down"
  /\ stage # "planned"
  /\ Opens(ring, Tree)
  /\ mgr' = new_from_file_path(ring, Tree)
  /\ stage' = IF stage = "executed" THEN "resumed" ELSE stage
  /\ pc' = "open"
  /\ UNCHANGED <<db, files, plan, done, torn, crashes>>

sync_from_database ==
  /\ pc = "open"
  /\ IF NeedsReset(mgr, marker)
       THEN /\ ring' = <<>>
            /\ buckets' = hard_reset_and_truncate(buckets, HistoryStart(marker), mgr)
            /\ mgr' = StartingAt(HistoryStart(marker), Tree)
       ELSE UNCHANGED <<ring, buckets, mgr>>
  /\ pc' = "sync"
  /\ UNCHANGED <<db, backups, plan, done, stage, torn, crashes>>

\* Mutant: the last committed leaf is not synced.
SyncStopsEarly ==
  /\ pc = "sync"
  /\ mgr.next >= marker
  /\ pc' = "up"
  /\ UNCHANGED <<db, files, plan, done, mgr, stage, torn, crashes>>

SyncDone ==
  /\ pc = "sync"
  /\ mgr.next > marker
  /\ pc' = "up"
  /\ UNCHANGED <<db, files, plan, done, mgr, stage, torn, crashes>>

\* append_checkpoint_leaf_hash: the ring record is flushed before the bucket's.
AppendRing ==
  /\ \/ pc = "sync" /\ mgr.next <= marker /\ pc' = "sync_bucket"
     \/ pc = "append" /\ mgr.next = marker /\ pc' = "append_bucket"
  /\ ring' = RingAppend(ring, mgr.next, LeafOf(Tree, mgr.next))
  /\ UNCHANGED <<db, backups, buckets, plan, done, mgr, stage, torn, crashes>>

\* A bucket that refuses the record fails the startup or the commit.
AppendBucket ==
  /\ pc \in {"sync_bucket", "append_bucket"}
  /\ LET c == mgr.next
         b == BucketOf(c)
     IN  IF BucketAccepts(buckets[b], c, LeafOf(Tree, c), mgr)
           THEN /\ buckets' = [buckets EXCEPT ![b] =
                                 append_bucket_record(@, c, LeafOf(Tree, c), mgr)]
                /\ mgr' = Appended(mgr, c, LeafOf(Tree, c))
                /\ pc' = IF pc = "append_bucket" THEN "up" ELSE "sync"
                /\ UNCHANGED torn
           ELSE /\ pc' = "down"
                /\ mgr' = NoManager
                /\ torn' = torn \cup {c}
                /\ UNCHANGED buckets
  /\ UNCHANGED <<db, backups, ring, plan, done, stage, crashes>>

\* A new pending id with its temp rows and its gatherer backup.
Rotate ==
  /\ pc = "up"
  /\ counter < MaxPending
  /\ counter' = counter + 1
  /\ data' = [data EXCEPT !["temp"] = @ \cup {counter + 1}]
  /\ backups' = backups \cup {counter + 1}
  /\ UNCHANGED <<marker, leaf, info, ring, buckets, plan, done, pc, mgr, stage,
                 torn, crashes>>

\* commit_state of the next checkpoint from the current pending id: the
\* transition, the mapping, the rows and latest_info, the marker, the backup.
CommitTransition ==
  /\ pc = "up"
  /\ counter \in data["temp"]
  /\ marker < MaxCheckpoint
  /\ \A m \in data["map"] : m[1] = counter => m[2] > marker
  /\ data' = [data EXCEPT !["trans"] = @ \cup {marker + 1}]
  /\ pc' = "map"
  /\ UNCHANGED <<marker, counter, leaf, info, files, plan, done, mgr, stage, torn,
                 crashes>>

CommitMapping ==
  /\ pc = "map"
  /\ data' = [data EXCEPT !["map"] = @ \cup {<<counter, marker + 1>>}]
  /\ pc' = "rows"
  /\ UNCHANGED <<marker, counter, leaf, info, files, plan, done, mgr, stage, torn,
                 crashes>>

CommitRows ==
  /\ pc = "rows"
  /\ data' = [data EXCEPT !["tree"] = @ \cup {marker + 1}]
  /\ leaf' = [leaf EXCEPT ![marker + 1] = Era]
  /\ info' = [state |-> marker + 1, root |-> Append(RootAt(marker), Era)]
  /\ pc' = "marker"
  /\ UNCHANGED <<marker, counter, files, plan, done, mgr, stage, torn, crashes>>

CommitMarker ==
  /\ pc = "marker"
  /\ marker' = marker + 1
  /\ pc' = "append"
  /\ UNCHANGED <<counter, data, leaf, info, files, plan, done, mgr, stage, torn,
                 crashes>>

\* The supervisor stops the application.
Stop ==
  /\ pc = "up"
  /\ pc' = "down"
  /\ mgr' = NoManager
  /\ UNCHANGED <<db, files, plan, done, stage, torn, crashes>>

Node ==
  \/ StartNode \/ sync_from_database \/ SyncDone \/ AppendRing \/ AppendBucket
  \/ Rotate \/ CommitTransition \/ CommitMapping \/ CommitRows \/ CommitMarker
  \/ Stop

-----------------------------------------------------------------------------
(* The plan                                                                *)

\* checkpoint_id_to_pending_id: the last attempt to commit c.
PendingOf(c) ==
  LET ps == {m[1] : m \in {n \in data["map"] : n[2] = c}}
  IN  IF ps = {} THEN 0 ELSE CHOOSE p \in ps : \A q \in ps : q <= p

find_last_mapped_pending_at_or_before(c) ==
  LET mapped == {d \in 0 .. c : PendingOf(d) # 0}
  IN  IF mapped = {} THEN 0 ELSE PendingOf(CHOOSE d \in mapped : \A e \in mapped : e <= d)

collect_ids(target) == find_last_mapped_pending_at_or_before(target) + 1 .. counter

\* validate_rollback_plan: every mapped id was committed after the target.
ValidIds(target) ==
  \A m \in data["map"] :
    m[1] \in collect_ids(target) => target < m[2] /\ m[2] <= marker

generate_rollback_plan ==
  /\ pc = "down"
  /\ stage = "running"
  /\ \E target \in 0 .. marker :
       /\ ValidIds(target)
       /\ plan' = [target |-> target, latest |-> marker, pending |-> counter,
                   ids |-> collect_ids(target)]
  /\ stage' = "planned"
  /\ UNCHANGED <<db, files, done, pc, mgr, torn, crashes>>

\* Keys the plan erases from table t.
Keys(t) ==
  CASE t = "temp" -> plan.ids
    [] t = "map" -> plan.ids \X Ckpt
    [] t \in {"trans", "tree"} -> plan.target + 1 .. plan.latest

-----------------------------------------------------------------------------
(* Executing the plan                                                      *)

\* verify_phase of the phase on table t.
Verified(t) ==
  CASE t \in Tables -> data[t] \cap Keys(t) = {}
    [] t = "latest_info" -> info = [state |-> plan.target, root |-> RootAt(plan.target)]
    [] t = "checkpoint_tree_backup" ->
         mgr.next = plan.target + 1 /\ mgr.tree = RootAt(plan.target)

Verifiable == Tables \cup {"latest_info", "checkpoint_tree_backup"}
verify_complete == \A t \in Verifiable : Verified(t)

AllDone == \A i \in DOMAIN Phases : Phases[i] \in done
Current == CHOOSE i \in DOMAIN Phases :
             /\ Phases[i] \notin done
             /\ \A j \in 1 .. i - 1 : Phases[j] \in done

\* Mutant: a marker already at the target is refused.
OpenAtLatestOnly ==
  /\ pc = "down"
  /\ stage \in {"planned", "executed"}
  /\ Opens(ring, Tree)
  /\ counter = plan.pending
  /\ mgr' = new_from_file_path(ring, Tree)
  /\ marker = plan.latest
  /\ pc' = "phase"
  /\ UNCHANGED <<db, files, plan, done, stage, torn, crashes>>

\* open_rollback_execution_store, after which the executor compares the marker
\* with the plan; the CLI refuses to run beside a node.
OpenStore ==
  /\ pc = "down"
  /\ stage \in {"planned", "executed"}
  /\ Opens(ring, Tree)
  /\ counter = plan.pending
  /\ mgr' = new_from_file_path(ring, Tree)
  /\ marker \in {plan.latest, plan.target}
  /\ pc' = IF marker = plan.target /\ (plan.latest # plan.target \/ AllDone)
             THEN "reconcile" ELSE "phase"
  /\ UNCHANGED <<db, files, plan, done, stage, torn, crashes>>

AtPhase(ts) == pc = "phase" /\ ~AllDone /\ Phases[Current] \in ts /\ marker = plan.latest

\* Mutant: a phase is recorded although some keys were not erased.
EraseBestEffort ==
  /\ AtPhase(Tables)
  /\ LET t == Phases[Current]
     IN  \E rest \in SUBSET (data[t] \cap Keys(t)) :
           data' = [data EXCEPT ![t] = (@ \ Keys(t)) \cup rest]
  /\ pc' = "persist"
  /\ UNCHANGED <<marker, counter, leaf, info, files, plan, done, mgr, stage, torn,
                 crashes>>

\* A table's keys are erased one by one, in no order.
EraseSome ==
  /\ AtPhase(Tables)
  /\ LET t == Phases[Current]
     IN  \E rest \in SUBSET (data[t] \cap Keys(t)) :
           /\ data' = [data EXCEPT ![t] = (@ \ Keys(t)) \cup rest]
           /\ pc' = IF rest = {} THEN "persist" ELSE "phase"
           /\ rest # data[t] \cap Keys(t) \/ rest = {}
  /\ UNCHANGED <<marker, counter, leaf, info, files, plan, done, mgr, stage, torn,
                 crashes>>

\* RestoreLatestInfo writes the L2 state of the target, then its root.
RestoreLatestState ==
  /\ AtPhase({"latest_info"})
  /\ info' = [info EXCEPT !.state = plan.target]
  /\ pc' = "restore_root"
  /\ UNCHANGED <<marker, counter, data, leaf, files, plan, done, mgr, stage, torn,
                 crashes>>

RestoreLatestRoot ==
  /\ pc = "restore_root"
  /\ info' = [info EXCEPT !.root = RootAt(plan.target)]
  /\ pc' = "persist"
  /\ UNCHANGED <<marker, counter, data, leaf, files, plan, done, mgr, stage, torn,
                 crashes>>

\* rebuild_from_database_at_checkpoint: install the target's bucket, remove the
\* later ones, then install the ring file.
RebuildBucket ==
  /\ AtPhase({"checkpoint_tree_backup"})
  /\ CanRebuild(Tree, plan.target)
  /\ buckets' = [buckets EXCEPT ![BucketOf(plan.target)] = RebuiltBucket(Tree, plan.target)]
  /\ pc' = "later_buckets"
  /\ UNCHANGED <<db, backups, ring, plan, done, mgr, stage, torn, crashes>>

RemoveLaterBuckets ==
  /\ pc = "later_buckets"
  /\ LET later == {b \in LaterBuckets(plan.target, mgr) : buckets[b] # <<>>}
     IN  IF later = {} THEN pc' = "install_ring" /\ UNCHANGED buckets
         ELSE /\ buckets' = [buckets EXCEPT
                   ![CHOOSE b \in later : \A d \in later : b <= d] = <<>>]
              /\ pc' = "later_buckets"
  /\ UNCHANGED <<db, backups, ring, plan, done, mgr, stage, torn, crashes>>

InstallRing ==
  /\ pc = "install_ring"
  /\ ring' = RebuiltRing(Tree, plan.target)
  /\ mgr' = RebuiltManager(Tree, plan.target)
  /\ torn' = {c \in torn : BucketOf(c) < BucketOf(plan.target)}
  /\ pc' = "persist"
  /\ UNCHANGED <<db, backups, buckets, plan, done, stage, crashes>>

VerifyPhase ==
  /\ AtPhase({"all"})
  /\ verify_complete
  /\ pc' = "persist"
  /\ UNCHANGED <<db, files, plan, done, mgr, stage, torn, crashes>>

\* Mutant: a backup that cannot be erased is skipped.
backups_deleted_best_effort ==
  /\ AtPhase({"u64_singleton_table"})
  /\ counter = plan.pending
  /\ \E rest \in SUBSET (backups \cap plan.ids) :
       backups' = (backups \ plan.ids) \cup rest
  /\ pc' = "write_marker"
  /\ UNCHANGED <<db, ring, buckets, plan, done, mgr, stage, torn, crashes>>

\* The marker phase erases the gatherer backups and verifies again first.
delete_post_target_backups ==
  /\ AtPhase({"u64_singleton_table"})
  /\ counter = plan.pending
  /\ \E rest \in SUBSET (backups \cap plan.ids) :
       /\ backups' = (backups \ plan.ids) \cup rest
       /\ pc' = IF rest = {} THEN "write_marker" ELSE "phase"
       /\ rest # backups \cap plan.ids \/ rest = {}
  /\ UNCHANGED <<db, ring, buckets, plan, done, mgr, stage, torn, crashes>>

write_latest_checkpoint_marker ==
  /\ pc = "write_marker"
  /\ marker = plan.latest
  /\ verify_complete
  /\ marker' = plan.target
  /\ pc' = "persist"
  /\ UNCHANGED <<counter, data, leaf, info, files, plan, done, mgr, stage, torn,
                 crashes>>

\* The plan file is replaced atomically.
Persist ==
  /\ pc = "persist"
  /\ done' = done \cup {Phases[Current]}
  /\ pc' = "phase"
  /\ UNCHANGED <<db, files, plan, mgr, stage, torn, crashes>>

Finish ==
  /\ pc = "phase"
  /\ AllDone
  /\ marker = plan.target
  /\ counter = plan.pending
  /\ pc' = "down"
  /\ mgr' = NoManager
  /\ stage' = "executed"
  /\ UNCHANGED <<db, files, plan, done, torn, crashes>>

\* With the marker at the target the plan is only verified and completed.
reconcile_target ==
  /\ pc = "reconcile"
  /\ backups' = backups \ plan.ids
  /\ verify_complete
  /\ pc' = "reconciled"
  /\ UNCHANGED <<db, ring, buckets, plan, done, mgr, stage, torn, crashes>>

ReconcilePhase ==
  /\ pc = "reconciled"
  /\ IF AllDone
       THEN /\ pc' = "down" /\ mgr' = NoManager /\ stage' = "executed"
            /\ UNCHANGED done
       ELSE /\ done' = done \cup {Phases[Current]}
            /\ UNCHANGED <<pc, mgr, stage>>
  /\ counter = plan.pending
  /\ UNCHANGED <<db, files, plan, torn, crashes>>

Executor ==
  \/ OpenStore \/ EraseSome \/ RestoreLatestState \/ RestoreLatestRoot
  \/ RebuildBucket \/ RemoveLaterBuckets \/ InstallRing \/ VerifyPhase
  \/ delete_post_target_backups \/ write_latest_checkpoint_marker \/ Persist
  \/ Finish \/ reconcile_target \/ ReconcilePhase

-----------------------------------------------------------------------------

\* The running program dies; a bucket record not written yet is lost.
Crash ==
  /\ pc # "down"
  /\ crashes < MaxCrashes
  /\ crashes' = crashes + 1
  /\ pc' = "down"
  /\ mgr' = NoManager
  /\ torn' = IF pc \in {"sync_bucket", "append_bucket"} THEN torn \cup {mgr.next} ELSE torn
  /\ UNCHANGED <<db, files, plan, done, stage>>

Next == Node \/ generate_rollback_plan \/ Executor \/ Crash

\* The executor keeps running, and the operator executes the plan again after
\* a crash; the node and the operator may otherwise stop.
Spec == Init /\ [][Next]_vars /\ WF_vars(stage = "planned" /\ Executor)
-----------------------------------------------------------------------------
(* Properties                                                              *)

Records == [id : Ckpt, hash : {ZeroHash} \cup Eras]

\* Every variable has its type: in particular the ring file never has more
\* records than the capacity and a bucket never more than its size.
TypeOK ==
  /\ marker \in Ckpt /\ counter \in 0 .. MaxPending
  /\ DOMAIN data = Tables
  /\ data["temp"] \subseteq Pending /\ data["map"] \subseteq Pending \X Ckpt
  /\ data["trans"] \subseteq Ckpt /\ data["tree"] \subseteq Ckpt
  /\ leaf \in [Ckpt -> {ZeroHash} \cup Eras]
  /\ info.state \in Ckpt
  /\ backups \subseteq Pending
  /\ Len(ring) <= RingCapacity /\ \A i \in DOMAIN ring : ring[i] \in Records
  /\ \A b \in DOMAIN buckets : /\ Len(buckets[b]) <= BucketSize
                               /\ \A i \in DOMAIN buckets[b] : buckets[b][i] \in Records
  /\ plan.target \in Ckpt /\ plan.latest \in Ckpt /\ plan.ids \subseteq Pending
  /\ done \subseteq {Phases[i] : i \in DOMAIN Phases}
  /\ mgr.min \in Ckpt /\ mgr.next \in 0 .. MaxCheckpoint + 1
  /\ stage \in {"running", "planned", "executed", "resumed"}
  /\ torn \subseteq Ckpt /\ crashes \in 0 .. MaxCrashes

\* Whenever no plan is in force, every record of the ring and of the archive is
\* the leaf that the database committed under that id: nothing of the abandoned
\* chain survives a rollback (rebuild_from_database_at_checkpoint removes the
\* later buckets before it installs the ring), and the archive lacks only
\* records that a crash between the ring's and the bucket's write lost.
ArchiveFollowsChain ==
  stage # "planned" =>
    /\ \A i \in DOMAIN ring : ring[i].id <= marker /\ ring[i].hash = Tree[ring[i].id + 1]
    /\ \A b \in DOMAIN buckets : \A i \in DOMAIN buckets[b] :
         /\ buckets[b][i].id = BucketStart(b) + i - 1
         /\ buckets[b][i].id <= marker
         /\ buckets[b][i].hash = Tree[buckets[b][i].id + 1]
    /\ pc = "up" => \A c \in 0 .. marker \ torn : Slot(c) < Len(buckets[BucketOf(c)])

\* A node that has started serves the tree of the committed chain: the leaves
\* in memory are the database's up to the marker, and the ring file holds the
\* whole window that stale proofs may refer to, after any crash and rollback
\* (new_from_file_path, sync_from_database, append_checkpoint_leaf_hash).
ManagerServesWindow ==
  pc = "up" =>
    /\ mgr.next = marker + 1
    /\ mgr.tree = RootAt(marker)
    /\ mgr.min <= HistoryStart(marker)
    /\ HistoryStart(marker) .. marker \subseteq RingIds(ring)

\* The postcondition of a part, read from what is durable.
Clean(t) ==
  CASE t \in Tables -> data[t] \cap Keys(t) = {}
    [] t = "latest_info" -> Verified("latest_info")
    [] t = "checkpoint_tree_backup" ->
         /\ Opens(ring, Tree)
         /\ new_from_file_path(ring, Tree).tree = RootAt(plan.target)
    [] t = "buckets" ->
         \A b \in DOMAIN buckets : \A i \in DOMAIN buckets[b] :
           buckets[b][i].id <= plan.target
    [] t = "backups" -> backups \cap plan.ids = {}

\* A phase recorded as completed is complete in the stores, at every later
\* moment of the rollback and after any crash: a resumed execution may skip it.
CompletedPhasesHold ==
  stage \in {"planned", "executed"} =>
    /\ \A t \in done \cap Verifiable : Clean(t)
    /\ "checkpoint_tree_backup" \in done => Clean("buckets")

\* The parts of the stores that still hold something newer than the target.
Contract == INSTANCE RollbackContract WITH
  Parts   <- Verifiable \cup {"buckets", "backups"},
  mode    <- IF stage \in {"planned", "executed"} THEN "plan" ELSE "free",
  marker  <- marker,
  target  <- plan.target,
  residue <- IF stage \in {"planned", "executed"}
               THEN {t \in Verifiable \cup {"buckets", "backups"} : ~Clean(t)} ELSE {}

\* The execution keeps the contract of a rollback: what is newer than the
\* target only disappears, the marker moves last, to the target, when nothing
\* of it is left (gatherer backups and archive included), and the node runs
\* again only after that.
KeepsContract == Contract!Spec

\* A plan whose target lies in the ring's window is executed to its end,
\* however the execution is interrupted, provided it is executed again.  (Below
\* the window an interrupted execution cannot open the ring once the
\* checkpoint tree rows are gone.)
RollbackEnds ==
  (stage = "planned" /\ (ring = <<>> \/ RingStart(ring) <= plan.target))
    ~> (stage = "executed")
=============================================================================
