----------------------- MODULE CoordinatorCommitProofs -----------------------
(***************************************************************************)
(* Theorems about CoordinatorCommit for all values of its constants: the   *)
(* committed chain is complete, continuous, ordered and never rewritten,   *)
(* the writer never trips over its own checks, and the Coordinator         *)
(* implements CheckpointChain.                                             *)
(***************************************************************************)
EXTENDS CoordinatorCommitInvariant

-----------------------------------------------------------------------------
(* The last steps of commit_state: the marker, the ring and memory.        *)

\* The marker moves to a complete checkpoint that extends the chain.
LEMMA MarkerStep ==
  ASSUME IInv, set_latest_checkpoint_id, TypeOK', LatestInv'
  PROVE  IInv'
<1> USE DEF IInv, set_latest_checkpoint_id, maps, ids, lastCommitted
<1>1. pc \in HasJob
  BY Zenon DEF HasJob, Writing
<1>2. /\ Numbers /\ job.ckpt \in Ckpt /\ job.ckpt \in Nat /\ job.pending \in Pending
      /\ ckptId = latest
      /\ GenesisRuns \/ BlockRuns
  BY <1>1, WritingJob, Zenon
<1>3. Complete(job.ckpt)
  BY <1>2 DEF Complete, WriteInv, Writing
<1>4. IdsInv'
  <2>1. job.ckpt >= 1 => Mapped # {}
    BY <1>1, <1>2 DEF PendingInv, BlockBuilt, GenesisRuns
  <2> QED BY <2>1 DEF IdsInv, HasJob, Writing, Mapped, GenesisRuns, BlockRuns
<1>5. PendingInv'
  BY Zenon DEF PendingInv, BlockBuilt, BlockRuns, HasJob, Writing, Live, Mapped
<1>6. WriteInv'
  BY ZenonT(60) DEF WriteInv, Live, Writing, JobChain, get_checkpoint_chain_hash
<1>7. GenesisInv' /\ RingInv'
  BY ZenonT(60) DEF GenesisInv, RingInv, Live, BlockBuilt, BlockRuns, HasJob, Writing, Complete
<1>8. CASE GenesisRuns
  <2>1. latest' = latest
    BY <1>2, <1>8, Zenon DEF GenesisRuns
  <2>2. CommittedInv'
    BY <2>1, CommittedFrame
  <2> QED BY <1>4, <1>5, <1>6, <1>7, <2>2
<1>9. CASE BlockRuns
  <2>1. BlockBuilt /\ latest' = latest + 1 /\ job.ckpt = latest + 1 /\ job.pending = processing
    BY <1>1, <1>2, <1>9, Zenon DEF BlockBuilt, BlockRuns
  <2>2. \A c \in 0 .. latest' : c \in 0 .. latest \/ c = job.ckpt
    BY <1>2, <2>1 DEF Numbers
  <2>3. \A c \in 0 .. latest : Complete(c)
    <3>1. CASE latest = 0
      <4>1. Complete(0)
        BY <2>1, Zenon DEF GenesisInv, Live
      <4> QED BY <3>1, <4>1
    <3>2. CASE latest # 0
      BY <1>2, <3>2 DEF CommittedInv, CommittedComplete, Complete, Numbers
    <3> QED BY <3>1, <3>2, Zenon
  <2>4. CommittedComplete'
    BY <1>3, <2>2, <2>3 DEF CommittedComplete, Complete
  <2>5. ChainContinuous'
    <3>1. transition[job.ckpt] = Append(get_checkpoint_chain_hash(latest), c2p[job.ckpt])
      <4>1. job.ckpt # 0 /\ c2p[job.ckpt] = job.pending
        BY <1>2, <2>1 DEF WriteInv, Writing, Numbers
      <4>2. transition[job.ckpt] = Append(lastChain, job.pending)
        BY <4>1, ZenonT(60) DEF WriteInv, Writing, JobChain
      <4>3. lastChain = get_checkpoint_chain_hash(ckptId)
        BY DEF WriteInv, Live
      <4> QED BY <1>2, <4>1, <4>2, <4>3, Zenon
    <3>2. \A c \in 1 .. latest' : c \in 1 .. latest \/ c = job.ckpt
      BY <1>2, <2>1 DEF Numbers
    <3>3. job.ckpt - 1 = latest
      BY <1>2, <2>1 DEF Numbers
    <3>4. ChainContinuous /\ UNCHANGED <<transition, c2p>>
      BY Zenon DEF CommittedInv
    <3> HIDE DEF IInv, set_latest_checkpoint_id
    <3> QED BY <3>1, <3>2, <3>3, <3>4, Zenon DEF ChainContinuous, get_checkpoint_chain_hash
  <2>6. PendingIdsIncrease'
    <3>1. c2p[latest] < c2p[job.ckpt]
      BY <1>2, <2>1 DEF WriteInv, Writing, PendingInv, Numbers
    <3>2. \A c \in 1 .. latest' : c \in 1 .. latest \/ (c = job.ckpt /\ c - 1 = latest)
      BY <1>2, <2>1 DEF Numbers
    <3> QED BY <3>1, <3>2 DEF CommittedInv, PendingIdsIncrease
  <2>7. RingFollowsMarker'
    BY <1>2, <2>1 DEF CommittedInv, RingFollowsMarker, Numbers
  <2>8. CommittedInv'
    BY <2>4, <2>5, <2>6, <2>7, Zenon DEF CommittedInv
  <2> QED BY <1>4, <1>5, <1>6, <1>7, <2>8
<1> QED BY <1>2, <1>8, <1>9

\* The ring takes the committed leaf.
LEMMA AppendStep ==
  ASSUME IInv, append_checkpoint_leaf_hash, TypeOK', LatestInv'
  PROVE  IInv'
<1> USE DEF IInv
<1>1. CASE UNCHANGED <<ring, ringNext>> /\ pc' = "parked"
  BY <1>1, DownStep, Zenon DEF append_checkpoint_leaf_hash, durable, maps
<1>2. CASE pc' = "memory"
  <2> USE <1>2 DEF append_checkpoint_leaf_hash, maps, ids, lastCommitted
  <2>1. pc \in HasJob
    BY Zenon DEF HasJob, Writing
  <2>2. /\ Numbers /\ job.ckpt \in Ckpt /\ job.ckpt \in Nat /\ latest = job.ckpt
        /\ GenesisRuns \/ BlockRuns
    BY <2>1, WritingJob, Zenon DEF IdsInv
  <2>3. records["tree_leaf"][job.ckpt] = job.pending
    BY ZenonT(60) DEF WriteInv, RecordKind
  <2>4. IdsInv'
    BY <2>2, Zenon DEF IdsInv, HasJob, Writing, Mapped, GenesisRuns, BlockRuns
  <2>5. PendingInv'
    BY Zenon DEF PendingInv, BlockBuilt, BlockRuns, HasJob, Writing, Live, Mapped
  <2>6. WriteInv'
    BY ZenonT(60) DEF WriteInv, Live, Writing, JobChain, get_checkpoint_chain_hash
  <2>7. GenesisInv'
    BY DEF GenesisInv, Live, BlockBuilt, BlockRuns, HasJob, Writing, Complete
  <2>8. CASE UNCHANGED <<ring, ringNext>>
    <3>1. RingInv' /\ CommittedInv'
      BY <2>8, CommittedFrame, Zenon DEF RingInv
    <3> QED BY <2>4, <2>5, <2>6, <2>7, <3>1
  <2>9. CASE job.ckpt = ringNext
    <3>1. ringNext' = job.ckpt + 1 /\ ring' = [ring EXCEPT ![job.ckpt] = job.pending]
      BY <2>9
    <3>2. RingFollowsMarker'
      <4>1. \A c \in Ckpt : ring'[c] = IF c = job.ckpt THEN job.pending ELSE ring[c]
        BY <2>2, <3>1, ZenonT(60) DEF TypeOK
      <4>2. \A c \in 0 .. ringNext' - 1 : c \in Ckpt /\ (c = job.ckpt \/ c \in 0 .. ringNext - 1)
        BY <2>2, <2>9, <3>1 DEF Ckpt, Numbers
      <4>3. ringNext' <= latest' + 1
        BY <2>2, <3>1 DEF Numbers
      <4> QED BY <2>3, <4>1, <4>2, <4>3, Zenon DEF CommittedInv, RingFollowsMarker
    <3>3. CommittedInv'
      BY <3>2, Zenon DEF CommittedInv, CommittedComplete, ChainContinuous, PendingIdsIncrease,
                  get_checkpoint_chain_hash
    <3>4. RingInv'
      BY <2>2, <2>3, <2>9 DEF RingInv, GenesisRuns, BlockRuns, Numbers
    <3> QED BY <2>4, <2>5, <2>6, <2>7, <3>3, <3>4
  <2> QED BY <2>8, <2>9, Zenon
<1> QED BY <1>1, <1>2, Zenon DEF append_checkpoint_leaf_hash

\* Memory takes over what was committed.
LEMMA MemoryStep == ASSUME IInv, UpdateLastCommitted, TypeOK', LatestInv' PROVE IInv'
<1> USE DEF IInv, UpdateLastCommitted, durable, maps
<1>1. pc \in HasJob
  BY Zenon DEF HasJob, Writing
<1>2. /\ Numbers /\ job.ckpt \in Ckpt /\ job.ckpt \in Nat /\ job.pending \in Pending
      /\ latest = job.ckpt
      /\ GenesisRuns \/ BlockRuns
  BY <1>1, WritingJob, Zenon DEF IdsInv
<1>3. pc' \in {"load", "rotate_init", "idle"} /\ (pc' = "idle" => BlockRuns)
  BY <1>2, Zenon DEF GenesisRuns, BlockRuns
<1>4. IdsInv'
  BY <1>2, <1>3, Zenon DEF IdsInv, Live, HasJob, Writing, Mapped
<1>5. PendingInv'
  <2>1. gathering <= pendingCounter
    BY Zenon DEF PendingInv, Live
  <2>2. pc' = "idle" => gathering \in Mapped /\ \A c \in 0 .. latest : c2p[c] < gathering
    <3> SUFFICES ASSUME pc' = "idle"
                 PROVE  gathering \in Mapped /\ \A c \in 0 .. latest : c2p[c] < gathering
      OBVIOUS
    <3>1. BlockRuns /\ BlockBuilt
      BY <1>1, <1>3 DEF BlockBuilt
    <3>2. c2p[job.ckpt] = processing /\ latest = ckptId + 1
      BY <1>2, <3>1, ZenonT(60) DEF WriteInv, Writing, BlockRuns
    <3>3. gathering \in Mapped /\ processing < gathering
          /\ \A c \in 0 .. ckptId : c2p[c] < processing
      BY <3>1 DEF PendingInv
    <3>4. \A c \in 0 .. latest : c = job.ckpt \/ (c \in 0 .. ckptId /\ c2p[c] \in Int)
      BY <1>2, <3>2 DEF Numbers, Ckpt
    <3> QED BY <1>2, <3>2, <3>3, <3>4 DEF Numbers
  <2> QED BY <1>3, <2>1, <2>2, Zenon DEF PendingInv, BlockBuilt, HasJob, Writing, Mapped
<1>6. WriteInv'
  BY <1>2, <1>3, ZenonT(60) DEF WriteInv, Writing, JobChain, get_checkpoint_chain_hash
<1>7. Complete(0)
  <2>1. CASE GenesisRuns
    BY <1>2, <2>1, ZenonT(60) DEF Complete, WriteInv, Writing, GenesisRuns
  <2>2. CASE BlockRuns
    BY <1>1, <2>2, ZenonT(60) DEF GenesisInv, BlockBuilt, Live
  <2> QED BY <1>2, <2>1, <2>2
<1>8. GenesisInv'
  BY <1>3, <1>7, ZenonT(60) DEF GenesisInv, BlockBuilt, HasJob, Writing, Complete
<1>9. RingInv'
  BY <1>3, ZenonT(60) DEF RingInv, BlockBuilt, HasJob, Writing
<1>10. CommittedInv'
  BY CommittedFrame, Zenon
<1> QED BY <1>4, <1>5, <1>6, <1>8, <1>9, <1>10, Zenon

-----------------------------------------------------------------------------
(* Type correctness.                                                       *)

\* Chain hashes are sequences of pending ids.
LEMMA ChainTypes ==
  ASSUME TypeOK
  PROVE  /\ \A c \in Ckpt : get_checkpoint_chain_hash(c) \in Seq(Pending)
         /\ job.pending \in Pending => JobChain \in Seq(Pending)
<1>1. 0 \in Pending
  BY BoundsAssumption DEF Pending
<1>2. GenesisChain \in Seq(Pending)
  BY <1>1 DEF GenesisChain
<1>3. lastChain \in Seq(Pending) /\ \A c \in Ckpt : transition[c] \in Seq(Pending)
  BY Zenon DEF TypeOK
<1> QED BY <1>2, <1>3 DEF get_checkpoint_chain_hash, JobChain

\* The initial state satisfies the invariant.
LEMMA InitIInv == Init => IInv
<1> SUFFICES ASSUME Init PROVE IInv
  OBVIOUS
<1> USE BoundsAssumption DEF Init
<1>1. TypeOK
  <2>1. NoRoots \in Roots
    BY Zenon DEF NoRoots, Roots
  <2>2. NoJob \in Jobs
    BY <2>1, Zenon DEF NoJob, Jobs, IdOrNone
  <2>3. << >> \in Seq(Pending)
    OBVIOUS
  <2>4. /\ 0 \in Ckpt /\ 0 \in Pending /\ NoId \in IdOrNone /\ 1 \in 1 .. 6
        /\ 0 \in 0 .. MaxCheckpoint + 1 /\ 0 \in 0 .. MaxCrash
    BY DEF Ckpt, Pending, IdOrNone
  <2>5. "down" \in Label
    BY Zenon DEF Label
  <2> QED BY <2>1, <2>2, <2>3, <2>4, <2>5, Zenon DEF TypeOK
<1>2. LatestInv /\ IdsInv /\ PendingInv
  BY DEF LatestInv, Mapped, IdsInv, PendingInv, Live, BlockBuilt, HasJob, Writing, NoId,
         Ckpt, Pending
<1>3. WriteInv /\ GenesisInv /\ RingInv
  BY DEF WriteInv, GenesisInv, RingInv, Live, BlockBuilt, HasJob, Writing, NoId, Ckpt
<1>4. CommittedInv
  BY DEF CommittedInv, CommittedComplete, ChainContinuous, PendingIdsIncrease,
         RingFollowsMarker
<1> QED BY <1>1, <1>2, <1>3, <1>4, Zenon DEF IInv

\* Every action keeps the types.
LEMMA TypeStep == ASSUME IInv, [Next]_vars PROVE TypeOK'
<1> USE BoundsAssumption DEF IInv
<1>0. Numbers
  BY TypeOKNumbers
<1>1. CASE new_init
  <2> USE <1>1
  <2>1. processing' \in Pending
    <3>1. CASE latest = 0
      BY <3>1 DEF new_init, Pending
    <3>2. CASE latest # 0
      BY <1>0, <3>2, LatestMapped DEF new_init, IdsInv, Mapped, Numbers, Pending
    <3> QED BY <3>1, <3>2
  <2>2. GenesisRoots \in Roots
    BY DEF GenesisRoots, Roots, Pending
  <2>3. lastRoots' \in Roots
    BY <2>2 DEF new_init, TypeOK
  <2>4. lastChain' \in Seq(Pending)
    BY ChainTypes, Zenon DEF new_init, TypeOK
  <2>5. ring' \in [Ckpt -> IdOrNone]
    <3>1. records \in [RecordKind -> [Ckpt -> IdOrNone]] /\ ring \in [Ckpt -> IdOrNone]
      BY Zenon DEF TypeOK
    <3>2. "tree_leaf" \in RecordKind
      BY Zenon DEF RecordKind
    <3>3. records["tree_leaf"] \in [Ckpt -> IdOrNone]
      BY <3>1, <3>2, Zenon
    <3>4. \/ ring' = ring
          \/ ring' = [c \in Ckpt |-> IF ringNext <= c /\ c <= latest
                                      THEN records["tree_leaf"][c] ELSE ring[c]]
      BY Zenon DEF new_init, sync_from_database
    <3> HIDE DEF IInv
    <3> QED BY <3>1, <3>3, <3>4, Zenon
  <2>6. ringNext' \in 0 .. MaxCheckpoint + 1
    <3>1. ringNext' = ringNext \/ ringNext' = latest + 1
      BY Zenon DEF new_init, sync_from_database
    <3> HIDE DEF IInv
    <3> QED BY <1>0, <3>1 DEF Numbers
  <2>7. l2Loaded' \in BOOLEAN
    BY DEF new_init
  <2> QED BY <2>1, <2>3, <2>4, <2>5, <2>6, <2>7 DEF new_init, TypeOK, maps, Label
<1>2. CASE EnsureGenesis
  <2>1. GenesisJob("load") \in Jobs
    BY GenesisAssumption DEF GenesisJob, Jobs, GenesisRoots, Roots, IdOrNone, Ckpt, Pending
  <2>2. job' \in Jobs
    BY <1>2, <2>1 DEF EnsureGenesis, TypeOK
  <2>3. pc' \in Label
    BY <1>2, CheckState, Zenon DEF EnsureGenesis, Label, BlockSteps
  <2> QED BY <1>2, <2>2, <2>3, Zenon DEF EnsureGenesis, TypeOK, durable, maps, ids, lastCommitted
<1>3. CASE load_coordinator_memory_trees_from_db
  <2>1. \A k \in Part, c \in Nat : TreeAt(k, c) \subseteq Pending
    <3>1. \A k \in Part : TreeRow[k] \in RowKind
      BY DEF Part, TreeRow, RowKind
    <3>2. \A k \in Part, d \in Ckpt : rows[TreeRow[k]][d] \subseteq Pending
      BY <3>1 DEF TypeOK
    <3> QED BY <3>2, Zenon DEF TreeAt
  <2>2. ckptId + 1 \in Nat
    BY <1>0 DEF Numbers
  <2>3. trees' \in Roots
    BY <1>3, <2>1, <2>2, Zenon DEF load_coordinator_memory_trees_from_db, Roots
  <2> QED BY <1>3, <2>3
          DEF load_coordinator_memory_trees_from_db, TypeOK, durable, maps, ids,
              lastCommitted, Label
<1>4. CASE InitCheck
  <2>1. GenesisJob("rotate_init") \in Jobs
    BY GenesisAssumption DEF GenesisJob, Jobs, GenesisRoots, Roots, IdOrNone, Ckpt, Pending
  <2>2. job' \in Jobs /\ trees' = trees /\ pc' \in {"commit", "down", "rotate_init"}
    BY <1>4, <2>1, CheckState DEF InitCheck, TypeOK
  <2> QED BY <1>4, <2>2, Zenon
          DEF InitCheck, TypeOK, durable, maps, ids, lastCommitted, Label, BlockSteps
<1>5. CASE inc_unique_pending_id
  <2>1. pendingCounter' \in Pending
    BY <1>0, <1>5 DEF inc_unique_pending_id, Numbers, Pending
  <2> QED BY <1>5, <2>1, Zenon
          DEF inc_unique_pending_id, TypeOK, maps, ids, lastCommitted, Label, BlockSteps
<1>6. CASE set_new_unique_ids
  BY <1>6, Zenon DEF set_new_unique_ids, TypeOK, maps, lastCommitted, Label, BlockSteps
<1>7. CASE get_results_from_gatherers
  <2>1. CASE pc' = "parked"
    BY <1>7, <2>1 DEF get_results_from_gatherers, TypeOK, maps, ids, lastCommitted, Label
  <2>2. CASE pc' = "prove"
    <3>1. PICK parts \in Batches :
            LET after == [k \in Part |->
                            IF k \in parts THEN trees[k] \cup {processing} ELSE trees[k]]
            IN  /\ trees' = after
                /\ backup' = [backup EXCEPT ![processing] = parts]
                /\ job' = [ckpt |-> ckptId + 1, pending |-> processing, parts |-> parts,
                           start |-> trees, end |-> after, then |-> "idle"]
      BY <1>7, <2>2, Zenon DEF get_results_from_gatherers
    <3>2. parts \in SUBSET Part
      BY BatchesAssumption
    <3>3. trees' \in Roots
      BY <3>1 DEF TypeOK, Roots
    <3>4. ckptId + 1 \in Ckpt
      BY <1>0, <1>7 DEF get_results_from_gatherers, IdsInv, Numbers, Ckpt
    <3>5. job' \in Jobs
      <4>1. trees \in Roots /\ processing \in IdOrNone
        BY Zenon DEF TypeOK, IdOrNone
      <4> HIDE DEF IInv
      <4> QED BY <3>1, <3>2, <3>3, <3>4, <4>1 DEF Jobs
    <3>6. backup' \in [Pending -> SUBSET Part]
      BY <3>1, <3>2 DEF TypeOK
    <3> QED BY <1>7, <2>2, <3>3, <3>5, <3>6
            DEF get_results_from_gatherers, TypeOK, maps, ids, lastCommitted, Label, BlockSteps
  <2> QED BY <1>7, <2>1, <2>2, Zenon DEF get_results_from_gatherers
<1>8. CASE plan_checkpoint_state_transition
  BY <1>8 DEF plan_checkpoint_state_transition, TypeOK, durable, maps, ids, lastCommitted,
              Label, BlockSteps
<1>9. CASE SaveTransition
  <2>1. JobChain \in Seq(Pending) /\ job.ckpt \in Ckpt
    <3>1. pc \in HasJob
      BY <1>9, Zenon DEF SaveTransition, HasJob
    <3>2. job.ckpt \in Ckpt /\ job.pending \in Pending
      BY <3>1, WritingJob, Zenon
    <3> QED BY <3>2, ChainTypes
  <2>2. transition' \in [Ckpt -> Seq(Pending)]
    BY <1>9, <2>1, Zenon DEF SaveTransition, TypeOK
  <2> QED BY <1>9, <2>2
          DEF SaveTransition, TypeOK, ids, lastCommitted, Label, BlockSteps
<1>10. CASE set_unique_pending_id_checkpoint_id_mapping
  <2>1. job.ckpt \in Ckpt /\ job.pending \in Pending
    BY <1>10, WritingJob, Zenon DEF set_unique_pending_id_checkpoint_id_mapping, HasJob, Writing
  <2>2. p2c' \in [Pending -> Ckpt \cup {NoId}]
    BY <1>10, <2>1 DEF set_unique_pending_id_checkpoint_id_mapping, TypeOK
  <2> QED BY <1>10, <2>2, Zenon
          DEF set_unique_pending_id_checkpoint_id_mapping, TypeOK, ids, lastCommitted,
              Label, BlockSteps
<1>11. CASE set_checkpoint_id_to_unique_pending_id_mapping
  <2>1. job.ckpt \in Ckpt /\ job.pending \in Pending
    BY <1>11, WritingJob, Zenon DEF set_checkpoint_id_to_unique_pending_id_mapping, HasJob, Writing
  <2>2. c2p' \in [Ckpt -> IdOrNone] /\ procMapped' \subseteq Pending
    <3>1. c2p \in [Ckpt -> IdOrNone] /\ procMapped \subseteq Pending
      BY Zenon DEF TypeOK
    <3>2. /\ c2p' = [c2p EXCEPT ![job.ckpt] = job.pending]
          /\ procMapped' = procMapped \cup {job.pending}
      BY <1>11, Zenon DEF set_checkpoint_id_to_unique_pending_id_mapping
    <3> HIDE DEF IInv
    <3> QED BY <2>1, <3>1, <3>2 DEF IdOrNone
  <2>3. step' \in 1 .. 6 /\ pc' \in Label
    <3>1. step' = 1 /\ pc' = "rows"
      BY <1>11, Zenon DEF set_checkpoint_id_to_unique_pending_id_mapping
    <3> HIDE DEF IInv
    <3> QED BY <3>1 DEF Label, BlockSteps
  <2> QED BY <1>11, <2>2, <2>3, ZenonT(60)
          DEF set_checkpoint_id_to_unique_pending_id_mapping, TypeOK, ids, lastCommitted
<1>12. CASE WriteRows
  <2>1. job.ckpt \in Ckpt /\ job.pending \in Pending
    BY <1>12, WritingJob DEF WriteRows, HasJob, Writing
  <2>2. RowOrder[step] \in RowKind
    BY DEF TypeOK, RowOrder, RowKind
  <2>3. rows' \in [RowKind -> [Ckpt -> SUBSET Pending]]
    <3>1. rows \in [RowKind -> [Ckpt -> SUBSET Pending]]
      BY Zenon DEF TypeOK
    <3>2. \/ rows' = rows
          \/ rows' = [rows EXCEPT ![RowOrder[step]][job.ckpt] = @ \cup {job.pending}]
      BY <1>12, Zenon DEF WriteRows
    <3> HIDE DEF IInv
    <3> QED BY <2>1, <2>2, <3>1, <3>2
  <2>4. step' \in 1 .. 6 /\ pc' \in {"rows", "records"}
    <3>1. step \in 1 .. 6
      BY Zenon DEF TypeOK
    <3>2. IF step < 6 THEN step' = step + 1 /\ pc' = "rows"
                      ELSE step' = 1 /\ pc' = "records"
      BY <1>12, Zenon DEF WriteRows, RowOrder
    <3> QED BY <3>1, <3>2
  <2> QED BY <1>12, <2>3, <2>4, ZenonT(60)
          DEF WriteRows, TypeOK, maps, ids, lastCommitted, Label, BlockSteps
<1>13. CASE WriteRecord
  <2>1. job.ckpt \in Ckpt /\ job.pending \in Pending
    BY <1>13, WritingJob, Zenon DEF WriteRecord, HasJob, Writing
  <2>2. records' \in [RecordKind -> [Ckpt -> IdOrNone]]
    BY <1>13, <2>1, ZenonT(60) DEF WriteRecord, TypeOK, IdOrNone
  <2>3. job.end \in Roots
    BY DEF TypeOK, Jobs
  <2>4. roots' \in [Ckpt -> Roots] /\ latestBlock' \in Ckpt \cup {NoId}
    BY <1>13, <2>1, <2>3, ZenonT(60) DEF WriteRecord, TypeOK
  <2>5. step' \in 1 .. 6 /\ pc' \in {"records", "marker"}
    <3>1. step \in 1 .. 6
      BY DEF TypeOK
    <3>2. IF step < 6 THEN step' = step + 1 /\ pc' = "records"
                      ELSE step' = 1 /\ pc' = "marker"
      BY <1>13, Zenon DEF WriteRecord, RecordOrder
    <3> QED BY <3>1, <3>2
  <2> QED BY <1>13, <2>2, <2>4, <2>5, ZenonT(60)
          DEF WriteRecord, TypeOK, maps, ids, lastCommitted, Label, BlockSteps
<1>14. CASE set_latest_checkpoint_id
  <2>1. job.ckpt \in Ckpt
    BY <1>14, WritingJob DEF set_latest_checkpoint_id, HasJob, Writing
  <2> QED BY <1>14, <2>1
          DEF set_latest_checkpoint_id, TypeOK, maps, ids, lastCommitted, Label, BlockSteps
<1>15. CASE append_checkpoint_leaf_hash
  <2>1. job.ckpt \in Ckpt /\ job.pending \in Pending
    BY <1>15, WritingJob DEF append_checkpoint_leaf_hash, HasJob, Writing
  <2>2. ring' \in [Ckpt -> IdOrNone]
    BY <1>15, <2>1, Zenon DEF append_checkpoint_leaf_hash, TypeOK, IdOrNone
  <2>3. ringNext' \in 0 .. MaxCheckpoint + 1
    BY <1>0, <1>15, <2>1 DEF append_checkpoint_leaf_hash, Ckpt, Numbers
  <2> QED BY <1>15, <2>2, <2>3
          DEF append_checkpoint_leaf_hash, TypeOK, maps, ids, lastCommitted, Label
<1>16. CASE UpdateLastCommitted
  <2>1. job.ckpt \in Ckpt /\ job.pending \in Pending
    BY <1>16, WritingJob, Zenon DEF UpdateLastCommitted, HasJob, Writing
  <2>2. JobChain \in Seq(Pending)
    BY <2>1, ChainTypes
  <2>3. job.end \in Roots /\ job.then \in {"load", "rotate_init", "idle"}
    BY Zenon DEF TypeOK, Jobs
  <2>4. NoJob \in Jobs
    BY ZenonT(60) DEF NoJob, NoRoots, Jobs, Roots, IdOrNone
  <2> QED BY <1>16, <2>1, <2>2, <2>3, <2>4
          DEF UpdateLastCommitted, TypeOK, durable, maps, Label
<1>17. CASE StepFails
  BY <1>17, Zenon DEF StepFails, TypeOK, durable, maps, ids, lastCommitted, Label
<1>18. CASE Crash
  <2>1. NoJob \in Jobs /\ NoRoots \in Roots
    BY ZenonT(60) DEF NoJob, NoRoots, Jobs, Roots, IdOrNone
  <2>2. crashes' \in 0 .. MaxCrash
    BY <1>18 DEF Crash, TypeOK
  <2> QED BY <1>18, <2>1, <2>2 DEF Crash, TypeOK, durable, maps, ids, lastCommitted, Label
<1>19. CASE UNCHANGED vars
  BY <1>19 DEF vars, TypeOK, durable, maps, ids, lastCommitted
<1> QED BY <1>1, <1>2, <1>3, <1>4, <1>5, <1>6, <1>7, <1>8, <1>9, <1>10, <1>11, <1>12,
           <1>13, <1>14, <1>15, <1>16, <1>17, <1>18, <1>19 DEF Next

\* One more element leaves a set of naturals with a greatest one.
LEMMA GreatestGrows ==
  ASSUME NEW S \in SUBSET Nat, S # {} => HasGreatest(S), NEW x \in Nat
  PROVE  HasGreatest(S \cup {x})
<1>1. CASE S = {}
  BY <1>1 DEF HasGreatest
<1>2. CASE S # {}
  <2>1. PICK m \in S : \A q \in S : q <= m
    BY <1>2, Zenon DEF HasGreatest
  <2>2. CASE x <= m
    <3>1. m \in S \cup {x} /\ \A q \in S \cup {x} : q <= m
      BY <2>1, <2>2, Zenon
    <3> QED BY <3>1, Zenon DEF HasGreatest
  <2>3. CASE ~ (x <= m)
    <3>1. x \in S \cup {x} /\ \A q \in S \cup {x} : q <= x
      BY <2>1, <2>3
    <3> QED BY <3>1, Zenon DEF HasGreatest
  <2> QED BY <2>2, <2>3, Zenon
<1> QED BY <1>1, <1>2, Zenon

\* Every action keeps a latest mapped generation: an allocation or a mapping
\* adds at most one to the mapped ones.
LEMMA LatestStep == ASSUME IInv, [Next]_vars PROVE LatestInv'
<1>1. TypeOK /\ LatestInv
  BY Zenon DEF IInv
<1>2. Mapped \in SUBSET Nat /\ pendingCounter \in Nat /\ procMapped \subseteq Nat
  BY <1>1, TypeOKNumbers DEF Mapped, Numbers
<1>3. CASE UNCHANGED <<procMapped, pendingCounter>>
  BY <1>1, <1>3, Zenon DEF LatestInv, Mapped
<1>4. ASSUME NEW x \in Nat, Mapped \subseteq Mapped', Mapped' \subseteq Mapped \cup {x}
      PROVE  LatestInv'
  <2>1. Mapped' = Mapped \/ Mapped' = Mapped \cup {x}
    BY <1>4, Zenon
  <2> QED BY <1>1, <1>2, <2>1, GreatestGrows, Zenon DEF LatestInv
<1>5. CASE inc_unique_pending_id
  <2>1. procMapped' = procMapped /\ pendingCounter' = pendingCounter + 1
    BY <1>5, Zenon DEF inc_unique_pending_id
  <2>2. \A q \in Nat : q <= pendingCounter + 1 <=> q <= pendingCounter \/ q = pendingCounter + 1
    BY <1>2
  <2>3. Mapped \subseteq Mapped' /\ Mapped' \subseteq Mapped \cup {pendingCounter + 1}
    BY <1>2, <2>1, <2>2, Zenon DEF Mapped
  <2>4. pendingCounter + 1 \in Nat
    BY <1>2
  <2> QED BY <1>4, <2>3, <2>4, Zenon
<1>6. ASSUME NEW x \in Nat, procMapped' = procMapped \cup {x}, UNCHANGED pendingCounter
      PROVE  LatestInv'
  <2>1. Mapped \subseteq Mapped' /\ Mapped' \subseteq Mapped \cup {x}
    BY <1>6, Zenon DEF Mapped
  <2> QED BY <1>4, <2>1, Zenon
<1>7. CASE set_new_unique_ids
  BY <1>2, <1>6, <1>7 DEF set_new_unique_ids
<1>8. CASE set_checkpoint_id_to_unique_pending_id_mapping
  <2>1. job.pending \in Nat
    BY <1>8, WritingJob DEF set_checkpoint_id_to_unique_pending_id_mapping, HasJob, Writing
  <2> QED BY <1>6, <1>8, <2>1, Zenon DEF set_checkpoint_id_to_unique_pending_id_mapping
<1>9. ASSUME ~ inc_unique_pending_id, ~ set_new_unique_ids,
             ~ set_checkpoint_id_to_unique_pending_id_mapping
      PROVE  UNCHANGED <<procMapped, pendingCounter>>
  <2>1. CASE new_init \/ EnsureGenesis \/ load_coordinator_memory_trees_from_db
             \/ InitCheck \/ get_results_from_gatherers
    BY <2>1, Zenon DEF new_init, EnsureGenesis, load_coordinator_memory_trees_from_db,
                       InitCheck, get_results_from_gatherers, durable
  <2>2. CASE plan_checkpoint_state_transition \/ SaveTransition
             \/ set_unique_pending_id_checkpoint_id_mapping
    BY <2>2, Zenon DEF plan_checkpoint_state_transition, SaveTransition,
                       set_unique_pending_id_checkpoint_id_mapping, durable
  <2>3. CASE WriteRows \/ WriteRecord \/ set_latest_checkpoint_id
             \/ append_checkpoint_leaf_hash \/ UpdateLastCommitted
    BY <2>3, Zenon DEF WriteRows, WriteRecord, set_latest_checkpoint_id,
                       append_checkpoint_leaf_hash, UpdateLastCommitted, durable
  <2>4. CASE StepFails \/ Crash \/ UNCHANGED vars
    BY <2>4, Zenon DEF StepFails, Crash, vars, durable
  <2> QED BY <1>9, <2>1, <2>2, <2>3, <2>4, Zenon DEF Next
<1> QED BY <1>3, <1>5, <1>7, <1>8, <1>9, Zenon

-----------------------------------------------------------------------------
(* Theorems.                                                               *)

\* IInv is inductive: it holds at every point of every behaviour.
LEMMA Inductive == ASSUME IInv, [Next]_vars PROVE IInv'
<1>0. TypeOK' /\ LatestInv'
  BY TypeStep, LatestStep
<1>1. CASE new_init
  BY <1>0, <1>1, NewInitStep, Zenon
<1>2. CASE EnsureGenesis
  BY <1>0, <1>2, EnsureGenesisStep, Zenon
<1>3. CASE load_coordinator_memory_trees_from_db
  BY <1>0, <1>3, LoadStep
<1>4. CASE InitCheck
  BY <1>0, <1>4, InitCheckStep
<1>5. CASE inc_unique_pending_id
  BY <1>0, <1>5, IncStep
<1>6. CASE set_new_unique_ids
  BY <1>0, <1>6, RotateStep
<1>7. CASE get_results_from_gatherers
  BY <1>0, <1>7, GatherStep
<1>8. CASE plan_checkpoint_state_transition
  BY <1>0, <1>8, PlanStep
<1>9. CASE SaveTransition
  BY <1>0, <1>9, SaveTransitionStep
<1>10. CASE set_unique_pending_id_checkpoint_id_mapping
  BY <1>0, <1>10, MapPendingStep
<1>11. CASE set_checkpoint_id_to_unique_pending_id_mapping
  BY <1>0, <1>11, MapCheckpointStep
<1>12. CASE WriteRows
  BY <1>0, <1>12, WriteRowsStep
<1>13. CASE WriteRecord
  BY <1>0, <1>13, WriteRecordStep
<1>14. CASE set_latest_checkpoint_id
  BY <1>0, <1>14, MarkerStep
<1>15. CASE append_checkpoint_leaf_hash
  BY <1>0, <1>15, AppendStep
<1>16. CASE UpdateLastCommitted
  BY <1>0, <1>16, MemoryStep
<1>17. CASE StepFails
  BY <1>0, <1>17, DownStep DEF StepFails
<1>18. CASE Crash
  BY <1>0, <1>18, DownStep, Zenon DEF Crash
<1>19. CASE UNCHANGED vars
  <2> USE <1>19 DEF vars, durable, maps, ids, lastCommitted, IInv
  <2>1. IdsInv'
    BY DEF IdsInv, Live, HasJob, Writing, Mapped, GenesisRuns, BlockRuns
  <2>2. PendingInv'
    BY DEF PendingInv, BlockBuilt, BlockRuns, HasJob, Writing, Live, Mapped
  <2>3. WriteInv'
    BY ZenonT(60) DEF WriteInv, Live, Writing, JobChain, get_checkpoint_chain_hash
  <2>4. GenesisInv' /\ RingInv'
    BY DEF GenesisInv, RingInv, Live, BlockBuilt, BlockRuns, HasJob, Writing, Complete
  <2>5. CommittedInv'
    BY CommittedFrame, Zenon
  <2> QED BY <1>0, <2>1, <2>2, <2>3, <2>4, <2>5
<1> QED BY Zenon, <1>1, <1>2, <1>3, <1>4, <1>5, <1>6, <1>7, <1>8, <1>9, <1>10, <1>11, <1>12,
           <1>13, <1>14, <1>15, <1>16, <1>17, <1>18, <1>19 DEF Next

\* The inductive invariant is an invariant of the specification.
THEOREM Invariance == Spec => []IInv
<1>1. IInv /\ [Next]_vars => IInv'
  BY Inductive, Zenon
<1> QED BY InitIInv, <1>1, PTL DEF Spec

\* Every variable keeps its type, also the generation that a restart reads
\* back from the database.
THEOREM TypeCorrect == Spec => []TypeOK
<1>1. IInv => TypeOK
  BY DEF IInv
<1> QED BY Invariance, <1>1, PTL

\* The marker never runs ahead of the records and mappings it covers.
THEOREM MarkerCoversComplete == Spec => []CommittedComplete
<1>1. IInv => CommittedComplete
  BY Zenon DEF IInv, CommittedInv
<1> QED BY Invariance, <1>1, PTL

\* Stored proofs of committed checkpoints form one chain.
THEOREM ChainIsContinuous == Spec => []ChainContinuous
<1>1. IInv => ChainContinuous
  BY DEF IInv, CommittedInv
<1> QED BY Invariance, <1>1, PTL

\* Later checkpoints come from later generations.
THEOREM GenerationsIncrease == Spec => []PendingIdsIncrease
<1>1. IInv => PendingIdsIncrease
  BY Zenon DEF IInv, CommittedInv
<1> QED BY Invariance, <1>1, PTL

\* The backup ring holds committed leaves only.
THEOREM RingIsCommitted == Spec => []RingFollowsMarker
<1>1. IInv => RingFollowsMarker
  BY Zenon DEF IInv, CommittedInv
<1> QED BY Invariance, <1>1, PTL

\* The checks of commit_state and of the ring's append never refuse the
\* single writer.
THEOREM WriterPassesItsChecks == Spec => []CommitNeverRefused
<1>1. IInv => CommitNeverRefused
  <2> SUFFICES ASSUME IInv PROVE CommitNeverRefused
    OBVIOUS
  <2> USE DEF IInv
  <2>1. pc = "commit" => CommitChecks
    <3> SUFFICES ASSUME pc = "commit", job.ckpt # 0 PROVE CommitChecks
      BY Zenon DEF CommitChecks
    <3>1. pc \in HasJob
      BY Zenon DEF HasJob
    <3>2. BlockRuns /\ ckptId = latest
      BY <3>1, WritingJob, Zenon DEF GenesisRuns
    <3>3. lastChain = get_checkpoint_chain_hash(ckptId)
      BY ZenonT(60) DEF WriteInv, Live
    <3> QED BY <3>2, <3>3, Zenon DEF CommitChecks, BlockRuns
  <2>2. ASSUME pc = "backup"
        PROVE  \/ job.ckpt = ringNext
               \/ job.ckpt = ringNext - 1 /\ ring[job.ckpt] = job.pending
    <3>1. pc \in HasJob
      BY <2>2, Zenon DEF HasJob, Writing
    <3>2. Numbers /\ (GenesisRuns \/ BlockRuns) /\ latest = job.ckpt
      BY <2>2, <3>1, WritingJob DEF IdsInv
    <3>3. CASE BlockRuns
      BY <2>2, <3>1, <3>3, Zenon DEF RingInv, BlockBuilt
    <3>4. CASE GenesisRuns
      <4>1. job.ckpt = 0 /\ job.pending = 0 /\ ringNext \in {0, 1}
        BY <3>2, <3>4 DEF GenesisRuns, CommittedInv, RingFollowsMarker, Numbers
      <4>2. ringNext = 1 => ring[0] = 0
        BY DEF RingInv, CommittedInv, RingFollowsMarker
      <4> QED BY <4>1, <4>2
    <3> QED BY <3>2, <3>3, <3>4, Zenon
  <2> QED BY <2>1, <2>2 DEF CommitNeverRefused
<1> QED BY Invariance, <1>1, PTL

\* The writes of commit_state go to a checkpoint that is not committed, or to
\* genesis.
LEMMA WritesBeyondMarker ==
  ASSUME IInv, pc \in HasJob, pc \notin {"backup", "memory"}
  PROVE  /\ job.ckpt \in Ckpt
         /\ \A c \in 1 .. latest : c \in Ckpt /\ c # job.ckpt
BY WritingJob DEF Numbers, Ckpt

\* What the database holds for committed blocks.
StoredUnchanged ==
  \A c \in 1 .. latest :
    /\ transition'[c] = transition[c] /\ c2p'[c] = c2p[c]
    /\ roots'[c] = roots[c]
    /\ \A k \in RecordKind : records'[k][c] = records[k][c]
    /\ \A k \in RowKind : rows'[k][c] = rows[k][c]

\* No step changes what is stored for a committed block.
LEMMA StoredStep == ASSUME IInv, [Next]_vars PROVE StoredUnchanged
<1> USE DEF StoredUnchanged
<1>1. CASE SaveTransition
  <2>1. pc \in HasJob /\ pc \notin {"backup", "memory"}
    BY <1>1, Zenon DEF SaveTransition, HasJob
  <2> QED BY <1>1, <2>1, WritesBeyondMarker DEF SaveTransition, IInv, TypeOK
<1>2. CASE set_checkpoint_id_to_unique_pending_id_mapping
  <2>1. pc \in HasJob /\ pc \notin {"backup", "memory"}
    BY <1>2, Zenon DEF set_checkpoint_id_to_unique_pending_id_mapping, HasJob, Writing
  <2> QED BY <1>2, <2>1, WritesBeyondMarker
          DEF set_checkpoint_id_to_unique_pending_id_mapping, IInv, TypeOK
<1>3. CASE WriteRows
  <2>1. pc \in HasJob /\ pc \notin {"backup", "memory"}
    BY <1>3 DEF WriteRows, HasJob, Writing
  <2>2. \A k \in RowKind : \A c \in 1 .. latest : rows'[k][c] = rows[k][c]
    BY <1>3, <2>1, WritesBeyondMarker, ZenonT(60) DEF WriteRows, IInv, TypeOK
  <2> QED BY <1>3, <2>2, Zenon DEF WriteRows, maps
<1>4. CASE WriteRecord
  <2>1. pc \in HasJob /\ pc \notin {"backup", "memory"}
    BY <1>4 DEF WriteRecord, HasJob, Writing
  <2>2. \A k \in RecordKind : \A c \in 1 .. latest : records'[k][c] = records[k][c]
    <3>1. records \in [RecordKind -> [Ckpt -> IdOrNone]]
      BY Zenon DEF IInv, TypeOK
    <3>2. records' = records
          \/ \E k \in RecordKind :
                records' = [records EXCEPT ![k][job.ckpt] = job.pending]
      BY <1>4, Zenon DEF WriteRecord
    <3> QED BY <2>1, <3>1, <3>2, WritesBeyondMarker
  <2>3. \A c \in 1 .. latest : roots'[c] = roots[c]
    BY <1>4, <2>1, WritesBeyondMarker DEF WriteRecord, IInv, TypeOK
  <2> QED BY <1>4, <2>2, <2>3, Zenon DEF WriteRecord, maps
<1>5. CASE UNCHANGED <<transition, c2p, roots, records, rows>>
  BY <1>5, Zenon
<1>6. CASE \/ new_init \/ EnsureGenesis \/ load_coordinator_memory_trees_from_db
           \/ InitCheck \/ inc_unique_pending_id \/ set_new_unique_ids
           \/ get_results_from_gatherers \/ plan_checkpoint_state_transition
           \/ set_unique_pending_id_checkpoint_id_mapping
           \/ set_latest_checkpoint_id \/ append_checkpoint_leaf_hash
           \/ UpdateLastCommitted \/ StepFails \/ Crash \/ UNCHANGED vars
  BY <1>5, <1>6, Zenon
     DEF new_init, EnsureGenesis, load_coordinator_memory_trees_from_db, InitCheck,
         inc_unique_pending_id, set_new_unique_ids, get_results_from_gatherers,
         plan_checkpoint_state_transition, set_unique_pending_id_checkpoint_id_mapping,
         set_latest_checkpoint_id, append_checkpoint_leaf_hash, UpdateLastCommitted,
         StepFails, Crash, vars, durable, maps
<1> QED BY <1>1, <1>2, <1>3, <1>4, <1>6, ZenonT(60) DEF Next

\* Nothing stored for a committed block is ever rewritten.
THEOREM CommittedIsFinal == Spec => CommittedNeverRewritten
<1>1. IInv /\ [Next]_vars => StoredUnchanged
  BY StoredStep, Zenon
<1>2. Spec => [][StoredUnchanged]_vars
  BY Invariance, <1>1, PTL DEF Spec
<1> QED BY <1>2, Zenon DEF CommittedNeverRewritten, StoredUnchanged

-----------------------------------------------------------------------------
(* Trees and roots.                                                        *)

\* Nodes and roots agree under the marker, and memory knows what lies in the
\* database at the next checkpoint.
THEOREM TreesInvariance == Spec => [](IInv /\ TreesInv)
<1>1. IInv /\ TreesInv /\ [Next]_vars => IInv' /\ TreesInv'
  BY Inductive, TreesStep, Zenon
<1>2. Init => IInv /\ TreesInv
  BY InitIInv, TreesInit, Zenon
<1> QED BY <1>1, <1>2, PTL DEF Spec

\* Nodes of an interrupted commit never end up under a committed root.
THEOREM TreesMatchRoots == Spec => []CommittedTreesMatchRoots
<1>1. IInv /\ TreesInv => CommittedTreesMatchRoots
  BY Zenon DEF TreesInv, StoredTrees, Settled, Match, CommittedTreesMatchRoots
<1> QED BY TreesInvariance, <1>1, PTL

\* A restart over a clean database resumes: the gatherers accept their trees
\* and the block they build passes the old-leaf check.
THEOREM CleanRestartResumes == Spec => []CleanStateResumes
BY TreesInvariance, CleanResumes, PTL

-----------------------------------------------------------------------------
(* The Coordinator implements CheckpointChain.                             *)

\* The committed chain as the refinement mapping shows it.
committedChain == [c \in 1 .. latest |-> c2p[c]]

\* Only the marker moves, by one.
LEMMA MarkerMoves ==
  ASSUME IInv, [Next]_vars
  PROVE  \/ latest' = latest
         \/ /\ latest' = latest + 1 /\ UNCHANGED c2p
            /\ c2p[latest + 1] \in Pending
            /\ \A c \in 1 .. latest : c2p[c] < c2p[latest + 1]
<1>1. CASE set_latest_checkpoint_id
  <2>1. pc \in HasJob /\ pc \notin {"backup", "memory"}
    BY <1>1 DEF set_latest_checkpoint_id, HasJob, Writing
  <2>2. /\ Numbers /\ ckptId = latest /\ job.pending \in Pending
        /\ GenesisRuns \/ BlockRuns
    BY <2>1, WritingJob, Zenon
  <2>3. CASE GenesisRuns
    BY <1>1, <2>2, <2>3, Zenon DEF set_latest_checkpoint_id, GenesisRuns
  <2>4. CASE BlockRuns
    <3>1. job.ckpt = latest + 1 /\ job.pending = processing
      BY <2>2, <2>4 DEF BlockRuns
    <3>2. c2p[job.ckpt] = processing
      BY <1>1, <3>1, Zenon DEF set_latest_checkpoint_id, IInv, WriteInv, Writing
    <3>3. \A c \in 0 .. ckptId : c2p[c] < processing
      BY <2>1, <2>4 DEF IInv, PendingInv, BlockBuilt
    <3> QED BY <1>1, <2>2, <3>1, <3>2, <3>3 DEF set_latest_checkpoint_id, Numbers, maps
  <2> QED BY <2>2, <2>3, <2>4, Zenon
<1>2. CASE ~set_latest_checkpoint_id
  BY <1>2, Zenon
     DEF Next, new_init, EnsureGenesis, load_coordinator_memory_trees_from_db, InitCheck,
         inc_unique_pending_id, set_new_unique_ids, get_results_from_gatherers,
         plan_checkpoint_state_transition, SaveTransition,
         set_unique_pending_id_checkpoint_id_mapping,
         set_checkpoint_id_to_unique_pending_id_mapping, WriteRows, WriteRecord,
         append_checkpoint_leaf_hash, UpdateLastCommitted, StepFails, Crash, vars, durable
<1> QED BY <1>1, <1>2, Zenon

\* Every step of the Coordinator is a step of the abstract chain or none.
LEMMA ChainStep == ASSUME IInv, [Next]_vars PROVE [Chain!Next]_committedChain
<1>1. Numbers /\ \A c \in 1 .. latest : c2p'[c] = c2p[c]
  BY TypeOKNumbers, StoredStep, Zenon DEF IInv, StoredUnchanged
<1>2. CASE latest' = latest
  <2>1. committedChain' = committedChain
    BY <1>1, <1>2 DEF committedChain
  <2> QED BY <2>1, Zenon
<1>3. CASE /\ latest' = latest + 1 /\ UNCHANGED c2p
           /\ c2p[latest + 1] \in Pending
           /\ \A c \in 1 .. latest : c2p[c] < c2p[latest + 1]
  <2> DEFINE p == c2p[latest + 1]
  <2>1. latest \in Nat /\ \A c \in 1 .. latest + 1 : c2p[c] \in Int
    BY <1>1, <1>3, BoundsAssumption DEF Numbers, Ckpt, Pending
  <2>2. committedChain \in Seq(Int) /\ Len(committedChain) = latest
    BY <2>1 DEF committedChain
  <2>3. committedChain' = Append(committedChain, p)
    <3>1. committedChain' = [c \in 1 .. latest + 1 |-> c2p[c]]
      BY <1>3, Zenon DEF committedChain
    <3>2. Append(committedChain, p)
            = [c \in 1 .. latest + 1 |-> IF c = latest + 1 THEN p ELSE committedChain[c]]
      BY <2>1, <2>2
    <3>3. \A c \in 1 .. latest + 1 : c # latest + 1 => committedChain[c] = c2p[c]
      BY <2>1 DEF committedChain
    <3> QED BY <3>1, <3>2, <3>3, Zenon
  <2>4. \A i \in 1 .. Len(committedChain) : committedChain[i] < p
    BY <1>3, <2>2, Zenon DEF committedChain
  <2>5. \E q \in Pending : /\ \A i \in 1 .. Len(committedChain) : committedChain[i] < q
                           /\ committedChain' = Append(committedChain, q)
    BY <1>3, <2>3, <2>4, Zenon
  <2> QED BY <2>5, Zenon DEF Chain!Next, Chain!Commit, committedChain
<1> QED BY <1>2, <1>3, MarkerMoves

\* The Coordinator implements an append-only chain of ever newer generations:
\* a reader never sees a committed entry change, disappear or appear twice.
THEOREM Refinement == Spec => ChainSpec
<1>1. Init => Chain!Init
  BY DEF Init, Chain!Init
<1>2. IInv /\ [Next]_vars => [Chain!Next]_committedChain
  BY ChainStep, Zenon
<1>3. Spec => Chain!Init /\ [][Chain!Next]_committedChain
  BY <1>1, <1>2, Invariance, PTL DEF Spec
<1> QED BY <1>3, PTL DEF ChainSpec, Chain!Spec, committedChain
=============================================================================
