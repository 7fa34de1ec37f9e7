--------------------- MODULE CoordinatorCommitInvariant ----------------------
(***************************************************************************)
(* The inductive invariant of CoordinatorCommit, and the proof that        *)
(* startup, rotation, gathering, planning and the writes of commit_state   *)
(* up to the marker keep it.                                               *)
(*                                                                         *)
(* The properties speak of what is committed; IInv adds what the           *)
(* processor's memory has in common with the database while it runs, how   *)
(* far the writes of the current block have come, and that the mapped      *)
(* generations have a latest one.                                          *)
(***************************************************************************)
EXTENDS CoordinatorCommit, TLAPS

\* Steps of commit_state after its checks, and steps that have a block.
Writing == {"map_pending", "map_checkpoint", "rows", "records", "marker",
            "backup", "memory"}
HasJob == {"prove", "commit"} \cup Writing

Live == pc \notin {"down", "parked"}

GenesisRuns == /\ job.ckpt = 0 /\ job.pending = 0 /\ ckptId = 0
               /\ job.then \in {"load", "rotate_init"}
               /\ pc # "prove"
BlockRuns == /\ job.ckpt = ckptId + 1 /\ job.ckpt \in Ckpt
             /\ job.pending = processing
             /\ job.then = "idle"

BlockBuilt == pc \in HasJob /\ BlockRuns

\* Checkpoint c has both mappings and every record, of one attempt.
Complete(c) == /\ c2p[c] \in Pending
               /\ p2c[c2p[c]] = c
               /\ \A k \in RecordKind : records[k][c] = c2p[c]

\* S has a greatest element.
HasGreatest(S) == \E m \in S : \A q \in S : q <= m

\* The CHOOSE of get_latest_mapped_unique_pending_id finds an element.
LatestInv == Mapped # {} => HasGreatest(Mapped)

\* Memory and marker agree, and the job is genesis or the next checkpoint.
IdsInv ==
  /\ latest >= 1 => Mapped # {}
  /\ Live /\ pc \notin {"backup", "memory"} => ckptId = latest
  /\ pc \in {"backup", "memory"} => latest = job.ckpt
  /\ pc \in {"rotated", "rotated_init", "gather"} => ckptId < MaxCheckpoint
  /\ pc \in HasJob => GenesisRuns \/ BlockRuns

\* Every generation in use is newer than every committed one, and an
\* attempt is mapped only after the generation behind it.
PendingInv ==
  /\ \A c \in Ckpt : c2p[c] <= pendingCounter
  /\ \A p \in Pending : p2c[p] >= 1 => \E q \in Mapped : p < q
  /\ Live => gathering <= pendingCounter
  /\ pc \in {"rotated", "rotated_init"} => gathering < pendingCounter
  /\ pc = "rotated_init" => \A c \in Ckpt : c2p[c] < pendingCounter
  /\ pc \in {"idle", "rotated", "gather"} \/ BlockBuilt => gathering \in Mapped
  /\ pc \in {"idle", "rotated"} => \A c \in 0 .. latest : c2p[c] < gathering
  /\ pc = "gather" \/ BlockBuilt =>
       /\ processing < gathering
       /\ \A c \in 0 .. ckptId : c2p[c] < processing

\* What the current block has written so far.
WriteInv ==
  /\ Live => lastChain = get_checkpoint_chain_hash(ckptId)
  /\ pc \in Writing => (job.ckpt # 0 => transition[job.ckpt] = JobChain)
  /\ pc \in Writing \ {"map_pending"} => p2c[job.pending] = job.ckpt
  /\ pc \in Writing \ {"map_pending", "map_checkpoint"} => c2p[job.ckpt] = job.pending
  /\ pc = "records" =>
       \A i \in 1 .. 6 : (i < step /\ RecordOrder[i] \in RecordKind) =>
         records[RecordOrder[i]][job.ckpt] = job.pending
  /\ pc \in {"marker", "backup", "memory"} =>
       \A k \in RecordKind : records[k][job.ckpt] = job.pending

\* Genesis is complete before a block is built on it.
GenesisInv ==
  /\ c2p[0] \in {NoId, 0}
  /\ \A k \in RecordKind : records[k][0] \in {NoId, 0}
  /\ Live /\ l2Loaded => Complete(0)
  /\ Live /\ ~l2Loaded => lastRoots["user"] = {0}
  /\ pc = "prove" /\ ~l2Loaded => job.start["user"] = {}
  /\ pc # "prove" /\ BlockBuilt => l2Loaded

\* The ring ends at the marker when a block is committed.
RingInv ==
  /\ ringNext >= 1 => records["tree_leaf"][0] = 0
  /\ pc \notin {"prove", "memory"} /\ BlockBuilt => ringNext = job.ckpt

\* What readers of the database rely on.
CommittedInv == /\ CommittedComplete /\ ChainContinuous /\ PendingIdsIncrease
                /\ RingFollowsMarker

IInv == /\ TypeOK /\ LatestInv /\ IdsInv /\ PendingInv /\ WriteInv /\ GenesisInv
        /\ RingInv /\ CommittedInv
-----------------------------------------------------------------------------
(* Lemmas.                                                                 *)

\* The numbers behind the types, as the provers use them.
Numbers ==
  /\ MaxCheckpoint \in Nat /\ MaxPending \in Nat
  /\ latest \in 0 .. MaxCheckpoint /\ ckptId \in 0 .. MaxCheckpoint
  /\ pendingCounter \in 0 .. MaxPending /\ procMapped \subseteq Nat
  /\ gathering \in 0 .. MaxPending /\ processing \in 0 .. MaxPending
  /\ ringNext \in 0 .. MaxCheckpoint + 1
  /\ \A c \in Ckpt : c2p[c] \in Int
  /\ \A p \in Pending : p2c[p] \in Int

\* Type correctness gives the numbers.
LEMMA TypeOKNumbers == TypeOK => Numbers
BY BoundsAssumption DEF TypeOK, Numbers, Ckpt, Pending, IdOrNone, NoId

\* The latest mapped pending id is the greatest element of Mapped; with
\* nothing mapped it is 0 before the first allocation and missing after it.
LEMMA LatestMapped ==
  ASSUME TypeOK, LatestInv
  PROVE  IF Mapped = {}
           THEN get_latest_mapped_unique_pending_id
                  = IF pendingCounter = 0 THEN 0 ELSE NoId
           ELSE /\ get_latest_mapped_unique_pending_id \in Mapped
                /\ \A q \in Mapped : q <= get_latest_mapped_unique_pending_id
<1>1. /\ Mapped \in SUBSET Nat /\ pendingCounter \in Nat
      /\ \A x \in Mapped : x <= pendingCounter
  BY TypeOKNumbers DEF Mapped, Numbers
<1>2. CASE Mapped = {}
  BY <1>2, Zenon DEF get_latest_mapped_unique_pending_id
<1>3. CASE Mapped # {}
  <2>1. \E m \in Mapped : \A x \in Mapped : x <= m
    BY <1>3, Zenon DEF LatestInv, HasGreatest
  <2>2. pendingCounter # 0
    BY <1>1, <1>3 DEF Mapped
  <2> QED BY <2>1, <2>2, <1>3, Zenon DEF get_latest_mapped_unique_pending_id
<1> QED BY <1>2, <1>3, Zenon

\* The startup check never answers NeedsRecovery: a generation that was
\* mapped to a checkpoint has a newer one mapped behind it, and that one has
\* no checkpoint.
LEMMA CheckState ==
  ASSUME TypeOK, LatestInv, PendingInv
  PROVE  /\ get_database_check_state \in {"NeedsGenesis", "Ready", "Inconsistent"}
         /\ get_database_check_state = "NeedsGenesis" => latest = 0
<1> DEFINE last == get_latest_mapped_unique_pending_id
<1>1. Numbers
  BY TypeOKNumbers, Zenon
<1>2. last # NoId => last \in Pending /\ ~ (p2c[last] >= 1)
  <2>1. CASE Mapped = {}
    <3>1. last # NoId => last = 0
      BY <2>1, LatestMapped, Zenon
    <3> HIDE DEF last
    <3> QED BY <1>1, <2>1, <3>1 DEF PendingInv, Pending, Numbers
  <2>2. CASE Mapped # {}
    <3>1. last \in Mapped /\ \A q \in Mapped : q <= last
      BY <2>2, LatestMapped, Zenon
    <3> HIDE DEF last
    <3> QED BY <3>1, <1>1 DEF PendingInv, Mapped, Pending, Numbers
  <2> QED BY <2>1, <2>2, Zenon
<1> HIDE DEF last
<1>3. last # NoId => p2c[last] # latest + 1
  BY <1>1, <1>2 DEF Numbers
<1>4. get_database_check_state =
        IF last = NoId THEN IF latest = 0 THEN "NeedsGenesis" ELSE "Inconsistent"
        ELSE IF p2c[last] = NoId THEN IF latest = 0 THEN "NeedsGenesis" ELSE "Ready"
        ELSE IF p2c[last] = latest THEN "Ready"
        ELSE IF p2c[last] = latest + 1 THEN "NeedsRecovery"
        ELSE "Inconsistent"
  BY Zenon DEF get_database_check_state, last
<1> QED BY <1>3, <1>4, Zenon

\* A step that leaves the committed records alone keeps what holds of them.
LEMMA CommittedFrame ==
  ASSUME CommittedInv,
         UNCHANGED <<latest, c2p, p2c, transition, records, ring, ringNext>>
  PROVE  CommittedInv'
BY DEF CommittedInv, CommittedComplete, ChainContinuous, PendingIdsIncrease,
       RingFollowsMarker, get_checkpoint_chain_hash

-----------------------------------------------------------------------------
(* Every action keeps IInv, given that it keeps the types.                 *)

\* Startup reads the committed state back.
LEMMA NewInitStep == ASSUME IInv, new_init, TypeOK', LatestInv' PROVE IInv'
<1> USE DEF IInv
<1>1. Numbers
  BY TypeOKNumbers, Zenon
<1>2. gathering' <= pendingCounter
  <2>1. CASE latest = 0
    BY <1>1, <2>1 DEF new_init, Numbers
  <2>2. CASE latest # 0
    BY <1>1, <2>2, LatestMapped DEF new_init, IdsInv, Mapped, Numbers
  <2> QED BY <2>1, <2>2, Zenon
<1>3. IdsInv'
  BY Zenon DEF new_init, IdsInv, Live, HasJob, Writing, Mapped, maps
<1>4. PendingInv'
  BY <1>2, Zenon DEF new_init, PendingInv, BlockBuilt, HasJob, Writing, Live, Mapped, maps
<1>5. WriteInv'
  BY Zenon DEF new_init, WriteInv, Writing, get_checkpoint_chain_hash, maps
<1>6. GenesisInv'
  <2>1. l2Loaded' => Complete(0)
    <3>1. latest # 0 => Complete(0)
      BY <1>1 DEF CommittedInv, CommittedComplete, Complete, Numbers
    <3>2. l2Loaded' => latest # 0
      BY Zenon DEF new_init
    <3> QED BY <3>1, <3>2, Zenon
  <2>2. GenesisRoots["user"] = {0}
    BY GenesisAssumption, Zenon DEF GenesisRoots, Part
  <2> QED BY <2>1, <2>2, Zenon DEF new_init, GenesisInv, BlockBuilt, HasJob, Writing, Live,
                            Complete, maps
<1>7. records["tree_leaf"][latest] # NoId => records["tree_leaf"][0] = 0
  <2>1. CASE latest = 0
    BY <2>1, Zenon DEF GenesisInv, RecordKind
  <2>2. CASE latest # 0
    BY <1>1, <2>2 DEF CommittedInv, CommittedComplete, GenesisInv, RecordKind, Numbers,
                      Pending, NoId
  <2> QED BY <2>1, <2>2, Zenon
<1>8. RingInv'
  BY <1>7, Zenon DEF new_init, sync_from_database, RingInv, BlockBuilt, HasJob, Writing
<1>9. CommittedInv'
  <2>1. RingFollowsMarker'
    BY <1>1 DEF new_init, sync_from_database, CommittedInv, RingFollowsMarker, Numbers,
                Ckpt, maps
  <2> QED BY <2>1, Zenon DEF new_init, CommittedInv, CommittedComplete, ChainContinuous,
                      PendingIdsIncrease, get_checkpoint_chain_hash, maps
<1> QED BY <1>3, <1>4, <1>5, <1>6, <1>8, <1>9, Zenon

\* A startup check: genesis is run at checkpoint 0, or no block is.
LEMMA GenesisOrNone ==
  ASSUME IInv, NEW then \in {"load", "rotate_init"}, Live,
         pc \notin HasJob \cup {"idle", "rotated", "rotated_init", "gather"},
         \/ latest = 0 /\ pc' = "commit" /\ job' = GenesisJob(then)
         \/ pc' \in {"down", "load", "rotate_init"},
         UNCHANGED <<durable, ids, lastCommitted>>
  PROVE  IdsInv' /\ PendingInv' /\ WriteInv' /\ GenesisInv' /\ RingInv' /\ CommittedInv'
<1> USE DEF IInv
<1>1. ckptId = latest /\ ckptId' = ckptId /\ latest' = latest
  BY Zenon DEF IdsInv, HasJob, Writing, ids, durable
<1>2. ~BlockBuilt'
  BY DEF BlockBuilt, BlockRuns, HasJob, Writing, GenesisJob
<1>3. IdsInv'
  BY <1>1 DEF IdsInv, Live, HasJob, Writing, Mapped, GenesisRuns, GenesisJob, durable
<1>4. PendingInv'
  BY <1>2, Zenon DEF PendingInv, Live, Mapped, durable, maps, ids
<1>5. WriteInv'
  BY <1>1, Zenon DEF WriteInv, Live, Writing, get_checkpoint_chain_hash, durable, maps,
              lastCommitted
<1>6. GenesisInv'
  BY <1>2, Zenon DEF GenesisInv, Live, Complete, durable, maps, lastCommitted
<1>7. RingInv'
  BY <1>2, Zenon DEF RingInv, durable
<1>8. CommittedInv'
  BY CommittedFrame, Zenon DEF durable, maps
<1> QED BY <1>3, <1>4, <1>5, <1>6, <1>7, <1>8, Zenon

\* ensure_genesis_applied runs genesis or leaves the state alone.
LEMMA EnsureGenesisStep == ASSUME IInv, EnsureGenesis, TypeOK', LatestInv' PROVE IInv'
<1>1. \/ latest = 0 /\ pc' = "commit" /\ job' = GenesisJob("load")
      \/ pc' \in {"down", "load", "rotate_init"}
  BY CheckState, Zenon DEF IInv, EnsureGenesis
<1> QED BY <1>1, GenesisOrNone, Zenon DEF IInv, EnsureGenesis, Live, HasJob, Writing

\* The second check, in init_with_setup_and_genesis, behaves the same.
LEMMA InitCheckStep == ASSUME IInv, InitCheck, TypeOK', LatestInv' PROVE IInv'
<1>1. \/ latest = 0 /\ pc' = "commit" /\ job' = GenesisJob("rotate_init")
      \/ pc' \in {"down", "load", "rotate_init"}
  BY CheckState, Zenon DEF IInv, InitCheck
<1> QED BY <1>1, GenesisOrNone, Zenon DEF IInv, InitCheck, Live, HasJob, Writing

\* Loading the trees touches nothing else.
LEMMA LoadStep ==
  ASSUME IInv, load_coordinator_memory_trees_from_db, TypeOK', LatestInv' PROVE IInv'
<1> USE DEF IInv, load_coordinator_memory_trees_from_db, durable, maps, ids, lastCommitted
<1>1. IdsInv'
  BY Zenon DEF IdsInv, Live, HasJob, Writing, Mapped
<1>2. PendingInv'
  BY Zenon DEF PendingInv, BlockBuilt, HasJob, Writing, Live, Mapped
<1>3. WriteInv'
  BY Zenon DEF WriteInv, Live, Writing, get_checkpoint_chain_hash
<1>4. GenesisInv' /\ RingInv'
  BY DEF GenesisInv, RingInv, Live, BlockBuilt, HasJob, Writing, Complete
<1>5. CommittedInv'
  BY CommittedFrame, Zenon
<1> QED BY <1>1, <1>2, <1>3, <1>4, <1>5, Zenon

\* A crash or a failed step ends what the processor's memory promises.
LEMMA DownStep ==
  ASSUME IInv, pc' \in {"down", "parked"}, UNCHANGED durable, TypeOK', LatestInv'
  PROVE  IInv'
<1> USE DEF IInv, durable, maps
<1>1. ~Live' /\ pc' \notin HasJob
  BY Zenon DEF Live, HasJob, Writing
<1>2. IdsInv'
  BY <1>1, Zenon DEF IdsInv, Mapped
<1>3. PendingInv'
  BY <1>1, Zenon DEF PendingInv, BlockBuilt, Mapped
<1>4. WriteInv'
  BY <1>1, Zenon DEF WriteInv, Writing
<1>5. GenesisInv' /\ RingInv'
  BY <1>1, Zenon DEF GenesisInv, RingInv, BlockBuilt, Complete
<1>6. CommittedInv'
  BY CommittedFrame, Zenon
<1> QED BY <1>2, <1>3, <1>4, <1>5, <1>6, Zenon

\* The counter is incremented: one generation beyond everything in use.
LEMMA IncStep == ASSUME IInv, inc_unique_pending_id, TypeOK', LatestInv' PROVE IInv'
<1> USE DEF IInv, inc_unique_pending_id, maps, ids, lastCommitted
<1>1. Numbers
  BY TypeOKNumbers, Zenon
<1>2. Mapped \subseteq Mapped'
  <2>1. procMapped' = procMapped /\ pendingCounter' = pendingCounter + 1
    OBVIOUS
  <2>2. \A p \in procMapped : p <= pendingCounter => p <= pendingCounter + 1
    BY <1>1 DEF Numbers
  <2> QED BY <2>1, <2>2, Zenon DEF Mapped
<1>3. IdsInv'
  BY <1>2, Zenon DEF IdsInv, Live, HasJob, Writing
<1>4. PendingInv'
  <2>1. \A c \in Ckpt : c2p[c] < pendingCounter'
    BY <1>1 DEF PendingInv, Numbers
  <2>2. \A p \in Pending : p2c'[p] >= 1 => \E q \in Mapped' : p < q
    BY <1>2, Zenon DEF PendingInv
  <2>3. gathering' < pendingCounter'
    BY <1>1 DEF PendingInv, Numbers, Live
  <2> QED BY <1>1, <1>2, <2>1, <2>2, <2>3
          DEF PendingInv, BlockBuilt, HasJob, Writing, Numbers
<1>5. WriteInv'
  BY Zenon DEF WriteInv, Live, Writing, get_checkpoint_chain_hash
<1>6. GenesisInv' /\ RingInv'
  BY Zenon DEF GenesisInv, RingInv, Live, BlockBuilt, HasJob, Writing, Complete
<1>7. CommittedInv'
  BY CommittedFrame, Zenon
<1> QED BY <1>3, <1>4, <1>5, <1>6, <1>7

\* Rotation: the gathering generation becomes the processing one.
LEMMA RotateStep == ASSUME IInv, set_new_unique_ids, TypeOK', LatestInv' PROVE IInv'
<1> USE DEF IInv, set_new_unique_ids, maps, lastCommitted
<1>1. Numbers
  BY TypeOKNumbers, Zenon
<1>2. Mapped \subseteq Mapped' /\ gathering' \in Mapped'
  <2>1. gathering < pendingCounter
    BY Zenon DEF PendingInv
  <2> QED BY <1>1, <2>1 DEF Mapped, Numbers
<1>3. IdsInv'
  BY <1>2, Zenon DEF IdsInv, Live, HasJob, Writing
<1>4. PendingInv'
  <2>1. \A p \in Pending : p2c'[p] >= 1 => \E q \in Mapped' : p < q
    BY <1>2, Zenon DEF PendingInv
  <2>2. CASE pc = "rotated_init"
    BY <1>1, <1>2, <2>1, <2>2 DEF PendingInv, BlockBuilt, HasJob, Writing, Numbers, Ckpt
  <2>3. CASE pc = "rotated"
    <3>1. ckptId = latest
      BY <2>3, Zenon DEF IdsInv, Live
    <3> QED BY <1>1, <1>2, <2>1, <2>3, <3>1
            DEF PendingInv, BlockBuilt, HasJob, Writing, Numbers
  <2> QED BY <2>2, <2>3
<1>5. WriteInv'
  BY Zenon DEF WriteInv, Live, Writing, get_checkpoint_chain_hash
<1>6. GenesisInv' /\ RingInv'
  BY Zenon DEF GenesisInv, RingInv, Live, BlockBuilt, HasJob, Writing, Complete
<1>7. CommittedInv'
  BY CommittedFrame, Zenon
<1> QED BY <1>3, <1>4, <1>5, <1>6, <1>7

\* Gathering builds the block of the next checkpoint, or parks.
LEMMA GatherStep ==
  ASSUME IInv, get_results_from_gatherers, TypeOK', LatestInv'
  PROVE  IInv'
<1> USE DEF IInv
<1>1. CASE pc' = "parked"
  BY <1>1, DownStep DEF get_results_from_gatherers, durable, maps
<1>2. CASE pc' = "prove"
  <2> USE <1>2 DEF get_results_from_gatherers, maps, ids, lastCommitted
  <2>1. Numbers /\ ckptId = latest /\ ckptId < MaxCheckpoint
    BY TypeOKNumbers, Zenon DEF IdsInv, Live
  <2>2. /\ job'.ckpt = ckptId + 1 /\ job'.pending = processing /\ job'.then = "idle"
        /\ job'.start = trees
        /\ BuilderAccepts
    OBVIOUS
  <2>3. BlockRuns'
    BY <2>1, <2>2 DEF BlockRuns, Numbers, Ckpt
  <2>4. IdsInv'
    BY <2>3, Zenon DEF IdsInv, Live, HasJob, Writing, Mapped
  <2>5. PendingInv'
    BY Zenon DEF PendingInv, BlockBuilt, HasJob, Writing, Live, Mapped
  <2>6. WriteInv'
    BY Zenon DEF WriteInv, Live, Writing, get_checkpoint_chain_hash
  <2>7. GenesisInv'
    BY <2>2, Zenon DEF GenesisInv, Live, BlockBuilt, HasJob, Writing, Complete, BuilderAccepts
  <2>8. RingInv'
    BY Zenon DEF RingInv
  <2>9. CommittedInv'
    BY CommittedFrame, Zenon
  <2> QED BY <2>4, <2>5, <2>6, <2>7, <2>8, <2>9, Zenon
<1> QED BY <1>1, <1>2, Zenon DEF get_results_from_gatherers

\* A block passes the old-leaf check only on a complete genesis and a ring
\* that ends at the marker.
LEMMA PlanStep ==
  ASSUME IInv, plan_checkpoint_state_transition, TypeOK', LatestInv'
  PROVE  IInv'
<1> USE DEF IInv
<1>1. CASE ~OldLeafMatches
  BY <1>1, DownStep, Zenon DEF plan_checkpoint_state_transition
<1>2. CASE OldLeafMatches
  <2> USE <1>2 DEF plan_checkpoint_state_transition, durable, maps, ids, lastCommitted
  <2>1. Numbers /\ ckptId = latest /\ BlockRuns
    BY TypeOKNumbers, Zenon DEF IdsInv, Live, HasJob, Writing, GenesisRuns
  <2>2. l2Loaded
    BY Zenon DEF GenesisInv, OldLeafMatches, Live
  <2>3. ringNext = job.ckpt
    BY <2>1 DEF OldLeafMatches, CommittedInv, RingFollowsMarker, Numbers, BlockRuns
  <2>4. IdsInv'
    BY <2>1, Zenon DEF IdsInv, Live, HasJob, Writing, Mapped, BlockRuns
  <2>5. PendingInv'
    BY <2>1, Zenon DEF PendingInv, BlockBuilt, BlockRuns, HasJob, Writing, Live, Mapped
  <2>6. WriteInv'
    BY Zenon DEF WriteInv, Live, Writing, get_checkpoint_chain_hash
  <2>7. GenesisInv' /\ RingInv'
    BY <2>2, <2>3, Zenon DEF GenesisInv, RingInv, Live, Complete
  <2>8. CommittedInv'
    BY CommittedFrame, Zenon
  <2> QED BY <2>4, <2>5, <2>6, <2>7, <2>8, Zenon
<1> QED BY <1>1, <1>2, Zenon

\* The facts about a job whose writes run: it is genesis, or the checkpoint
\* after the marker.
LEMMA WritingJob ==
  ASSUME IInv, pc \in HasJob
  PROVE  /\ Numbers
         /\ job.ckpt \in Ckpt /\ job.pending \in Pending
         /\ job.ckpt \in Nat /\ job.pending \in Nat
         /\ GenesisRuns \/ BlockRuns
         /\ pc \notin {"backup", "memory"} => ckptId = latest
         /\ pc \notin {"backup", "memory"} => job.ckpt = 0 \/ job.ckpt = latest + 1
         /\ pc \notin {"backup", "memory"} /\ job.ckpt = 0 => latest = 0
<1> USE DEF IInv
<1>1. Numbers /\ (GenesisRuns \/ BlockRuns)
  BY TypeOKNumbers, Zenon DEF IdsInv
<1>2. pc \notin {"backup", "memory"} => ckptId = latest
  BY Zenon DEF IdsInv, Live, HasJob, Writing
<1>3. job.ckpt \in Ckpt /\ job.pending \in Pending
  BY <1>1 DEF GenesisRuns, BlockRuns, Numbers, Ckpt, Pending
<1> QED BY <1>1, <1>2, <1>3 DEF GenesisRuns, BlockRuns, Numbers, Ckpt, Pending

\* The checks always hold; the transition goes to an uncommitted checkpoint.
LEMMA SaveTransitionStep == ASSUME IInv, SaveTransition, TypeOK', LatestInv' PROVE IInv'
<1> USE DEF IInv
<1>1. CASE ~CommitChecks
  BY <1>1, DownStep, Zenon DEF SaveTransition, durable, maps
<1>2. CASE CommitChecks
  <2> USE <1>2 DEF SaveTransition, ids, lastCommitted
  <2>1. pc \in HasJob
    BY Zenon DEF HasJob
  <2>2. Numbers /\ job.ckpt \in Ckpt /\ job.ckpt \in Nat /\ ckptId = latest
        /\ (job.ckpt = 0 \/ job.ckpt = latest + 1)
    BY <2>1, WritingJob, Zenon
  <2>3. /\ transition'[job.ckpt] = JobChain
        /\ \A c \in Ckpt : c # job.ckpt => transition'[c] = transition[c]
    BY <2>2 DEF TypeOK
  <2>4. \A c \in 0 .. latest :
          get_checkpoint_chain_hash(c)' = get_checkpoint_chain_hash(c)
    BY <2>2, <2>3 DEF get_checkpoint_chain_hash, Numbers, Ckpt
  <2>5. IdsInv'
    BY Zenon DEF IdsInv, Live, HasJob, Writing, Mapped, GenesisRuns, BlockRuns
  <2>6. PendingInv'
    BY Zenon DEF PendingInv, BlockBuilt, BlockRuns, HasJob, Writing, Live, Mapped
  <2>7. WriteInv'
    <3>1. lastChain' = get_checkpoint_chain_hash(ckptId)'
      BY <2>2, <2>4 DEF WriteInv, Live, Numbers
    <3> QED BY <3>1, <2>3, ZenonT(60) DEF WriteInv, Writing, JobChain
  <2>8. GenesisInv' /\ RingInv'
    BY Zenon DEF GenesisInv, RingInv, Live, BlockBuilt, BlockRuns, HasJob, Writing, Complete
  <2>9. CommittedInv'
    <3>1. \A c \in 1 .. latest : transition'[c] = transition[c]
      BY <2>2, <2>3 DEF Numbers, Ckpt
    <3>2. ChainContinuous'
      BY <2>2, <2>4, <3>1 DEF CommittedInv, ChainContinuous, Numbers
    <3> QED BY <3>2, Zenon DEF CommittedInv, CommittedComplete, PendingIdsIncrease,
                        RingFollowsMarker
  <2> QED BY <2>5, <2>6, <2>7, <2>8, <2>9
<1> QED BY <1>1, <1>2

\* The attempt is newer than every committed one: no mapping is overwritten.
LEMMA MapPendingStep ==
  ASSUME IInv, set_unique_pending_id_checkpoint_id_mapping, TypeOK', LatestInv'
  PROVE  IInv'
<1> USE DEF IInv, set_unique_pending_id_checkpoint_id_mapping, ids, lastCommitted
<1>1. pc \in HasJob
  BY Zenon DEF HasJob, Writing
<1>2. /\ Numbers /\ job.ckpt \in Nat /\ job.pending \in Pending /\ ckptId = latest
      /\ GenesisRuns \/ BlockRuns
  BY <1>1, WritingJob, Zenon
<1>3. /\ p2c'[job.pending] = job.ckpt
      /\ \A p \in Pending : p # job.pending => p2c'[p] = p2c[p]
  BY <1>2, Zenon DEF TypeOK
<1> /\ pc = "map_pending" /\ pc' = "map_checkpoint"
    /\ UNCHANGED <<latest, pendingCounter, procMapped, c2p, transition, records, ring,
                   ringNext, ids, lastCommitted, job>>
  BY Zenon
<1> HIDE DEF set_unique_pending_id_checkpoint_id_mapping
<1>4. IdsInv'
  BY Zenon DEF IdsInv, Live, HasJob, Writing, Mapped, GenesisRuns, BlockRuns
<1>5. PendingInv'
  <2>1. Mapped' = Mapped
    BY Zenon DEF Mapped
  <2>2. job.ckpt >= 1 => \E q \in Mapped : job.pending < q
    BY <1>1, <1>2 DEF PendingInv, BlockBuilt, GenesisRuns, BlockRuns
  <2>3. \A p \in Pending : p2c'[p] >= 1 => \E q \in Mapped' : p < q
    BY <1>3, <2>1, <2>2, Zenon DEF PendingInv
  <2> QED BY <2>1, <2>3, Zenon DEF PendingInv, BlockBuilt, BlockRuns, HasJob, Writing, Live
<1>6. WriteInv'
  BY <1>3, Zenon DEF WriteInv, Live, Writing, JobChain, get_checkpoint_chain_hash
<1>7. \A c \in 0 .. latest : Complete(c) => Complete(c)'
  <2> SUFFICES ASSUME NEW c \in 0 .. latest, Complete(c) PROVE Complete(c)'
    OBVIOUS
  <2>1. CASE GenesisRuns
    BY <1>2, <1>3, <2>1 DEF Complete, GenesisRuns, GenesisInv, NoId, Numbers
  <2>2. CASE BlockRuns
    <3>1. c2p[c] < job.pending
      BY <1>1, <1>2, <2>2, Zenon DEF PendingInv, BlockBuilt, BlockRuns
    <3>2. c2p[c] \in Pending /\ c2p[c] # job.pending
      BY <1>2, <3>1 DEF Complete, Pending, Numbers
    <3> QED BY <1>3, <3>2, Zenon DEF Complete
  <2> QED BY <1>2, <2>1, <2>2, Zenon
<1>8. GenesisInv' /\ RingInv'
  <2>1. Complete(0) => Complete(0)'
    BY <1>2, <1>7 DEF Numbers
  <2> QED BY <2>1, Zenon DEF GenesisInv, RingInv, Live, BlockBuilt, BlockRuns, HasJob, Writing
<1>9. CommittedInv'
  <2>1. CommittedComplete'
    BY <1>7, ZenonT(60) DEF CommittedInv, CommittedComplete, Complete
  <2> QED BY <2>1, Zenon DEF CommittedInv, ChainContinuous, PendingIdsIncrease,
                      RingFollowsMarker, get_checkpoint_chain_hash
<1> QED BY <1>4, <1>5, <1>6, <1>8, <1>9, Zenon

\* The checkpoint is not committed yet, or it is genesis written again.
LEMMA MapCheckpointStep ==
  ASSUME IInv, set_checkpoint_id_to_unique_pending_id_mapping, TypeOK', LatestInv'
  PROVE  IInv'
<1> USE DEF IInv, set_checkpoint_id_to_unique_pending_id_mapping, ids, lastCommitted
<1>1. pc \in HasJob
  BY Zenon DEF HasJob, Writing
<1>2. /\ Numbers /\ job.ckpt \in Ckpt /\ job.pending \in Nat /\ job.pending \in Pending
      /\ ckptId = latest
      /\ GenesisRuns \/ BlockRuns
  BY <1>1, WritingJob, Zenon
<1>3. /\ c2p'[job.ckpt] = job.pending
      /\ \A c \in Ckpt : c # job.ckpt => c2p'[c] = c2p[c]
  BY <1>2, Zenon DEF TypeOK
<1> /\ pc = "map_checkpoint" /\ pc' = "rows" /\ procMapped \subseteq procMapped'
    /\ UNCHANGED <<latest, pendingCounter, p2c, transition, records, ring, ringNext, ids,
                   lastCommitted, job>>
  BY Zenon
<1> HIDE DEF set_checkpoint_id_to_unique_pending_id_mapping
<1>4. Mapped \subseteq Mapped'
  BY Zenon DEF Mapped
<1>5. IdsInv'
  BY <1>4, Zenon DEF IdsInv, Live, HasJob, Writing, GenesisRuns, BlockRuns
<1>6. PendingInv'
  <2>1. job.pending <= pendingCounter
    BY <1>1, <1>2 DEF PendingInv, BlockBuilt, BlockRuns, GenesisRuns, Numbers, Mapped
  <2>2. \A c \in Ckpt : c2p'[c] <= pendingCounter
    BY <1>3, <2>1, Zenon DEF PendingInv
  <2>3. \A p \in Pending : p2c'[p] >= 1 => \E q \in Mapped' : p < q
    BY <1>4, Zenon DEF PendingInv
  <2>4. BlockBuilt' =>
          /\ gathering' \in Mapped' /\ processing' < gathering'
          /\ \A c \in 0 .. ckptId' : c2p'[c] < processing'
    <3> SUFFICES ASSUME BlockBuilt'
                 PROVE  /\ gathering' \in Mapped' /\ processing' < gathering'
                        /\ \A c \in 0 .. ckptId' : c2p'[c] < processing'
      OBVIOUS
    <3>1. BlockBuilt /\ job.ckpt = ckptId + 1
      BY <1>1, Zenon DEF BlockBuilt, BlockRuns
    <3>2. \A c \in 0 .. ckptId : c2p'[c] = c2p[c]
      BY <1>2, <1>3, <3>1 DEF Numbers, Ckpt
    <3> QED BY <1>4, <3>1, <3>2, Zenon DEF PendingInv
  <2> QED BY <2>2, <2>3, <2>4 DEF PendingInv, Live
<1>7. WriteInv'
  BY <1>2, <1>3, Zenon DEF WriteInv, Live, Writing, JobChain, get_checkpoint_chain_hash
<1>8. CASE GenesisRuns
  <2>1. latest = 0 /\ job.ckpt = 0 /\ job.pending = 0
    BY <1>2, <1>8, Zenon DEF GenesisRuns
  <2>2. Complete(0) => c2p[0] = 0
    BY DEF Complete, GenesisInv, Pending, NoId
  <2>3. Complete(0) => Complete(0)'
    BY <1>2, <1>3, <2>1, <2>2, Zenon DEF Complete
  <2>4. GenesisInv' /\ RingInv'
    BY <1>2, <1>3, <2>1, <2>3, ZenonT(60)
       DEF GenesisInv, RingInv, Live, BlockBuilt, BlockRuns, HasJob, Writing
  <2>5. CommittedInv'
    BY <2>1 DEF CommittedInv, CommittedComplete, ChainContinuous, PendingIdsIncrease,
                RingFollowsMarker
  <2> QED BY <1>5, <1>6, <1>7, <2>4, <2>5, Zenon
<1>9. CASE BlockRuns
  <2>1. \A c \in 0 .. latest : c \in Ckpt /\ c2p'[c] = c2p[c]
    <3>1. \A c \in 0 .. latest : c \in Ckpt /\ c # latest + 1
      BY <1>2 DEF Numbers, Ckpt
    <3> QED BY <1>2, <1>3, <1>9, <3>1, Zenon DEF BlockRuns
  <2>2. 0 \in 0 .. latest
    BY <1>2 DEF Numbers
  <2>3. GenesisInv' /\ RingInv'
    BY <2>1, <2>2, Zenon
       DEF GenesisInv, RingInv, Live, BlockBuilt, BlockRuns, HasJob, Writing, Complete
  <2>4. CommittedInv'
    <3>1. CommittedComplete'
      BY <2>1, ZenonT(60) DEF CommittedInv, CommittedComplete
    <3>2. ChainContinuous'
      BY <1>2, <2>1 DEF CommittedInv, ChainContinuous, get_checkpoint_chain_hash, Numbers
    <3>3. PendingIdsIncrease'
      BY <1>2, <2>1 DEF CommittedInv, PendingIdsIncrease, Numbers
    <3> QED BY <3>1, <3>2, <3>3, ZenonT(60) DEF CommittedInv, RingFollowsMarker
  <2> QED BY <1>5, <1>6, <1>7, <2>3, <2>4
<1> QED BY <1>2, <1>8, <1>9, Zenon

\* Rows are not part of the invariant.
LEMMA WriteRowsStep == ASSUME IInv, WriteRows, TypeOK', LatestInv' PROVE IInv'
<1> USE DEF IInv, WriteRows, maps, ids, lastCommitted
<1>1. /\ pc = "rows" /\ pc' \in {"rows", "records"} /\ (pc' = "records" => step' = 1)
      /\ UNCHANGED <<latest, pendingCounter, procMapped, maps, records, ring, ringNext,
                     ids, lastCommitted, job>>
  OBVIOUS
<1>2. IdsInv'
  BY <1>1, Zenon DEF IdsInv, Live, HasJob, Writing, Mapped, GenesisRuns, BlockRuns
<1>3. PendingInv'
  BY <1>1, Zenon DEF PendingInv, BlockBuilt, BlockRuns, HasJob, Writing, Live, Mapped
<1>4. WriteInv'
  <2>1. \A i \in 1 .. 6 : ~ (i < 1)
    OBVIOUS
  <2> QED BY <1>1, <2>1 DEF WriteInv, Live, Writing, JobChain, get_checkpoint_chain_hash
<1>5. GenesisInv' /\ RingInv'
  BY <1>1 DEF GenesisInv, RingInv, Live, BlockBuilt, BlockRuns, HasJob, Writing, Complete
<1>6. CommittedInv'
  BY <1>1, CommittedFrame, Zenon
<1> QED BY <1>2, <1>3, <1>4, <1>5, <1>6, Zenon

\* Records go to the job's checkpoint; after the last one it has them all.
LEMMA WriteRecordStep == ASSUME IInv, WriteRecord, TypeOK', LatestInv' PROVE IInv'
<1> USE DEF IInv
<1> DEFINE kind == RecordOrder[step]
<1>1. /\ pc = "records" /\ pc' \in {"records", "marker"}
      /\ UNCHANGED <<latest, pendingCounter, procMapped, maps, ring, ringNext,
                     ids, lastCommitted, job>>
  BY Zenon DEF WriteRecord
<1>2. /\ records' = IF kind \in RecordKind
                      THEN [records EXCEPT ![kind][job.ckpt] = job.pending] ELSE records
      /\ IF step < 6 THEN step' = step + 1 /\ pc' = "records" ELSE pc' = "marker"
  BY Zenon DEF WriteRecord, RecordOrder
<1>3. pc \in HasJob
  BY <1>1, Zenon DEF HasJob, Writing
<1>4. /\ Numbers /\ job.ckpt \in Ckpt /\ job.pending \in Nat /\ ckptId = latest
      /\ GenesisRuns \/ BlockRuns
  BY <1>1, <1>3, WritingJob, Zenon
<1> HIDE DEF kind
<1>5. \A k \in RecordKind, c \in Ckpt :
        records'[k][c] = IF k = kind /\ c = job.ckpt THEN job.pending ELSE records[k][c]
  BY <1>2, <1>4, ZenonT(60) DEF TypeOK
<1>6. IdsInv'
  BY <1>1, Zenon DEF IdsInv, Live, HasJob, Writing, Mapped, GenesisRuns, BlockRuns, ids
<1>7. PendingInv'
  BY <1>1 DEF PendingInv, BlockBuilt, BlockRuns, HasJob, Writing, Live, Mapped, maps, ids
<1>8. WriteInv'
  <2>1. step \in 1 .. 6
    BY Zenon DEF TypeOK
  <2>2. \A i \in 1 .. 6 : (i <= step /\ RecordOrder[i] \in RecordKind) =>
          records'[RecordOrder[i]][job.ckpt] = job.pending
    <3> SUFFICES ASSUME NEW i \in 1 .. 6, i <= step, RecordOrder[i] \in RecordKind
                 PROVE  records'[RecordOrder[i]][job.ckpt] = job.pending
      OBVIOUS
    <3>1. CASE i = step
      BY <1>4, <1>5, <3>1 DEF kind
    <3>2. CASE i < step
      BY <1>1, <1>4, <1>5, <3>2 DEF WriteInv
    <3> QED BY <2>1, <3>1, <3>2
  <2>3. pc' = "records" =>
          \A i \in 1 .. 6 : (i < step' /\ RecordOrder[i] \in RecordKind) =>
            records'[RecordOrder[i]][job.ckpt] = job.pending
    BY <1>2, <2>1, <2>2
  <2>4. pc' = "marker" => \A k \in RecordKind : records'[k][job.ckpt] = job.pending
    <3>1. pc' = "marker" => step = 6
      BY <1>2, <2>1
    <3>2. \A k \in RecordKind : \E i \in 1 .. 6 : k = RecordOrder[i]
      <4>1. /\ RecordOrder[1] = "state_roots" /\ RecordOrder[2] = "l2_block_state"
            /\ RecordOrder[4] = "leaf_data" /\ RecordOrder[5] = "tree_leaf"
            /\ RecordOrder[6] = "root_to_id"
        BY Zenon DEF RecordOrder
      <4> QED BY <4>1 DEF RecordKind
    <3> QED BY <3>1, <3>2, <2>2
  <2> QED BY <1>1, <2>3, <2>4, ZenonT(60) DEF WriteInv, Live, Writing, JobChain,
                                   get_checkpoint_chain_hash, maps, ids, lastCommitted
<1>9. \A c \in 0 .. latest : Complete(c) => Complete(c)'
  <2> SUFFICES ASSUME NEW c \in 0 .. latest, Complete(c) PROVE Complete(c)'
    OBVIOUS
  <2>1. c \in Ckpt /\ c2p' = c2p /\ p2c' = p2c
    BY <1>1, <1>4 DEF Numbers, Ckpt, maps
  <2>2. CASE c = job.ckpt
    BY <1>1, <1>5, <2>1, <2>2 DEF Complete, WriteInv, Writing
  <2>3. CASE c # job.ckpt
    BY <1>5, <2>1, <2>3, Zenon DEF Complete
  <2> QED BY <2>2, <2>3, Zenon
<1>10. 0 \in 0 .. latest /\ 0 \in Ckpt
  BY <1>4 DEF Numbers, Ckpt
<1>11. \A k \in RecordKind : /\ records'[k][0] \in {NoId, 0}
                             /\ records[k][0] = 0 => records'[k][0] = 0
  <2>1. job.ckpt = 0 => job.pending = 0
    BY <1>4 DEF GenesisRuns, BlockRuns, Numbers
  <2>2. \A k \in RecordKind : records[k][0] \in {NoId, 0}
    BY Zenon DEF GenesisInv
  <2> HIDE DEF IInv
  <2> QED BY <1>5, <1>10, <2>1, <2>2, Zenon
<1>12. GenesisInv' /\ RingInv'
  BY <1>1, <1>9, <1>10, <1>11, Zenon
     DEF GenesisInv, RingInv, Live, BlockBuilt, BlockRuns, HasJob, Writing, RecordKind,
         maps, ids, lastCommitted
<1>13. CommittedInv'
  <2>1. CommittedComplete'
    BY <1>1, <1>9, Zenon DEF CommittedInv, CommittedComplete, Complete
  <2>2. RingFollowsMarker'
    <3> SUFFICES ASSUME NEW c \in 0 .. ringNext - 1
                 PROVE  ring[c] = records'["tree_leaf"][c]
      BY <1>1, ZenonT(60) DEF CommittedInv, RingFollowsMarker
    <3>1. ring[c] = records["tree_leaf"][c] /\ c \in 0 .. latest /\ c \in Ckpt
      BY <1>4 DEF CommittedInv, RingFollowsMarker, Numbers, Ckpt
    <3>2. CASE c = job.ckpt
      <4>1. c = 0 /\ job.pending = 0
        BY <1>4, <3>1, <3>2 DEF GenesisRuns, BlockRuns, Numbers
      <4>2. records["tree_leaf"][0] = 0
        BY <4>1, <1>4 DEF RingInv, Numbers
      <4> QED BY <3>1, <4>1, <4>2, <1>5 DEF RecordKind
    <3>3. CASE c # job.ckpt
      BY <1>5, <3>1, <3>3, Zenon DEF RecordKind
    <3> QED BY <3>2, <3>3, Zenon
  <2> QED BY <1>1, <2>1, <2>2 DEF CommittedInv, ChainContinuous, PendingIdsIncrease,
                                   get_checkpoint_chain_hash, maps
<1> QED BY <1>6, <1>7, <1>8, <1>12, <1>13, Zenon

-----------------------------------------------------------------------------
(* The trees: a second invariant, on top of IInv.                          *)

\* The write of WriteRows that stores the nodes of tree k.
TreeStep == [contract |-> 2, user |-> 4, guta |-> 5]

\* A committed genesis lies under whatever the marker or the memory claims.
Settled == latest > 0 \/ (Live /\ l2Loaded)

\* The tree nodes at checkpoint c are those of its roots, and all of them
\* come from committed attempts.
Match(c) == \A k \in Part : /\ roots[c][k] = TreeAt(k, c)
                            /\ roots[c][k] \subseteq {c2p[d] : d \in 0 .. c}

\* What the rows and roots of the database hold under the marker, and that
\* attempts leave nodes at the next checkpoint only.
StoredTrees ==
  /\ \A k \in Part : \A d \in Ckpt : d > latest + 1 => rows[TreeRow[k]][d] = {}
  /\ \A k \in Part : rows[TreeRow[k]][0] \subseteq GenesisRoots[k]
  /\ Settled => /\ \A k \in Part : rows[TreeRow[k]][0] = GenesisRoots[k]
                /\ \A c \in 0 .. latest : Match(c)

\* What memory knows of them once a block is loaded: the roots of the marker,
\* the ring up to it, and in the trees also what lies beyond it.
Between == {"init", "rotate_init", "rotated_init", "idle", "rotated", "gather"}
LoadedTrees ==
  /\ pc = "memory" \/ (Live /\ l2Loaded /\ pc # "backup") => ringNext = latest + 1
  /\ Live /\ l2Loaded /\ pc \notin {"backup", "memory"} => lastRoots = roots[latest]
  /\ l2Loaded /\ pc \in Between => \A k \in Part : trees[k] = TreeAt(k, latest + 1)
  /\ pc \in {"load", "init"} /\ ~l2Loaded => get_database_check_state # "NeedsGenesis"

\* The job's end roots are the nodes below it and those it still has to write.
EndFits ==
  \A k \in Part :
    /\ TreeAt(k, job.ckpt) \subseteq job.end[k]
    /\ job.end[k] \subseteq TreeAt(k, job.ckpt)
                             \cup (IF k \in job.parts THEN {job.pending} ELSE {})
    /\ k \in job.parts => job.pending \in job.end[k]

\* The trees of the block being built, or of genesis.
JobTrees ==
  /\ pc = "prove" /\ l2Loaded =>
       \A k \in Part : job.start[k] = TreeAt(k, job.ckpt)
  /\ pc \in HasJob /\ (pc = "prove" => l2Loaded) =>
       /\ EndFits
       /\ pc = "prove" => \A k \in Part : job.end[k] \subseteq job.start[k] \cup {job.pending}
       /\ pc # "prove" => \A k \in Part : job.end[k] \subseteq lastRoots[k] \cup {job.pending}
       /\ job.then = "idle" => trees = job.end
       /\ job.then = "idle" /\ pc \in {"backup", "memory"} =>
            \A k \in Part : trees[k] = TreeAt(k, latest + 1)
       /\ job.then = "rotate_init" =>
            l2Loaded /\ \A k \in Part : trees[k] = TreeAt(k, latest + 1)
       /\ job.ckpt = 0 => job.parts = GenesisParts /\ job.end = GenesisRoots
  /\ pc = "rows" => \A k \in Part : TreeStep[k] < step => TreeAt(k, job.ckpt) = job.end[k]
  /\ pc \in {"records", "marker", "backup", "memory"} =>
       \A k \in Part : TreeAt(k, job.ckpt) = job.end[k]
  /\ pc \in {"marker", "backup", "memory"} \/ (pc = "records" /\ step > 1) =>
       roots[job.ckpt] = job.end

TreesInv == StoredTrees /\ LoadedTrees /\ JobTrees
-----------------------------------------------------------------------------
(* Trees of stored nodes.                                                  *)

\* Unchanged rows are read as the same trees.
LEMMA TreeFrame ==
  ASSUME UNCHANGED rows
  PROVE  \A k \in Part : \A c \in Int : TreeAt(k, c)' = TreeAt(k, c)
BY DEF TreeAt

\* An empty level adds nothing to the tree below it.
LEMMA TreeNext ==
  ASSUME NEW k \in Part, NEW c \in Nat,
         c + 1 \in Ckpt => rows[TreeRow[k]][c + 1] = {}
  PROVE  TreeAt(k, c + 1) = TreeAt(k, c)
<1>1. MaxCheckpoint \in Nat
  BY BoundsAssumption, Zenon
<1>2. \A e \in Ckpt : e <= c + 1 => e <= c \/ e = c + 1
  BY <1>1 DEF Ckpt
<1>3. \A e \in Ckpt : e <= c => e <= c + 1
  BY <1>1 DEF Ckpt
<1>4. ASSUME NEW x \in TreeAt(k, c + 1) PROVE x \in TreeAt(k, c)
  BY <1>2, Zenon DEF TreeAt
<1>5. ASSUME NEW x \in TreeAt(k, c) PROVE x \in TreeAt(k, c + 1)
  BY <1>3, Zenon DEF TreeAt
<1> QED BY <1>4, <1>5, Zenon

\* Trees grow with the checkpoint.
LEMMA TreeGrows ==
  ASSUME NEW k \in Part, NEW c \in Nat, NEW d \in Nat, c <= d
  PROVE  TreeAt(k, c) \subseteq TreeAt(k, d)
<1>1. \A e \in Ckpt : e <= c => e <= d
  BY BoundsAssumption DEF Ckpt
<1> QED BY <1>1, Zenon DEF TreeAt

\* At genesis there is one level.
LEMMA TreeZero ==
  \A k \in Part : /\ TreeAt(k, 0) = rows[TreeRow[k]][0]
                  /\ TreeAt(k, 0)' = rows'[TreeRow[k]][0]
<1>1. MaxCheckpoint \in Nat
  BY BoundsAssumption, Zenon
<1>2. {e \in Ckpt : e <= 0} = {0}
  BY <1>1 DEF Ckpt
<1> QED BY <1>2, Zenon DEF TreeAt

\* A node write at checkpoint d adds to the trees from d on.
LEMMA TreeWrite ==
  ASSUME NEW k \in Part, NEW c \in Int, NEW d \in Ckpt, NEW p,
         rows'[TreeRow[k]][d] = rows[TreeRow[k]][d] \cup {p},
         \A e \in Ckpt : e # d => rows'[TreeRow[k]][e] = rows[TreeRow[k]][e]
  PROVE  TreeAt(k, c)' = IF d <= c THEN TreeAt(k, c) \cup {p} ELSE TreeAt(k, c)
<1>1. ASSUME NEW x
      PROVE  /\ x \in TreeAt(k, c) <=> \E e \in Ckpt : e <= c /\ x \in rows[TreeRow[k]][e]
             /\ x \in TreeAt(k, c)' <=> \E e \in Ckpt : e <= c /\ x \in rows'[TreeRow[k]][e]
  BY Zenon DEF TreeAt
<1>2. ASSUME NEW x
      PROVE  /\ p \in rows'[TreeRow[k]][d]
             /\ \A e \in Ckpt : x \in rows[TreeRow[k]][e] => x \in rows'[TreeRow[k]][e]
             /\ \A e \in Ckpt : x \in rows'[TreeRow[k]][e]
                                  => x \in rows[TreeRow[k]][e] \/ (x = p /\ e = d)
  OBVIOUS
<1>3. CASE d <= c
  <2>1. ASSUME NEW x PROVE x \in TreeAt(k, c)' <=> x \in TreeAt(k, c) \/ x = p
    BY <1>1, <1>2, <1>3, Zenon
  <2> QED BY <1>3, <2>1, Zenon
<1>4. CASE ~ (d <= c)
  <2>1. ASSUME NEW x PROVE x \in TreeAt(k, c)' <=> x \in TreeAt(k, c)
    BY <1>1, <1>2, <1>4, Zenon
  <2> QED BY <1>4, <2>1, Zenon
<1> QED BY <1>3, <1>4, Zenon

\* Other writes do not change a tree.
LEMMA TreeSame ==
  ASSUME NEW k \in Part, NEW c \in Int,
         \A e \in Ckpt : rows'[TreeRow[k]][e] = rows[TreeRow[k]][e]
  PROVE  TreeAt(k, c)' = TreeAt(k, c)
<1>1. ASSUME NEW x PROVE x \in TreeAt(k, c)' <=> x \in TreeAt(k, c)
  BY Zenon DEF TreeAt
<1> QED BY <1>1, Zenon

\* The check at startup reads nothing but mappings and the marker.
LEMMA CheckFrame ==
  ASSUME UNCHANGED <<latest, pendingCounter, procMapped, p2c>>
  PROVE  get_database_check_state' = get_database_check_state
<1>1. Mapped' = Mapped
  BY Zenon DEF Mapped
<1>2. get_latest_mapped_unique_pending_id' = get_latest_mapped_unique_pending_id
  BY <1>1 DEF get_latest_mapped_unique_pending_id
<1> QED BY <1>2, Zenon DEF get_database_check_state

-----------------------------------------------------------------------------
(* Every action keeps TreesInv.                                            *)

\* Steps that write no node and no root keep what lies under the marker.
LEMMA StoredFrame ==
  ASSUME TypeOK, StoredTrees, Settled' => Settled, UNCHANGED <<latest, rows>>,
         Settled => \A c \in 0 .. latest : c2p'[c] = c2p[c] /\ roots'[c] = roots[c]
  PROVE  StoredTrees'
<1>1. \A k \in Part : \A c \in Int : TreeAt(k, c)' = TreeAt(k, c)
  BY TreeFrame, Zenon
<1>2. latest \in Nat
  BY TypeOKNumbers DEF Numbers
<1>3. ASSUME Settled, NEW c \in 0 .. latest PROVE Match(c)'
  <2>1. Match(c)
    BY <1>3, Zenon DEF StoredTrees
  <2>2. c \in Int /\ \A d \in 0 .. c : d \in 0 .. latest
    BY <1>2
  <2>3. {c2p'[d] : d \in 0 .. c} = {c2p[d] : d \in 0 .. c}
    BY <1>3, <2>2, Zenon
  <2>4. roots'[c] = roots[c]
    BY <1>3, Zenon
  <2> QED BY <1>1, <2>1, <2>2, <2>3, <2>4, Zenon DEF Match
<1> QED BY <1>3, Zenon DEF StoredTrees

\* A processor that stops leaves the database as it is.
LEMMA TreesDown ==
  ASSUME IInv, TreesInv, pc' \in {"down", "parked"}, UNCHANGED durable
  PROVE  TreesInv'
<1>1. ~Live' /\ pc' \notin HasJob \cup Between
  BY Zenon DEF Live, HasJob, Writing, Between
<1>2. StoredTrees'
  BY <1>1, StoredFrame, Zenon DEF IInv, TreesInv, Settled, durable, maps
<1>3. LoadedTrees'
  BY <1>1, Zenon DEF LoadedTrees
<1>4. JobTrees'
  BY <1>1, Zenon DEF JobTrees, HasJob, Writing
<1> QED BY <1>2, <1>3, <1>4, Zenon DEF TreesInv

\* A start reads the roots of the marker and fills the ring up to it.
LEMMA TreesNewInit == ASSUME IInv, TreesInv, new_init PROVE TreesInv'
<1>1. /\ pc' = "ensure_genesis" /\ (l2Loaded' <=> latest # 0)
      /\ UNCHANGED <<latest, rows, roots, c2p, records>>
  BY Zenon DEF new_init, maps
<1>2. Numbers
  BY TypeOKNumbers, Zenon DEF IInv
<1>3. StoredTrees'
  BY <1>1, <1>2, StoredFrame DEF IInv, TreesInv, Settled, Numbers
<1>4. LoadedTrees'
  <2>1. ASSUME latest # 0 PROVE ringNext' = latest' + 1 /\ lastRoots' = roots'[latest']
    <3>1. records["tree_leaf"][latest] # NoId
      <4>1. latest > 0 /\ latest \in 0 .. latest
        BY <1>2, <2>1 DEF Numbers
      <4>2. "tree_leaf" \in RecordKind
        BY Zenon DEF RecordKind
      <4>3. records["tree_leaf"][latest] \in Pending
        BY <4>1, <4>2, Zenon DEF IInv, CommittedInv, CommittedComplete
      <4> QED BY <4>3, BoundsAssumption DEF Pending, NoId
    <3>2. ringNext' = IF ringNext <= latest THEN latest + 1 ELSE ringNext
      BY <3>1, Zenon DEF new_init, sync_from_database
    <3>3. ringNext <= latest + 1
      BY Zenon DEF IInv, CommittedInv, RingFollowsMarker
    <3>4. lastRoots' = roots[latest]
      BY <2>1, Zenon DEF new_init
    <3> QED BY <1>1, <1>2, <3>2, <3>3, <3>4 DEF Numbers
  <2> QED BY <1>1, <2>1, Zenon DEF LoadedTrees, Between
<1>5. JobTrees'
  BY <1>1, Zenon DEF JobTrees, HasJob, Writing
<1> QED BY <1>3, <1>4, <1>5, Zenon DEF TreesInv

\* Genesis starts from what an earlier genesis may have left.
LEMMA GenesisStarts ==
  ASSUME IInv, TreesInv, NEW then \in {"load", "rotate_init"},
         pc \in {"ensure_genesis", "init"}, pc' = "commit", job' = GenesisJob(then),
         then = "rotate_init" => pc = "init" /\ l2Loaded,
         latest = 0, UNCHANGED <<durable, ids, lastCommitted, trees>>
  PROVE  TreesInv'
<1>1. Live /\ Live' /\ UNCHANGED <<latest, rows, roots, c2p, ringNext, lastRoots, l2Loaded>>
  BY Zenon DEF Live, durable, maps, lastCommitted
<1>2. \A k \in Part : \A c \in Int : TreeAt(k, c)' = TreeAt(k, c)
  BY <1>1, TreeFrame, Zenon
<1>3. StoredTrees'
  BY <1>1, StoredFrame, Zenon DEF IInv, TreesInv, Settled
<1>4. LoadedTrees'
  BY <1>1, Zenon DEF TreesInv, LoadedTrees, Between
<1>5. /\ job'.ckpt = 0 /\ job'.pending = 0 /\ job'.parts = GenesisParts
      /\ job'.end = GenesisRoots /\ job'.then = then
  BY Zenon DEF GenesisJob
<1>6. EndFits'
  <2>0. \A k \in Part : TreeAt(k, job.ckpt)' = TreeAt(k, 0)
    BY <1>2, <1>5
  <2> SUFFICES ASSUME NEW k \in Part
               PROVE  /\ TreeAt(k, 0) \subseteq GenesisRoots[k]
                      /\ GenesisRoots[k] \subseteq TreeAt(k, 0)
                            \cup (IF k \in GenesisParts THEN {0} ELSE {})
                      /\ k \in GenesisParts => 0 \in GenesisRoots[k]
    BY <1>5, <2>0, Zenon DEF EndFits
  <2>1. TreeAt(k, 0) \subseteq GenesisRoots[k]
    BY TreeZero, Zenon DEF TreesInv, StoredTrees
  <2>2. GenesisRoots[k] = IF k \in GenesisParts THEN {0} ELSE {}
    BY Zenon DEF GenesisRoots
  <2> QED BY <2>1, <2>2, Zenon
<1>7. \A k \in Part : job'.end[k] \subseteq lastRoots'[k] \cup {job'.pending}
  BY <1>5 DEF GenesisRoots
<1>8. ASSUME then = "rotate_init"
      PROVE  l2Loaded' /\ \A k \in Part : trees'[k] = TreeAt(k, latest + 1)'
  <2>1. latest + 1 \in Int
    BY TypeOKNumbers DEF IInv, Numbers
  <2> QED BY <1>1, <1>2, <1>8, <2>1, Zenon DEF TreesInv, LoadedTrees, Between
<1>9. JobTrees'
  BY <1>5, <1>6, <1>7, <1>8, Zenon DEF JobTrees
<1> QED BY <1>3, <1>4, <1>9, Zenon DEF TreesInv

\* The first check applies genesis or finds it applied.
LEMMA TreesEnsureGenesis == ASSUME IInv, TreesInv, EnsureGenesis PROVE TreesInv'
<1>1. CASE get_database_check_state = "NeedsGenesis"
  BY <1>1, GenesisStarts, CheckState, Zenon DEF IInv, EnsureGenesis
<1>2. CASE get_database_check_state = "Inconsistent"
  BY <1>2, TreesDown, Zenon DEF EnsureGenesis
<1>3. CASE get_database_check_state = "Ready"
  <2>1. /\ pc = "ensure_genesis" /\ pc' = "load"
        /\ UNCHANGED <<durable, lastCommitted>>
    BY <1>3, Zenon DEF EnsureGenesis
  <2>2. get_database_check_state' # "NeedsGenesis"
    BY <1>3, <2>1, CheckFrame, Zenon DEF durable, maps
  <2>3. StoredTrees'
    BY <2>1, StoredFrame, Zenon DEF IInv, TreesInv, Settled, Live, durable, maps, lastCommitted
  <2>4. LoadedTrees'
    BY <2>1, <2>2, Zenon DEF TreesInv, LoadedTrees, Live, Between, durable, maps, lastCommitted
  <2>5. JobTrees'
    BY <2>1, Zenon DEF JobTrees, HasJob, Writing
  <2> QED BY <2>3, <2>4, <2>5, Zenon DEF TreesInv
<1> QED BY <1>1, <1>2, <1>3, CheckState, Zenon DEF IInv

\* Loading takes the trees one version past the marker.
LEMMA TreesLoad ==
  ASSUME IInv, TreesInv, load_coordinator_memory_trees_from_db PROVE TreesInv'
<1>1. /\ pc = "load" /\ pc' = "init" /\ UNCHANGED <<durable, lastCommitted>>
      /\ \A k \in Part : trees'[k] = TreeAt(k, ckptId + 1)
  BY Zenon DEF load_coordinator_memory_trees_from_db
<1>2. ckptId = latest /\ latest + 1 \in Int
  BY <1>1, TypeOKNumbers DEF IInv, IdsInv, Live, Numbers
<1>3. \A k \in Part : trees'[k] = TreeAt(k, latest + 1)'
  <2>1. rows' = rows /\ latest' = latest
    BY <1>1, Zenon DEF durable
  <2>2. \A k \in Part : TreeAt(k, latest + 1)' = TreeAt(k, latest + 1)
    BY <2>1, Zenon DEF TreeAt
  <2> QED BY <1>1, <1>2, <2>2, Zenon
<1>4. get_database_check_state' = get_database_check_state
  BY <1>1, CheckFrame, Zenon DEF durable, maps
<1>5. StoredTrees'
  BY <1>1, StoredFrame, Zenon DEF IInv, TreesInv, Settled, Live, durable, maps, lastCommitted
<1>6. LoadedTrees'
  BY <1>1, <1>3, <1>4, Zenon
     DEF TreesInv, LoadedTrees, Live, Between, durable, maps, lastCommitted
<1>7. JobTrees'
  BY <1>1, Zenon DEF JobTrees, HasJob, Writing
<1> QED BY <1>5, <1>6, <1>7, Zenon DEF TreesInv

\* Steps between two blocks keep the trees.
LEMMA TreesBetween ==
  ASSUME IInv, TreesInv, pc \in Between, pc' \in Between \ {"init"},
         UNCHANGED <<latest, c2p, rows, roots, ringNext, lastCommitted, trees>>
  PROVE  TreesInv'
<1>1. Live /\ Live' /\ pc \notin {"backup", "memory"}
  BY Zenon DEF Live, Between
<1>2. StoredTrees'
  BY <1>1, StoredFrame, Zenon DEF IInv, TreesInv, Settled, lastCommitted
<1>3. latest + 1 \in Int
  BY TypeOKNumbers DEF IInv, Numbers
<1>4. \A k \in Part : TreeAt(k, latest + 1)' = TreeAt(k, latest + 1)
  BY Zenon DEF TreeAt
<1>5. LoadedTrees'
  BY <1>1, <1>4, Zenon DEF TreesInv, LoadedTrees, Between, lastCommitted
<1>6. JobTrees'
  BY Zenon DEF JobTrees, HasJob, Writing, Between
<1> QED BY <1>2, <1>5, <1>6, Zenon DEF TreesInv

\* The second check applies genesis only if the first did.
LEMMA TreesInitCheck == ASSUME IInv, TreesInv, InitCheck PROVE TreesInv'
<1>1. CASE get_database_check_state = "NeedsGenesis"
  <2>1. pc = "init" /\ l2Loaded
    BY <1>1, Zenon DEF InitCheck, TreesInv, LoadedTrees
  <2>2. /\ pc' = "commit" /\ job' = GenesisJob("rotate_init")
        /\ UNCHANGED <<durable, ids, lastCommitted, trees>>
    BY <1>1, Zenon DEF InitCheck
  <2>3. latest = 0
    BY <1>1, CheckState, Zenon DEF IInv
  <2> QED BY <2>1, <2>2, <2>3, GenesisStarts, Zenon
<1>2. CASE get_database_check_state = "Inconsistent"
  BY <1>2, TreesDown, Zenon DEF InitCheck
<1>3. CASE get_database_check_state = "Ready"
  BY <1>3, TreesBetween, Zenon DEF InitCheck, Between, durable, maps
<1> QED BY <1>1, <1>2, <1>3, CheckState, Zenon DEF IInv

\* A gathered block starts from the loaded trees.
LEMMA TreesGather == ASSUME IInv, TreesInv, get_results_from_gatherers PROVE TreesInv'
<1>1. CASE pc' = "parked"
  BY <1>1, TreesDown, Zenon DEF get_results_from_gatherers, durable, maps
<1>2. CASE pc' = "prove"
  <2>1. /\ pc = "gather"
        /\ UNCHANGED <<latest, c2p, rows, roots, ringNext, lastCommitted, processing>>
    BY Zenon DEF get_results_from_gatherers, maps, ids
  <2>2. ckptId = latest /\ latest \in Nat /\ latest + 1 # 0
    BY <2>1, TypeOKNumbers DEF IInv, IdsInv, Live, Numbers
  <2>3. PICK parts \in Batches :
          /\ job' = [ckpt |-> ckptId + 1, pending |-> processing, parts |-> parts,
                     start |-> trees, end |-> trees', then |-> "idle"]
          /\ trees' = [k \in Part |-> IF k \in parts THEN trees[k] \cup {processing}
                                                    ELSE trees[k]]
    BY <1>2, Zenon DEF get_results_from_gatherers
  <2>4. /\ job'.ckpt = latest + 1 /\ job'.start = trees /\ job'.end = trees'
        /\ job'.then = "idle" /\ job'.pending = processing /\ job'.parts = parts
    BY <2>2, <2>3, Zenon
  <2>5. \A k \in Part : trees'[k] = IF k \in job'.parts THEN trees[k] \cup {job'.pending}
                                                        ELSE trees[k]
    BY <2>3, <2>4, Zenon
  <2>6. ASSUME l2Loaded
        PROVE  \A k \in Part : TreeAt(k, job.ckpt)' = trees[k]
    <3>1. \A k \in Part : TreeAt(k, job.ckpt)' = TreeAt(k, latest + 1)
      BY <2>1, <2>4, Zenon DEF TreeAt
    <3> QED BY <2>1, <2>6, <3>1, Zenon DEF TreesInv, LoadedTrees, Between
  <2>7. l2Loaded => EndFits'
    BY <2>4, <2>5, <2>6, Zenon DEF EndFits
  <2>8. \A k \in Part : job'.end[k] \subseteq job'.start[k] \cup {job'.pending}
    BY <2>4, <2>5, Zenon
  <2>9. StoredTrees'
    BY <1>2, <2>1, StoredFrame, Zenon DEF IInv, TreesInv, Settled, Live, lastCommitted
  <2>10. LoadedTrees'
    BY <1>2, <2>1, Zenon DEF TreesInv, LoadedTrees, Live, Between, lastCommitted
  <2>11. JobTrees'
    BY <1>2, <2>1, <2>2, <2>4, <2>6, <2>7, <2>8, Zenon DEF JobTrees, lastCommitted
  <2> QED BY <2>9, <2>10, <2>11, Zenon DEF TreesInv
<1> QED BY <1>1, <1>2, Zenon DEF get_results_from_gatherers

\* The old-leaf check lets only a block pass that starts from the last roots.
LEMMA TreesPlan ==
  ASSUME IInv, IInv', TreesInv, plan_checkpoint_state_transition PROVE TreesInv'
<1>1. CASE ~OldLeafMatches
  BY <1>1, TreesDown, Zenon DEF plan_checkpoint_state_transition
<1>2. CASE OldLeafMatches
  <2>1. /\ pc = "prove" /\ pc' = "commit" /\ job.start = lastRoots
        /\ UNCHANGED <<durable, lastCommitted, trees, job, ids>>
    BY <1>2, Zenon DEF plan_checkpoint_state_transition, OldLeafMatches
  <2>2. l2Loaded
    <3>1. job.start["user"] # {} \/ l2Loaded
      BY <2>1, Zenon DEF IInv, GenesisInv, Live
    <3> QED BY <2>1, <3>1, Zenon DEF IInv, GenesisInv
  <2>3. \A k \in Part : /\ TreeAt(k, job.ckpt)' = TreeAt(k, job.ckpt)
                        /\ TreeAt(k, latest + 1)' = TreeAt(k, latest + 1)
    BY <2>1, Zenon DEF TreeAt, durable
  <2>4. StoredTrees'
    BY <2>1, StoredFrame, Zenon
       DEF IInv, TreesInv, Settled, Live, durable, maps, lastCommitted
  <2>5. LoadedTrees'
    BY <2>1, Zenon DEF TreesInv, LoadedTrees, Live, Between, durable, lastCommitted
  <2>6. EndFits'
    BY <2>1, <2>2, <2>3, Zenon DEF TreesInv, JobTrees, EndFits, HasJob
  <2>7. JobTrees'
    BY <2>1, <2>2, <2>3, <2>6, Zenon DEF TreesInv, JobTrees, HasJob, durable, lastCommitted
  <2> QED BY <2>4, <2>5, <2>7, Zenon DEF TreesInv
<1> QED BY <1>1, <1>2, Zenon

\* The checks and the mappings of commit_state touch no tree.
LEMMA TreesMap ==
  ASSUME IInv, TreesInv, pc \in {"commit", "map_pending", "map_checkpoint"},
         pc' \in {"map_pending", "map_checkpoint", "rows"}, pc' = "rows" => step' = 1,
         Settled => \A c \in 0 .. latest : c2p'[c] = c2p[c],
         UNCHANGED <<latest, rows, roots, ringNext, lastCommitted, trees, job>>
  PROVE  TreesInv'
<1>1. /\ Live /\ Live' /\ pc \in HasJob /\ pc' \in HasJob
      /\ {pc, pc'} \cap {"prove", "backup", "memory", "records", "marker"} = {}
  BY Zenon DEF Live, HasJob, Writing
<1>2. StoredTrees'
  BY <1>1, StoredFrame, Zenon DEF IInv, TreesInv, Settled, lastCommitted
<1>3. \A k \in Part : /\ TreeAt(k, job.ckpt)' = TreeAt(k, job.ckpt)
                      /\ TreeAt(k, latest + 1)' = TreeAt(k, latest + 1)
  BY Zenon DEF TreeAt
<1>4. LoadedTrees'
  BY <1>1, Zenon DEF TreesInv, LoadedTrees, Between, lastCommitted
<1>5. EndFits'
  BY <1>1, <1>3, Zenon DEF TreesInv, JobTrees, EndFits
<1>6. \A k \in Part : ~ (TreeStep[k] < 1)
  BY DEF Part, TreeStep
<1>7. JobTrees'
  BY <1>1, <1>3, <1>5, <1>6, Zenon DEF TreesInv, JobTrees, lastCommitted
<1> QED BY <1>2, <1>4, <1>7, Zenon DEF TreesInv

\* Storing the proof.
LEMMA TreesSave == ASSUME IInv, TreesInv, SaveTransition PROVE TreesInv'
<1>1. CASE CommitChecks
  BY <1>1, TreesMap, Zenon DEF SaveTransition, lastCommitted
<1>2. CASE ~CommitChecks
  BY <1>2, TreesDown, Zenon DEF SaveTransition, durable, maps
<1> QED BY <1>1, <1>2, Zenon

\* The first mapping.
LEMMA TreesMapPending ==
  ASSUME IInv, TreesInv, set_unique_pending_id_checkpoint_id_mapping PROVE TreesInv'
BY TreesMap, Zenon DEF set_unique_pending_id_checkpoint_id_mapping, lastCommitted

\* The second mapping names a checkpoint that is not committed, or genesis
\* again.
LEMMA TreesMapCheckpoint ==
  ASSUME IInv, TreesInv, set_checkpoint_id_to_unique_pending_id_mapping PROVE TreesInv'
<1>1. /\ pc = "map_checkpoint" /\ pc' = "rows" /\ step' = 1
      /\ c2p' = [c2p EXCEPT ![job.ckpt] = job.pending]
      /\ UNCHANGED <<latest, rows, roots, ringNext, lastCommitted, trees, job>>
  BY Zenon DEF set_checkpoint_id_to_unique_pending_id_mapping
<1>2. pc \in HasJob
  BY <1>1, Zenon DEF HasJob, Writing
<1>3. ASSUME Settled, NEW c \in 0 .. latest PROVE c2p'[c] = c2p[c]
  <2>1. Numbers /\ c \in Ckpt /\ job.ckpt \in Nat /\ (job.ckpt = 0 \/ job.ckpt = latest + 1)
    BY <1>1, <1>2, WritingJob DEF Numbers, Ckpt
  <2>2. CASE job.ckpt # c
    BY <1>1, <2>1, <2>2, Zenon DEF IInv, TypeOK
  <2>3. CASE job.ckpt = c
    <3>1. job.ckpt = 0 /\ latest = 0
      BY <1>1, <1>2, <2>1, <2>3, WritingJob DEF Numbers
    <3>2. l2Loaded /\ Live /\ job.pending = 0
      BY <1>2, <1>3, <2>1, <3>1, WritingJob DEF Settled, GenesisRuns, BlockRuns, Numbers
    <3>3. c2p[0] \in {NoId, 0} /\ c2p[0] \in Pending
      BY <3>2, Zenon DEF IInv, GenesisInv, Complete
    <3>4. c2p[0] = 0
      BY <3>3, BoundsAssumption DEF Pending, NoId
    <3> QED BY <1>1, <2>1, <2>3, <3>1, <3>2, <3>4, Zenon DEF IInv, TypeOK
  <2> QED BY <2>2, <2>3, Zenon
<1> QED BY <1>1, <1>3, TreesMap, Zenon

\* Where WriteRows stores the nodes of a tree.
LEMMA TreeRows ==
  /\ \A k \in Part : /\ TreeRow[k] \in RowKind /\ PartOf[TreeRow[k]] = k
                     /\ TreeStep[k] \in 1 .. 5
  /\ \A s \in 1 .. 6 : /\ RowOrder[s] \in RowKind
                       /\ \A k \in Part : RowOrder[s] = TreeRow[k] <=> s = TreeStep[k]
<1>1. 1 .. 6 = {1, 2, 3, 4, 5, 6}
  OBVIOUS
<1> QED BY <1>1 DEF Part, TreeRow, RowKind, PartOf, TreeStep, RowOrder

\* What one node write does to the trees.
LEMMA RowsWritten ==
  ASSUME IInv, WriteRows, NEW k \in Part, NEW c \in Int
  PROVE  /\ step = TreeStep[k] /\ k \in job.parts /\ job.ckpt <= c =>
              TreeAt(k, c)' = TreeAt(k, c) \cup {job.pending}
         /\ step # TreeStep[k] \/ k \notin job.parts \/ ~(job.ckpt <= c) =>
              TreeAt(k, c)' = TreeAt(k, c)
<1> DEFINE kind == RowOrder[step]
<1>0. rows \in [RowKind -> [Ckpt -> SUBSET Pending]]
  BY Zenon DEF IInv, TypeOK
<1>1. /\ pc = "rows" /\ step \in 1 .. 6
      /\ rows' = IF PartOf[kind] \in job.parts
                   THEN [rows EXCEPT ![kind][job.ckpt] = @ \cup {job.pending}] ELSE rows
  BY Zenon DEF WriteRows, IInv, TypeOK
<1>2. job.ckpt \in Ckpt
  BY <1>1, WritingJob, Zenon DEF HasJob, Writing
<1>3. /\ kind \in RowKind /\ (kind = TreeRow[k] <=> step = TreeStep[k])
      /\ PartOf[TreeRow[k]] = k /\ TreeRow[k] \in RowKind
  BY <1>1, TreeRows, Zenon
<1> HIDE DEF kind
<1>4. CASE step = TreeStep[k] /\ k \in job.parts
  <2>0. kind = TreeRow[k] /\ PartOf[kind] \in job.parts
    BY <1>3, <1>4, Zenon
  <2>1. rows' = [rows EXCEPT ![TreeRow[k]][job.ckpt] = @ \cup {job.pending}]
    BY <1>1, <2>0, Zenon
  <2>2. /\ rows'[TreeRow[k]][job.ckpt] = rows[TreeRow[k]][job.ckpt] \cup {job.pending}
        /\ \A e \in Ckpt : e # job.ckpt => rows'[TreeRow[k]][e] = rows[TreeRow[k]][e]
    BY <1>0, <1>2, <1>3, <2>1
  <2> QED BY <1>2, <1>4, <2>2, TreeWrite, Zenon
<1>5. CASE ~ (step = TreeStep[k] /\ k \in job.parts)
  <2>1. \A e \in Ckpt : rows'[TreeRow[k]][e] = rows[TreeRow[k]][e]
    <3>1. CASE kind = TreeRow[k]
      <4>1. PartOf[kind] \notin job.parts
        BY <1>3, <1>5, <3>1, Zenon
      <4> QED BY <1>1, <4>1, Zenon
    <3>2. CASE kind # TreeRow[k]
      BY <1>0, <1>1, <1>3, <3>2
    <3> QED BY <3>1, <3>2, Zenon
  <2> QED BY <1>5, <2>1, TreeSame, Zenon
<1> QED BY <1>4, <1>5, Zenon

\* Nodes go beyond the marker, or repeat those of genesis.
LEMMA TreesRows == ASSUME IInv, TreesInv, WriteRows PROVE TreesInv'
<1>1. /\ pc = "rows" /\ pc' \in {"rows", "records"} /\ step \in 1 .. 6
      /\ pc' = "rows" => step' = step + 1
      /\ pc' = "records" => step = 6 /\ step' = 1
      /\ UNCHANGED <<latest, c2p, roots, ringNext, lastCommitted, trees, job>>
  <2>1. /\ pc = "rows" /\ step \in 1 .. 6
        /\ IF step < Len(RowOrder) THEN step' = step + 1 /\ pc' = "rows"
                                   ELSE step' = 1 /\ pc' = "records"
        /\ UNCHANGED <<latest, c2p, roots, ringNext, lastCommitted, trees, job>>
    BY Zenon DEF WriteRows, IInv, TypeOK, maps
  <2>2. Len(RowOrder) = 6
    BY DEF RowOrder
  <2> QED BY <2>1, <2>2
<1>2. /\ pc \in HasJob /\ pc' \in HasJob /\ Live /\ Live'
      /\ {pc, pc'} \cap {"prove", "backup", "memory", "marker"} = {}
  BY <1>1, Zenon DEF HasJob, Writing, Live
<1>3. /\ Numbers /\ job.ckpt \in Ckpt /\ job.ckpt \in Nat /\ job.pending \in Nat
      /\ job.ckpt = 0 \/ job.ckpt = latest + 1
      /\ job.ckpt = 0 => latest = 0
      /\ GenesisRuns \/ BlockRuns
      /\ latest \in Nat /\ MaxCheckpoint \in Nat
  BY <1>1, <1>2, WritingJob DEF Numbers
<1>4. Settled' => Settled
  BY <1>1, <1>2, Zenon DEF Settled, lastCommitted
<1>5. EndFits
  BY <1>2, Zenon DEF TreesInv, JobTrees
\* Repeating genesis adds nothing.
<1>6. ASSUME Settled, job.ckpt = 0, NEW k \in Part, NEW c \in Nat
      PROVE  TreeAt(k, c)' = TreeAt(k, c)
  <2>1. /\ job.pending = 0 /\ job.parts = GenesisParts
    BY <1>2, <1>3, <1>6 DEF TreesInv, JobTrees, GenesisRuns, BlockRuns, Numbers
  <2>2. TreeAt(k, 0) = GenesisRoots[k]
    BY <1>6, TreeZero, Zenon DEF TreesInv, StoredTrees
  <2>3. TreeAt(k, 0) \subseteq TreeAt(k, c)
    BY <1>6, TreeGrows
  <2>4. k \in GenesisParts => 0 \in GenesisRoots[k]
    BY Zenon DEF GenesisRoots
  <2>5. k \in job.parts => TreeAt(k, c) \cup {job.pending} = TreeAt(k, c)
    BY <2>1, <2>2, <2>3, <2>4, Zenon
  <2>6. c \in Int
    OBVIOUS
  <2> QED BY <2>5, <2>6, RowsWritten, Zenon
<1>7. ASSUME NEW k \in Part, NEW c \in Nat, Settled, c <= latest
      PROVE  TreeAt(k, c)' = TreeAt(k, c)
  <2>1. CASE job.ckpt = 0
    BY <1>6, <1>7, <2>1, Zenon
  <2>2. CASE job.ckpt # 0
    BY <1>3, <1>7, <2>2, RowsWritten DEF Numbers
  <2> QED BY <2>1, <2>2, Zenon
<1>8. StoredTrees'
  <2>1. ASSUME NEW k \in Part, NEW d \in Ckpt, d > latest + 1
        PROVE  rows'[TreeRow[k]][d] = {}
    <3>1. d # job.ckpt
      BY <1>3, <2>1 DEF Ckpt
    <3>2. rows'[TreeRow[k]][d] = rows[TreeRow[k]][d]
      <4>1. TreeRow[k] \in RowKind
        BY TreeRows, Zenon
      <4> QED BY <1>3, <3>1, <4>1, Zenon DEF WriteRows, IInv, TypeOK
    <3> QED BY <2>1, <3>2, Zenon DEF TreesInv, StoredTrees
  <2>2. ASSUME NEW k \in Part PROVE rows'[TreeRow[k]][0] \subseteq GenesisRoots[k]
    <3>0. rows[TreeRow[k]][0] \subseteq GenesisRoots[k]
      BY Zenon DEF TreesInv, StoredTrees
    <3>1. TreeAt(k, 0) \subseteq GenesisRoots[k] /\ rows'[TreeRow[k]][0] = TreeAt(k, 0)'
      BY <3>0, TreeZero, Zenon
    <3>2. CASE job.ckpt = 0
      <4>1. job.end = GenesisRoots
        BY <1>2, <3>2, Zenon DEF TreesInv, JobTrees
      <4>2. k \in job.parts => job.pending \in GenesisRoots[k]
        BY <1>5, <4>1, Zenon DEF EndFits
      <4>3. 0 \in Int
        OBVIOUS
      <4>4. \/ k \in job.parts /\ TreeAt(k, 0)' = TreeAt(k, 0) \cup {job.pending}
            \/ TreeAt(k, 0)' = TreeAt(k, 0)
        BY <4>3, RowsWritten, Zenon
      <4> QED BY <3>1, <4>2, <4>4, Zenon
    <3>3. CASE job.ckpt # 0
      <4>1. TreeAt(k, 0)' = TreeAt(k, 0)
        BY <1>3, <3>3, RowsWritten
      <4> QED BY <3>1, <4>1, Zenon
    <3> QED BY <3>2, <3>3, Zenon
  <2>3. ASSUME Settled, NEW k \in Part PROVE rows'[TreeRow[k]][0] = GenesisRoots[k]
    <3>1. 0 \in Nat /\ 0 <= latest
      BY <1>3 DEF Numbers
    <3>2. TreeAt(k, 0)' = TreeAt(k, 0)
      BY <1>7, <2>3, <3>1, Zenon
    <3>3. rows[TreeRow[k]][0] = GenesisRoots[k]
      BY <2>3, Zenon DEF TreesInv, StoredTrees
    <3> QED BY <3>2, <3>3, TreeZero, Zenon
  <2>4. ASSUME Settled, NEW c \in 0 .. latest PROVE Match(c)'
    <3>1. c \in Nat /\ c <= latest
      BY <1>3 DEF Numbers
    <3>2. Match(c)
      BY <2>4, Zenon DEF TreesInv, StoredTrees
    <3>3. \A k \in Part : TreeAt(k, c)' = TreeAt(k, c)
      BY <1>7, <2>4, <3>1, Zenon
    <3>4. roots' = roots /\ c2p' = c2p
      BY <1>1, Zenon
    <3> QED BY <3>2, <3>3, <3>4, Zenon DEF Match
  <2> QED BY <1>1, <1>4, <2>1, <2>2, <2>3, <2>4, Zenon DEF StoredTrees
<1>9. LoadedTrees'
  BY <1>1, <1>2, Zenon DEF TreesInv, LoadedTrees, Between, lastCommitted
<1>10. ASSUME NEW k \in Part
       PROVE  /\ step = TreeStep[k] /\ k \in job.parts =>
                   TreeAt(k, job.ckpt)' = TreeAt(k, job.ckpt) \cup {job.pending}
              /\ step # TreeStep[k] \/ k \notin job.parts =>
                   TreeAt(k, job.ckpt)' = TreeAt(k, job.ckpt)
  <2>1. PICK c \in Int : c = job.ckpt /\ c = job'.ckpt /\ job.ckpt <= c
    BY <1>1, <1>3
  <2>2. TreeAt(k, job.ckpt)' = TreeAt(k, c)' /\ TreeAt(k, job.ckpt) = TreeAt(k, c)
    BY <2>1, Zenon
  <2> QED BY <2>1, <2>2, RowsWritten, Zenon
<1>11. EndFits'
  <2> SUFFICES ASSUME NEW k \in Part
               PROVE  /\ TreeAt(k, job.ckpt)' \subseteq job.end[k]
                      /\ job.end[k] \subseteq TreeAt(k, job.ckpt)'
                               \cup (IF k \in job.parts THEN {job.pending} ELSE {})
                      /\ k \in job.parts => job.pending \in job.end[k]
    BY <1>1, Zenon DEF EndFits
  <2>1. /\ TreeAt(k, job.ckpt) \subseteq job.end[k]
        /\ job.end[k] \subseteq TreeAt(k, job.ckpt)
                                 \cup (IF k \in job.parts THEN {job.pending} ELSE {})
        /\ k \in job.parts => job.pending \in job.end[k]
    BY <1>5, Zenon DEF EndFits
  <2> QED BY <1>10, <2>1, Zenon
<1>12. ASSUME NEW k \in Part, TreeStep[k] <= step PROVE TreeAt(k, job.ckpt)' = job'.end[k]
  <2>1. TreeStep[k] \in 1 .. 5
    BY TreeRows, Zenon
  <2>2. CASE TreeStep[k] = step
    <3>1. /\ TreeAt(k, job.ckpt) \subseteq job.end[k]
          /\ k \in job.parts => job.pending \in job.end[k]
          /\ job.end[k] \subseteq TreeAt(k, job.ckpt)
                                   \cup (IF k \in job.parts THEN {job.pending} ELSE {})
      BY <1>5, Zenon DEF EndFits
    <3>2. TreeAt(k, job.ckpt)' = TreeAt(k, job.ckpt)
                                   \cup (IF k \in job.parts THEN {job.pending} ELSE {})
      BY <1>10, <2>2, Zenon
    <3> QED BY <1>1, <3>1, <3>2, Zenon
  <2>3. CASE TreeStep[k] < step
    <3>1. TreeAt(k, job.ckpt) = job.end[k]
      BY <1>1, <2>3, Zenon DEF TreesInv, JobTrees
    <3>2. step # TreeStep[k]
      BY <1>1, <2>1, <2>3
    <3> QED BY <1>1, <1>10, <3>1, <3>2, Zenon
  <2> QED BY <1>1, <1>12, <2>1, <2>2, <2>3
<1>13. /\ pc' = "rows" => \A k \in Part : TreeStep[k] < step' =>
                             TreeAt(k, job.ckpt)' = job'.end[k]
       /\ pc' = "records" => \A k \in Part : TreeAt(k, job.ckpt)' = job'.end[k]
  <2>1. \A k \in Part : TreeStep[k] \in 1 .. 5
    BY TreeRows, Zenon
  <2>2. \A k \in Part : /\ pc' = "rows" /\ TreeStep[k] < step' => TreeStep[k] <= step
                        /\ pc' = "records" => TreeStep[k] <= step
    BY <1>1, <2>1
  <2> QED BY <1>12, <2>2, Zenon
<1>14. job.then = "rotate_init" =>
         l2Loaded' /\ \A k \in Part : trees'[k] = TreeAt(k, latest + 1)'
  <2> SUFFICES ASSUME job.then = "rotate_init", NEW k \in Part
               PROVE  l2Loaded' /\ trees'[k] = TreeAt(k, latest + 1)'
    BY <1>1, <1>2, Zenon DEF TreesInv, JobTrees, lastCommitted
  <2>1. l2Loaded /\ trees[k] = TreeAt(k, latest + 1) /\ Settled
    BY <1>2, Zenon DEF TreesInv, JobTrees, Settled
  <2>2. job.ckpt = 0
    BY <1>3, Zenon DEF GenesisRuns, BlockRuns
  <2>3. PICK c \in Nat : c = latest + 1 /\ c = latest' + 1
    BY <1>1, <1>3 DEF Numbers
  <2>4. TreeAt(k, c)' = TreeAt(k, c)
    BY <1>6, <2>1, <2>2, Zenon
  <2>5. TreeAt(k, latest + 1)' = TreeAt(k, c)' /\ TreeAt(k, latest + 1) = TreeAt(k, c)
    BY <2>3, Zenon
  <2> QED BY <1>1, <2>1, <2>4, <2>5, Zenon DEF lastCommitted
<1>15. JobTrees'
  <2>1. pc' = "records" => ~ (step' > 1)
    BY <1>1
  <2> QED BY <1>1, <1>2, <1>11, <1>13, <1>14, <2>1, Zenon
             DEF TreesInv, JobTrees, lastCommitted
<1> QED BY <1>8, <1>9, <1>15, Zenon DEF TreesInv

\* The records go beyond the marker, or repeat those of genesis.
LEMMA TreesRecord == ASSUME IInv, TreesInv, WriteRecord PROVE TreesInv'
<1>1. /\ pc = "records" /\ pc' \in {"records", "marker"} /\ step \in 1 .. 6
      /\ UNCHANGED <<latest, c2p, rows, ringNext, lastCommitted, trees, job>>
      /\ roots' = IF RecordOrder[step] = "state_roots"
                    THEN [roots EXCEPT ![job.ckpt] = job.end] ELSE roots
  BY Zenon DEF WriteRecord, IInv, TypeOK, maps
<1>2. /\ pc \in HasJob /\ pc' \in HasJob /\ Live /\ Live'
      /\ {pc, pc'} \cap {"prove", "backup", "memory", "rows"} = {}
  BY <1>1, Zenon DEF HasJob, Writing, Live
<1>3. /\ Numbers /\ job.ckpt \in Ckpt /\ job.ckpt \in Nat
      /\ job.ckpt = 0 \/ job.ckpt = latest + 1
      /\ job.ckpt = 0 => latest = 0
  BY <1>1, <1>2, WritingJob, Zenon
<1>4. ASSUME Settled, NEW c \in 0 .. latest PROVE roots'[c] = roots[c]
  <2>1. c \in Ckpt /\ (c = job.ckpt => c = 0)
    BY <1>3, <1>4 DEF Numbers, Ckpt
  <2>2. CASE c = job.ckpt
    <3>1. job.end = GenesisRoots
      BY <1>2, <2>1, <2>2, Zenon DEF TreesInv, JobTrees
    <3>2. roots[c] = GenesisRoots
      <4>0. c = 0 /\ Match(c) /\ \A k \in Part : rows[TreeRow[k]][0] = GenesisRoots[k]
        BY <1>4, <2>1, <2>2, Zenon DEF TreesInv, StoredTrees
      <4>1. \A k \in Part : roots[0][k] = GenesisRoots[k]
        BY <4>0, TreeZero, Zenon DEF Match
      <4>2. roots[0] \in [Part -> SUBSET Pending]
        BY <2>1, <2>2, Zenon DEF IInv, TypeOK, Roots
      <4>3. GenesisRoots = [k \in Part |-> GenesisRoots[k]]
        BY Zenon DEF GenesisRoots
      <4>4. roots[0] = [k \in Part |-> roots[0][k]]
        BY <4>2, Zenon
      <4> QED BY <4>0, <4>1, <4>3, <4>4, Zenon
    <3> QED BY <1>1, <2>1, <2>2, <3>1, <3>2, Zenon DEF IInv, TypeOK
  <2>3. CASE c # job.ckpt
    BY <1>1, <2>1, <2>3, Zenon DEF IInv, TypeOK
  <2> QED BY <2>2, <2>3, Zenon
<1>5. StoredTrees'
  BY <1>1, <1>2, <1>4, StoredFrame, Zenon DEF IInv, TreesInv, Settled, lastCommitted
<1>6. LoadedTrees'
  <2>1. latest \in 0 .. latest
    BY <1>3 DEF Numbers
  <2>2. l2Loaded => roots'[latest] = roots[latest]
    BY <1>2, <1>4, <2>1, Zenon DEF Settled
  <2> QED BY <1>1, <1>2, <2>2, Zenon DEF TreesInv, LoadedTrees, Between, lastCommitted
<1>7. \A k \in Part : /\ TreeAt(k, job.ckpt)' = TreeAt(k, job.ckpt)
                      /\ TreeAt(k, latest + 1)' = TreeAt(k, latest + 1)
  BY <1>1, Zenon DEF TreeAt
<1>8. EndFits'
  BY <1>1, <1>2, <1>7, Zenon DEF TreesInv, JobTrees, EndFits
<1>9. roots'[job.ckpt] = job.end
  <2>1. RecordOrder[1] = "state_roots"
    BY Zenon DEF RecordOrder
  <2>2. CASE RecordOrder[step] = "state_roots"
    BY <1>1, <1>3, <2>2, Zenon DEF IInv, TypeOK
  <2>3. CASE RecordOrder[step] # "state_roots"
    <3>1. step # 1
      BY <2>1, <2>3, Zenon
    <3>2. step > 1
      BY <1>1, <3>1
    <3> QED BY <1>1, <2>3, <3>2, Zenon DEF TreesInv, JobTrees
  <2> QED BY <2>2, <2>3, Zenon
<1>10. JobTrees'
  BY <1>1, <1>2, <1>7, <1>8, <1>9, Zenon DEF TreesInv, JobTrees, lastCommitted
<1> QED BY <1>5, <1>6, <1>10, Zenon DEF TreesInv

\* The marker moves over a checkpoint whose nodes are those of its roots.
LEMMA TreesMarker == ASSUME IInv, TreesInv, set_latest_checkpoint_id PROVE TreesInv'
<1>1. /\ pc = "marker" /\ pc' = "backup" /\ latest' = job.ckpt
      /\ UNCHANGED <<c2p, rows, roots, ringNext, lastCommitted, trees, job>>
  BY Zenon DEF set_latest_checkpoint_id, maps
<1>2. /\ pc \in HasJob /\ pc' \in HasJob /\ Live /\ Live'
  BY <1>1, Zenon DEF HasJob, Writing, Live
<1>3. /\ Numbers /\ job.ckpt \in Ckpt /\ job.ckpt \in Nat /\ latest \in Nat
      /\ job.ckpt = 0 \/ job.ckpt = latest + 1
      /\ job.ckpt = 0 => latest = 0
      /\ GenesisRuns \/ BlockRuns
      /\ c2p[job.ckpt] = job.pending
  BY <1>1, <1>2, WritingJob DEF Numbers, IInv, WriteInv, Writing
<1>4. \A k \in Part : \A c \in Int : TreeAt(k, c)' = TreeAt(k, c)
  BY <1>1, TreeFrame, Zenon
<1>5. \A k \in Part : TreeAt(k, job.ckpt)' = TreeAt(k, job.ckpt)
  BY <1>1, Zenon DEF TreeAt
<1>6. EndFits'
  BY <1>1, <1>2, <1>5, Zenon DEF TreesInv, JobTrees, EndFits
<1>7. LoadedTrees'
  BY <1>1, Zenon DEF LoadedTrees, Between
<1>8. CASE job.ckpt = 0
  <2>1. UNCHANGED latest
    BY <1>1, <1>3, <1>8, Zenon
  <2>2. StoredTrees'
    BY <1>1, <1>2, <2>1, StoredFrame, Zenon DEF IInv, TreesInv, Settled, lastCommitted
  <2>3. \A k \in Part : TreeAt(k, latest + 1)' = TreeAt(k, latest + 1)
    BY <1>1, <2>1, Zenon DEF TreeAt
  <2>4. job.then # "idle"
    BY <1>3, <1>8 DEF GenesisRuns, BlockRuns, Numbers
  <2>5. JobTrees'
    BY <1>1, <1>2, <1>5, <1>6, <2>3, <2>4, Zenon DEF TreesInv, JobTrees, lastCommitted
  <2> QED BY <1>7, <2>2, <2>5, Zenon DEF TreesInv
<1>9. CASE job.ckpt # 0
  <2>1. /\ BlockRuns /\ job.ckpt = latest + 1 /\ job.then = "idle"
    BY <1>3, <1>9, Zenon DEF GenesisRuns, BlockRuns
  <2>2. l2Loaded /\ Settled
    BY <1>1, <1>2, <2>1, Zenon DEF IInv, GenesisInv, BlockBuilt, Settled
  <2>3. lastRoots = roots[latest] /\ Match(latest)
    <3>1. latest \in 0 .. latest
      BY <1>3
    <3> QED BY <1>1, <1>2, <2>2, <3>1, Zenon DEF TreesInv, LoadedTrees, StoredTrees
  <2>4. /\ roots[job.ckpt] = job.end
        /\ \A k \in Part : TreeAt(k, job.ckpt) = job.end[k]
        /\ \A k \in Part : job.end[k] \subseteq lastRoots[k] \cup {job.pending}
        /\ trees = job.end
    BY <1>1, <1>2, <2>1, Zenon DEF TreesInv, JobTrees
  <2>5. ASSUME NEW c \in 0 .. latest' PROVE Match(c)'
    <3>1. CASE c \in 0 .. latest
      <4>1. Match(c)
        BY <2>2, <3>1, Zenon DEF TreesInv, StoredTrees
      <4>2. \A k \in Part : TreeAt(k, c)' = TreeAt(k, c)
        BY <1>4, <3>1
      <4> QED BY <1>1, <4>1, <4>2, Zenon DEF Match
    <3>2. CASE c = job.ckpt
      <4>1. ASSUME NEW k \in Part
            PROVE  job.end[k] \subseteq {c2p[d] : d \in 0 .. c}
        <5>1. roots[latest][k] \subseteq {c2p[d] : d \in 0 .. latest}
          BY <2>3, Zenon DEF Match
        <5>2. c \in 0 .. c /\ \A d \in 0 .. latest : d \in 0 .. c
          BY <1>3, <2>1, <3>2
        <5>3. job.pending = c2p[c]
          BY <1>3, <3>2, Zenon
        <5>4. \A x \in {c2p[d] : d \in 0 .. latest} : x \in {c2p[d] : d \in 0 .. c}
          BY <5>2, Zenon
        <5>5. c2p[c] \in {c2p[d] : d \in 0 .. c}
          BY <5>2, Zenon
        <5>6. ASSUME NEW x \in job.end[k] PROVE x \in roots[latest][k] \/ x = c2p[c]
          BY <2>3, <2>4, <5>3, Zenon
        <5> QED BY <5>1, <5>4, <5>5, <5>6, Zenon
      <4>2. \A k \in Part : TreeAt(k, c)' = TreeAt(k, c)
        BY <1>3, <1>4, <3>2
      <4>3. /\ roots'[c] = job.end /\ c2p' = c2p
            /\ \A k \in Part : TreeAt(k, c) = job.end[k]
        BY <1>1, <2>4, <3>2, Zenon
      <4> QED BY <4>1, <4>2, <4>3, Zenon DEF Match
    <3> QED BY <1>1, <1>3, <2>1, <3>1, <3>2
  <2>6. StoredTrees'
    <3>1. \A d \in Ckpt : d > latest' + 1 => d > latest + 1
      BY <1>1, <1>3, <2>1 DEF Ckpt, Numbers
    <3> QED BY <1>1, <2>2, <2>5, <3>1, Zenon DEF TreesInv, StoredTrees
  <2>7. ASSUME NEW k \in Part PROVE trees'[k] = TreeAt(k, latest + 1)'
    <3>1. PICK c \in Nat : c = job.ckpt /\ c = latest'
      BY <1>1, <1>3, Zenon
    <3>2. c + 1 \in Ckpt => rows[TreeRow[k]][c + 1] = {}
      <4>1. c + 1 > latest + 1
        BY <1>3, <2>1, <3>1
      <4> QED BY <4>1, Zenon DEF TreesInv, StoredTrees
    <3>3. TreeAt(k, c + 1) = TreeAt(k, c)
      BY <3>2, TreeNext, Zenon
    <3>4. TreeAt(k, c) = job.end[k]
      BY <2>4, <3>1, Zenon
    <3>5. TreeAt(k, latest + 1)' = TreeAt(k, c + 1)'
      BY <3>1, Zenon
    <3>6. TreeAt(k, c + 1)' = TreeAt(k, c + 1)
      BY <1>4, <3>1
    <3> QED BY <1>1, <2>4, <3>3, <3>4, <3>5, <3>6, Zenon
  <2>8. JobTrees'
    BY <1>1, <1>2, <1>5, <1>6, <1>9, <2>1, <2>4, <2>7, Zenon
       DEF TreesInv, JobTrees, lastCommitted
  <2> QED BY <1>7, <2>6, <2>8, Zenon DEF TreesInv
<1> QED BY <1>8, <1>9, Zenon

\* The ring takes the leaf of the marker.
LEMMA TreesAppend == ASSUME IInv, TreesInv, append_checkpoint_leaf_hash PROVE TreesInv'
<1>1. CASE pc' = "parked" /\ UNCHANGED <<ring, ringNext>>
  BY <1>1, TreesDown, Zenon DEF append_checkpoint_leaf_hash, durable, maps
<1>2. CASE pc' = "memory"
  <2>1. /\ pc = "backup"
        /\ UNCHANGED <<latest, c2p, rows, roots, lastCommitted, trees, job>>
        /\ \/ job.ckpt = ringNext /\ ringNext' = ringNext + 1
           \/ job.ckpt = ringNext - 1 /\ ringNext' = ringNext
    BY <1>2, Zenon DEF append_checkpoint_leaf_hash, maps
  <2>2. Live /\ Live' /\ pc \in HasJob /\ pc' \in HasJob
    BY <1>2, <2>1, Zenon DEF Live, HasJob, Writing
  <2>3. ringNext' = latest' + 1
    <3>1. latest = job.ckpt
      BY <2>1, Zenon DEF IInv, IdsInv
    <3> QED BY <2>1, <3>1, TypeOKNumbers DEF IInv, Numbers
  <2>4. StoredTrees'
    BY <2>1, <2>2, StoredFrame, Zenon DEF IInv, TreesInv, Settled, lastCommitted
  <2>5. LoadedTrees'
    BY <1>2, <2>3, Zenon DEF LoadedTrees, Between
  <2>6. \A k \in Part : /\ TreeAt(k, job.ckpt)' = TreeAt(k, job.ckpt)
                        /\ TreeAt(k, latest + 1)' = TreeAt(k, latest + 1)
    BY <2>1, Zenon DEF TreeAt
  <2>7. EndFits'
    BY <2>1, <2>2, <2>6, Zenon DEF TreesInv, JobTrees, EndFits
  <2>8. JobTrees'
    BY <1>2, <2>1, <2>2, <2>6, <2>7, Zenon DEF TreesInv, JobTrees, lastCommitted
  <2> QED BY <2>4, <2>5, <2>8, Zenon DEF TreesInv
<1> QED BY <1>1, <1>2, Zenon DEF append_checkpoint_leaf_hash

\* Memory takes over the roots of the block, or of genesis.
LEMMA TreesMemory == ASSUME IInv, TreesInv, UpdateLastCommitted PROVE TreesInv'
<1>1. /\ pc = "memory" /\ pc' = job.then /\ lastRoots' = job.end /\ l2Loaded'
      /\ UNCHANGED <<latest, c2p, rows, roots, ringNext, trees>>
  BY Zenon DEF UpdateLastCommitted, durable, maps
<1>2. pc \in HasJob /\ Live
  BY <1>1, Zenon DEF HasJob, Writing, Live
<1>3. /\ latest = job.ckpt /\ latest \in Nat /\ job.ckpt \in Nat
      /\ GenesisRuns \/ BlockRuns
      /\ c2p[job.ckpt] = job.pending
  BY <1>1, <1>2, WritingJob DEF Numbers, IInv, IdsInv, WriteInv, Writing
<1>4. pc' \in {"load", "rotate_init", "idle"} /\ Live'
  BY <1>1, <1>3, Zenon DEF GenesisRuns, BlockRuns, Live
<1>5. /\ roots[latest] = job.end
      /\ \A k \in Part : TreeAt(k, latest) = job.end[k]
      /\ job.ckpt = 0 => job.end = GenesisRoots
      /\ ringNext = latest + 1
  BY <1>1, <1>2, <1>3, Zenon DEF TreesInv, JobTrees, LoadedTrees
<1>6. StoredTrees'
  <2>1. CASE latest # 0
    <3>1. Settled
      BY <1>3, <2>1 DEF Settled
    <3> QED BY <1>1, <3>1, StoredFrame, Zenon DEF IInv, TreesInv
  <2>2. CASE latest = 0
    <3>1. job.pending = 0
      BY <1>3, <2>2 DEF GenesisRuns, BlockRuns, IInv, IdsInv, TypeOK, Ckpt
    <3>2. \A k \in Part : rows[TreeRow[k]][0] = GenesisRoots[k]
      BY <1>3, <1>5, <2>2, TreeZero, Zenon
    <3>3. \A k \in Part : GenesisRoots[k] \subseteq {0}
      BY Zenon DEF GenesisRoots
    <3>4. Match(0)'
      <4>1. ASSUME NEW k \in Part
            PROVE  /\ roots'[0][k] = TreeAt(k, 0)'
                   /\ roots'[0][k] \subseteq {c2p'[d] : d \in 0 .. 0}
        <5>1. roots'[0][k] = GenesisRoots[k] /\ TreeAt(k, 0)' = GenesisRoots[k]
          BY <1>1, <1>3, <1>5, <2>2, <3>2, TreeZero, Zenon
        <5>2. c2p'[0] = 0 /\ 0 \in 0 .. 0
          BY <1>1, <1>3, <2>2, <3>1
        <5> QED BY <3>3, <5>1, <5>2, Zenon
      <4> QED BY <4>1, Zenon DEF Match
    <3>5. \A c \in 0 .. latest' : c = 0
      BY <1>1, <2>2
    <3> QED BY <1>1, <3>2, <3>4, <3>5, Zenon DEF TreesInv, StoredTrees
  <2> QED BY <2>1, <2>2, Zenon
<1>7. LoadedTrees'
  <2>1. \A k \in Part : TreeAt(k, latest + 1)' = TreeAt(k, latest + 1)
    BY <1>1, Zenon DEF TreeAt
  <2>2. pc' # "load" => \A k \in Part : trees'[k] = TreeAt(k, latest + 1)'
    BY <1>1, <1>2, <1>4, <2>1, Zenon DEF TreesInv, JobTrees
  <2> QED BY <1>1, <1>4, <1>5, <2>2, Zenon DEF LoadedTrees, Between
<1>8. JobTrees'
  BY <1>4, Zenon DEF JobTrees, HasJob, Writing
<1> QED BY <1>6, <1>7, <1>8, Zenon DEF TreesInv

\* Every step keeps TreesInv.
LEMMA TreesStep == ASSUME IInv, IInv', TreesInv, [Next]_vars PROVE TreesInv'
<1>1. CASE new_init
  BY <1>1, TreesNewInit, Zenon
<1>2. CASE EnsureGenesis
  BY <1>2, TreesEnsureGenesis, Zenon
<1>3. CASE load_coordinator_memory_trees_from_db
  BY <1>3, TreesLoad, Zenon
<1>4. CASE InitCheck
  BY <1>4, TreesInitCheck, Zenon
<1>5. CASE inc_unique_pending_id
  BY <1>5, TreesBetween, Zenon DEF inc_unique_pending_id, Between, maps
<1>6. CASE set_new_unique_ids
  BY <1>6, TreesBetween, Zenon DEF set_new_unique_ids, Between, maps
<1>7. CASE get_results_from_gatherers
  BY <1>7, TreesGather, Zenon
<1>8. CASE plan_checkpoint_state_transition
  BY <1>8, TreesPlan, Zenon
<1>9. CASE SaveTransition
  BY <1>9, TreesSave, Zenon
<1>10. CASE set_unique_pending_id_checkpoint_id_mapping
  BY <1>10, TreesMapPending, Zenon
<1>11. CASE set_checkpoint_id_to_unique_pending_id_mapping
  BY <1>11, TreesMapCheckpoint, Zenon
<1>12. CASE WriteRows
  BY <1>12, TreesRows, Zenon
<1>13. CASE WriteRecord
  BY <1>13, TreesRecord, Zenon
<1>14. CASE set_latest_checkpoint_id
  BY <1>14, TreesMarker, Zenon
<1>15. CASE append_checkpoint_leaf_hash
  BY <1>15, TreesAppend, Zenon
<1>16. CASE UpdateLastCommitted
  BY <1>16, TreesMemory, Zenon
<1>17. CASE StepFails \/ Crash
  BY <1>17, TreesDown, Zenon DEF StepFails, Crash
<1>18. CASE UNCHANGED vars
  <2>1. UNCHANGED <<latest, c2p, rows, roots, ringNext, pc, step, lastCommitted, trees, job>>
    BY <1>18, Zenon DEF vars, durable, maps
  <2>2. \A k \in Part : /\ TreeAt(k, job.ckpt)' = TreeAt(k, job.ckpt)
                        /\ TreeAt(k, latest + 1)' = TreeAt(k, latest + 1)
    BY <2>1, Zenon DEF TreeAt
  <2>3. get_database_check_state' = get_database_check_state
    BY <1>18, CheckFrame, Zenon DEF vars, durable, maps
  <2>4. StoredTrees'
    BY <2>1, StoredFrame, Zenon DEF IInv, TreesInv, Settled, Live, lastCommitted
  <2>5. LoadedTrees'
    BY <2>1, <2>2, <2>3, Zenon DEF TreesInv, LoadedTrees, Live, lastCommitted
  <2>6. EndFits => EndFits'
    BY <2>1, <2>2, Zenon DEF EndFits
  <2>7. JobTrees'
    BY <2>1, <2>2, <2>6, Zenon DEF TreesInv, JobTrees, lastCommitted
  <2> QED BY <2>4, <2>5, <2>7, Zenon DEF TreesInv
<1> QED BY <1>1, <1>2, <1>3, <1>4, <1>5, <1>6, <1>7, <1>8, <1>9, <1>10, <1>11, <1>12,
           <1>13, <1>14, <1>15, <1>16, <1>17, <1>18, Zenon DEF Next

\* The initial state.
LEMMA TreesInit == Init => TreesInv
<1> SUFFICES ASSUME Init PROVE TreesInv
  OBVIOUS
<1>1. /\ pc = "down" /\ latest = 0 /\ ~Live /\ ~Settled
  BY DEF Init, Live, Settled
<1>2. StoredTrees
  <2>1. \A k \in Part : \A d \in Ckpt : rows[TreeRow[k]][d] = {}
    BY TreeRows, Zenon DEF Init
  <2>2. 0 \in Ckpt
    BY BoundsAssumption DEF Ckpt
  <2> QED BY <1>1, <2>1, <2>2, Zenon DEF StoredTrees
<1>3. LoadedTrees
  BY <1>1, Zenon DEF LoadedTrees, Between
<1>4. JobTrees
  BY <1>1, Zenon DEF JobTrees, HasJob, Writing
<1> QED BY <1>2, <1>3, <1>4, Zenon DEF TreesInv

\* In a clean database the trees in memory are those of the marker.
LEMMA CleanTrees ==
  ASSUME IInv, TreesInv, l2Loaded, NoLeftovers, pc \in {"gather", "prove"}
  PROVE  \A k \in Part : TreeAt(k, latest + 1) = lastRoots[k]
<1>1. Live /\ Settled /\ lastRoots = roots[latest] /\ ckptId = latest
  BY Zenon DEF Live, Settled, TreesInv, LoadedTrees, IInv, IdsInv
<1>2. latest \in Nat /\ latest \in 0 .. latest /\ MaxCheckpoint \in Nat
  BY TypeOKNumbers DEF IInv, Numbers
<1>3. Match(latest)
  BY <1>1, <1>2, Zenon DEF TreesInv, StoredTrees
<1>4. ASSUME NEW k \in Part, latest + 1 \in Ckpt PROVE rows[TreeRow[k]][latest + 1] = {}
  BY <1>1, <1>2, <1>4 DEF NoLeftovers, Ckpt
<1>5. \A k \in Part : TreeAt(k, latest + 1) = TreeAt(k, latest)
  BY <1>2, <1>4, TreeNext, Zenon
<1> QED BY <1>1, <1>3, <1>5, Zenon DEF Match

\* What the checks of a clean restart compare.
LEMMA CleanResumes == IInv /\ TreesInv => CleanStateResumes
<1> SUFFICES ASSUME IInv, TreesInv, l2Loaded, NoLeftovers
             PROVE  /\ pc = "gather" => BuilderAccepts
                    /\ pc = "prove" => OldLeafMatches
  BY Zenon DEF CleanStateResumes
<1>1. CASE pc = "gather"
  <2>1. \A k \in Part : trees[k] = lastRoots[k]
    BY <1>1, CleanTrees, Zenon DEF TreesInv, LoadedTrees, Between
  <2> QED BY <1>1, <2>1, Zenon DEF BuilderAccepts, Part
<1>2. CASE pc = "prove"
  <2>1. /\ Live /\ pc \in HasJob /\ ringNext = latest + 1 /\ Numbers
        /\ job.ckpt = latest + 1 /\ ckptId = latest
    <3>1. Live /\ pc \in HasJob
      BY <1>2, Zenon DEF Live, HasJob
    <3> QED BY <1>2, <3>1, TypeOKNumbers, Zenon
               DEF IInv, IdsInv, TreesInv, LoadedTrees, GenesisRuns, BlockRuns
  <2>2. job.start = lastRoots
    <3>1. \A k \in Part : job.start[k] = lastRoots[k]
      BY <1>2, <2>1, CleanTrees, Zenon DEF TreesInv, JobTrees
    <3>2. job.start \in Roots /\ lastRoots \in Roots
      BY Zenon DEF IInv, TypeOK, Jobs
    <3> QED BY <3>1, <3>2 DEF Roots
  <2>3. ring[latest] = c2p[latest] /\ c2p[latest] \in Pending
    <3>1. Complete(latest)
      <4>1. CASE latest = 0
        BY <2>1, <4>1, Zenon DEF IInv, GenesisInv
      <4>2. CASE latest # 0
        BY <2>1, <4>2 DEF IInv, CommittedInv, CommittedComplete, Complete, Numbers
      <4> QED BY <4>1, <4>2, Zenon
    <3>2. latest \in 0 .. ringNext - 1
      BY <2>1 DEF Numbers
    <3>3. ring[latest] = records["tree_leaf"][latest]
      BY <3>2, Zenon DEF IInv, CommittedInv, RingFollowsMarker
    <3> QED BY <3>1, <3>3, Zenon DEF Complete, RecordKind
  <2>4. lastChain[Len(lastChain)] = c2p[latest]
    <3>1. lastChain = get_checkpoint_chain_hash(latest)
      BY <2>1, Zenon DEF IInv, WriteInv
    <3>2. CASE latest = 0
      <4>1. c2p[0] \in {NoId, 0} /\ c2p[0] \in Pending
        BY <2>3, <3>2, Zenon DEF IInv, GenesisInv
      <4>2. c2p[0] = 0
        BY <4>1, BoundsAssumption DEF Pending, NoId
      <4>3. lastChain = <<0>>
        BY <3>1, <3>2, Zenon DEF get_checkpoint_chain_hash, GenesisChain
      <4> QED BY <3>2, <4>2, <4>3, Zenon
    <3>3. CASE latest # 0
      <4>1. latest \in 1 .. latest /\ latest - 1 \in Ckpt
        BY <2>1, <3>3 DEF Numbers, Ckpt
      <4>2. lastChain = Append(get_checkpoint_chain_hash(latest - 1), c2p[latest])
        BY <3>1, <3>3, <4>1, Zenon
           DEF IInv, CommittedInv, ChainContinuous, get_checkpoint_chain_hash
      <4>3. get_checkpoint_chain_hash(latest - 1) \in Seq(Pending)
        <5>1. 0 \in Pending
          BY BoundsAssumption DEF Pending
        <5>2. GenesisChain \in Seq(Pending)
          BY <5>1 DEF GenesisChain
        <5>3. transition[latest - 1] \in Seq(Pending)
          BY <4>1, Zenon DEF IInv, TypeOK
        <5> QED BY <5>2, <5>3, Zenon DEF get_checkpoint_chain_hash
      <4> QED BY <2>3, <4>2, <4>3
    <3> QED BY <3>2, <3>3, Zenon
  <2>5. ckptId < ringNext /\ ring[ckptId] = lastChain[Len(lastChain)]
    BY <2>1, <2>3, <2>4 DEF Numbers
  <2> QED BY <1>2, <2>2, <2>5, Zenon DEF OldLeafMatches
<1> QED BY <1>1, <1>2, Zenon
=============================================================================
