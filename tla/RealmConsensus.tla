--------------------------- MODULE RealmConsensus ---------------------------
(* The validators of one Realm (psy_node_common/src/realm/processor, the   *)
(* event consumer of psy_node_cli/src/node/realm_p2p.rs) against the       *)
(* Coordinator that includes their updates.                                *)
(*                                                                         *)
(* The scheduled proposer gathers a new Realm root, gossips the proposal,  *)
(* waits for ceil(n/2) votes, submits it, waits for its inclusion and      *)
(* commits it to its store. Followers keep the proposal, replay it on its  *)
(* base and vote; when they see the root included they commit it from the  *)
(* kept proposal or from a peer's copy. Validators crash, exit and recover *)
(* at the next start; gossip, a submission or its answer can be lost.      *)
(*                                                                         *)
(* A Realm root is a number: 0 at genesis, then the index of the proposal  *)
(* that produces it. Admission by the Coordinator is one step here;        *)
(* GutaAdmission models its interleavings. A step ends where the processor *)
(* waits for somebody else, and a crash can end it after any of its        *)
(* commit's writes.                                                        *)
EXTENDS RealmStore

CONSTANTS
  Validators,              \* the sub ids: a set of numbers
  Shuffle,                 \* anchor checkpoint -> proposer of its epoch
  CHECKPOINTS_PER_EPOCH,
  GUTA_IN_FLIGHT_WINDOW_CHECKPOINTS,
  ResendAfter,             \* guta_resend_after_checkpoints
  MaxCheckpoint, MaxRoot,  \* bounds: checkpoints, proposals,
  MaxLag,                  \* checkpoints a running loop is behind at most,
  MaxTroubles,             \* crashes, losses and blocks in vain,
  Unstable                 \* and the validators that crash or work in vain

ASSUME ResendAssumption == ResendAfter >= 2  \* REALM_GUTA_RESEND_MIN_CHECKPOINTS
ASSUME ValidatorsAssumption == Validators \subseteq Nat /\ IsFiniteSet(Validators)
ASSUME WindowAssumption == GUTA_IN_FLIGHT_WINDOW_CHECKPOINTS \in Nat \ {0, 1}
ASSUME BoundAssumption == MaxCheckpoint \in Nat \ {0} /\ MaxRoot \in Nat

VARIABLES
  chain,      \* the Realm root at each committed checkpoint
  batch,      \* what the gathering and the processing generation hold
  in_flight,  \* the Coordinator's in-flight record of this Realm
  proposals,  \* every proposal made: proposer, base checkpoint, old root
  gossip,     \* <<proposal, validator>>: published and not yet received
  replays,    \* <<proposal, validator>>: baseline replay requested
  votes,      \* <<proposal, validator>>: votes a waiting proposer has
  store,      \* each validator's durable record
  proc,       \* each validator's memory
  troubles,   \* how many of MaxTroubles have happened
  gave_up     \* validators whose own commit failed without a crash

coordinator == <<chain, batch, in_flight>>
network == <<gossip, replays, votes>>
vars == <<coordinator, proposals, network, store, proc, troubles, gave_up>>

Roots == 0 .. MaxRoot
Proposals == 1 .. MaxRoot
Checkpoints == 1 .. MaxCheckpoint
Latest == Len(chain)
OldRoot(r) == proposals[r].old

(***************************************************************************)
(* Rotation: the proposer of target T = base + 1 is drawn from the last    *)
(* checkpoint of the epoch before T's.                                     *)
(***************************************************************************)
epoch(checkpoint) == checkpoint \div CHECKPOINTS_PER_EPOCH

anchor_checkpoint_id(e) == Max({e * CHECKPOINTS_PER_EPOCH - 1, 0})

proposer_sub_id(base) == Shuffle[anchor_checkpoint_id(epoch(base + 1))]

\* Mutant: half of the validators, rounded down.
HalfRoundedDown == Cardinality(Validators) \div 2

replication_threshold == (Cardinality(Validators) + 1) \div 2

votes_meet_wait(r, v) ==
  Cardinality({v} \cup {u \in Validators : <<r, u>> \in votes})
    >= replication_threshold

(***************************************************************************)
(* A validator's memory. pc is the point its processor is at:              *)
(*   down, boot (recovery at a start), catchup (recovery after a fatal     *)
(*   error), loop, votes (proposed, waiting for votes), await (submitted,  *)
(*   waiting for the inclusion).                                           *)
(* last_committed is last_committed_checkpoint_id; start and tree are      *)
(* gathering_realm_start_root and the root of the gatherer's tree, alive   *)
(* whether the gatherer runs. ids says of the processing pending id that   *)
(* it is unmapped ("free") or mapped ("used"); sealed is the root its      *)
(* gatherer file ends at, the validator's own proposal, or 0. baseline is  *)
(* the Coordinator head a resend is measured from, or the one a recovery   *)
(* goes up to; check is what that recovery found at its start.             *)
(***************************************************************************)
Stopped ==
  [pc |-> "down", last_committed |-> 0, start |-> 0, tree |-> 0,
   alive |-> FALSE, ids |-> "used", sealed |-> 0, baseline |-> 0,
   check |-> "Ready"]

Init ==
  /\ chain = <<0>>
  /\ batch = [gathering |-> 0, processing |-> -1]
  /\ in_flight = [old |-> 0, at |-> -GUTA_IN_FLIGHT_WINDOW_CHECKPOINTS]
  /\ proposals = <<>>
  /\ gossip = {} /\ replays = {} /\ votes = {}
  /\ store = [v \in Validators |-> GenesisStore]
  /\ proc = [v \in Validators |->
               [Stopped EXCEPT !.pc = "loop", !.alive = TRUE,
                               !.last_committed = 1]]
  /\ troubles = 0
  /\ gave_up = {}

At(v, pc) == proc[v].pc = pc
Up(v) == ~At(v, "down")
SetProc(v, p) == proc' = [proc EXCEPT ![v] = p]
SetStore(v, s) == store' = [store EXCEPT ![v] = s]
Trouble == troubles < MaxTroubles /\ troubles' = troubles + 1
TroubleAt(v) == v \in Unstable /\ Trouble

\* The replay requests and votes that are left after a step: a proposal
\* nobody waits for any more has none, and a process that ended loses the
\* requests it was handed.
Heard(requests, received) ==
  LET waited(r) == LET p == proc'[proposals[r].by]
                   IN  p.pc = "votes" /\ p.sealed = r
  IN  /\ replays' = {m \in requests : waited(m[1]) /\ proc'[m[2]].pc # "down"}
      /\ votes' = {m \in received : waited(m[1])}

NoMessages == Heard(replays, votes) /\ UNCHANGED gossip

\* The process ends with store s.
Exit(v, s) == SetProc(v, Stopped) /\ SetStore(v, s)

\* Init catch-up, with memory p and store s, failed: a start is over, a
\* running loop goes on without a gatherer.
RecoveryFailed(v, p, s) ==
  IF p.pc = "boot"
  THEN Exit(v, s)
  ELSE /\ SetProc(v, [p EXCEPT !.pc = "loop", !.alive = FALSE, !.check = "Ready",
                               !.baseline = 0])
       /\ SetStore(v, s)

\* A fatal error of process_block: the gatherer is aborted and the history
\* is recovered up to the Coordinator's head.
run_init_catchup(v, p, s) ==
  LET entered == [p EXCEPT !.pc = "catchup", !.alive = FALSE,
                           !.start = chain[p.last_committed],
                           !.check = get_database_check_state(s, chain),
                           !.baseline = Latest]
  IN  IF ~Loads(s, chain, p.last_committed) THEN RecoveryFailed(v, p, s)
      ELSE IF entered.check = "Refused" THEN RecoveryFailed(v, entered, s)
      ELSE SetProc(v, entered) /\ SetStore(v, s)

(***************************************************************************)
(* Where the body of an included proposal comes from: the own copy, else   *)
(* the primary peer, the validator with the lowest other sub id; the       *)
(* backup peer is asked only when the primary does not answer.             *)
(***************************************************************************)
CatchupPeer(v) ==
  LET primary == Min(Validators \ {v})
      rest == Validators \ {v, primary}
  IN  IF Up(primary) \/ rest = {} THEN primary ELSE Min(rest)

BodyAvailable(v, r) ==
  \/ r \in store[v].held
  \/ LET peer == CatchupPeer(v) IN Up(peer) /\ r \in store[peer].held

\* Mutant: a body is applied without its base.
BodyWithoutBase(v, c) == BodyAvailable(v, chain[c])

\* Mutant: off by one, the updates replay on the subtree they lead to.
VerifiedAtInclusion(v, c) ==
  BodyAvailable(v, chain[c]) /\ Loads(store[v], chain, c)

\* The updates replay on the subtree at the checkpoint before the inclusion.
verify_history_transition(v, c) ==
  BodyAvailable(v, chain[c]) /\ Loads(store[v], chain, c - 1)

(***************************************************************************)
(* commit_state: the mapping of the pending id, the state updates and the  *)
(* marker are separate writes. A commit is a record: checkpoint, whether   *)
(* the mapping is there already, whether the pending id is the newest      *)
(* allocated one, and the root its gatherer file ends at.                  *)
(***************************************************************************)
MappingWritten(s, w) ==
  IF w.linked THEN s
  ELSE set_pending_id_mappings(s, w.ck, w.newest, w.file = chain[w.ck])
FfsWritten(s, w) == apply_realm_ffs_updates(MappingWritten(s, w), w.ck)
MarkerWritten(s, w) == set_latest_checkpoint_id(FfsWritten(s, w), w.ck)

Committed(p, w) ==
  [p EXCEPT !.last_committed = w.ck, !.ids = "used", !.sealed = 0]

\* Mutant: the marker is written before the state updates.
CutAfterEarlyMarker(v, s, w) ==
  /\ TroubleAt(v)
  /\ \E cut \in {s, MappingWritten(s, w),
                 set_latest_checkpoint_id(MappingWritten(s, w), w.ck)} : Exit(v, cut)

\* A crash before the last write.
CommitCut(v, s, w) ==
  /\ TroubleAt(v)
  /\ \E cut \in {s, MappingWritten(s, w), FfsWritten(s, w)} : Exit(v, cut)

\* The pending id an included proposal is committed under
\* (ensure_uncommitted_processing_ids): the one an interrupted commit mapped,
\* the processing id, or a new one.
HistoryWrite(v, c) ==
  LET linked == store[v].link.ck = c
      free == proc[v].ids = "free"
  IN  [ck |-> c, linked |-> linked, newest |-> ~linked /\ ~free,
       file |-> IF free THEN proc[v].sealed ELSE 0]

\* The store apply_history_proposal commits to: the body is kept, and a new
\* pending id is allocated where one is needed.
HistoryStore(s, w) ==
  LET kept == save_proposal(s, chain[w.ck])
  IN  IF w.newest THEN inc_unique_pending_id(kept) ELSE kept

(***************************************************************************)
(* sync_and_verify: answer the replay requests, persist the metadata of    *)
(* every checkpoint, commit the oldest missing root change, else move the  *)
(* marker to the head.                                                     *)
(***************************************************************************)
\* The base is applied here and has the proposal's old root.
verify_state_updates_from_baseline(v, r) ==
  /\ Loads(store[v], chain, proposals[r].base)
  /\ chain[proposals[r].base] = OldRoot(r)

\* What happens to the gatherer once another validator's root at c is
\* committed: it is moved from the old root to the new one, or recreated
\* where it was at neither. Without a gatherer to move the sync fails; one
\* that refuses ends, and the process with it. The proposer's own gatherer
\* is left alone.
FollowTree(v, p, c) ==
  LET new == chain[c]
      old == OldRoot(new)
      moved == [p EXCEPT !.start = new, !.tree = new, !.alive = TRUE]
  IN  IF proposals[new].by = v \/ p.start = new THEN p
      ELSE IF p.start # old THEN moved
      ELSE IF ~p.alive THEN p
      ELSE IF p.tree \in {old, new} THEN moved
      ELSE Stopped

\* No root change is missing.
SyncToHead(v) ==
  /\ first_root_change(chain, proc[v].last_committed) = 0
  /\ SetStore(v, sync_to_coordinator_checkpoint_id(store[v], Latest))
  /\ SetProc(v, [proc[v] EXCEPT !.last_committed = Latest])
  /\ UNCHANGED troubles

\* Root change c is the oldest that is missing.
FollowInclusion(v, c) ==
  LET synced == persist_checkpoint_metadata_range(store[v], Latest)
      w == HistoryWrite(v, c)
      s == HistoryStore(synced, w)
  IN  /\ c = first_root_change(chain, proc[v].last_committed)
      /\ \/ /\ verify_history_transition(v, c)
            /\ SetStore(v, MarkerWritten(s, w))
            /\ SetProc(v, FollowTree(v, Committed(proc[v], w), c))
            /\ UNCHANGED troubles
         \/ verify_history_transition(v, c) /\ CommitCut(v, s, w)
         \/ /\ ~verify_history_transition(v, c)
            /\ SetStore(v, synced)
            /\ UNCHANGED <<proc, troubles>>

sync_and_verify(v) ==
  /\ At(v, "loop")
  /\ SyncToHead(v) \/ \E c \in Transitions(chain) : FollowInclusion(v, c)
  /\ Heard({m \in replays : m[2] # v},
           votes \cup {m \in replays : /\ m[2] = v
                         /\ verify_state_updates_from_baseline(v, m[1])})
  /\ UNCHANGED <<coordinator, proposals, gossip, gave_up>>

(***************************************************************************)
(* Recovery, at a start and after a fatal error.                           *)
(***************************************************************************)
Boot(v) ==
  /\ At(v, "down") /\ StartAccepted(store[v], chain)
  /\ SetProc(v, [Stopped EXCEPT !.pc = "boot",
                                !.check = get_database_check_state(store[v], chain),
                                !.last_committed = store[v].marker,
                                !.start = chain[store[v].marker],
                                !.baseline = Latest])
  /\ UNCHANGED <<coordinator, proposals, network, store, troubles, gave_up>>

\* The history is applied up to the head: the gatherer restarts from it. The
\* gathering baseline is that of the entry; a start sets it again and
\* allocates the pending id of its first generation.
FinishRecovery(v) ==
  LET p == [proc[v] EXCEPT !.pc = "loop", !.last_committed = Latest,
                           !.tree = chain[Latest], !.alive = TRUE,
                           !.check = "Ready", !.baseline = 0]
      s == sync_to_coordinator_checkpoint_id(store[v], Latest)
  IN  \/ /\ At(v, "catchup")
         /\ SetProc(v, p) /\ SetStore(v, s)
      \/ /\ At(v, "boot")
         /\ SetProc(v, [p EXCEPT !.start = chain[Latest]])
         /\ SetStore(v, inc_unique_pending_id(s))

\* A root change beyond the head recovery was aiming at: the re-read of the
\* head finds it, or the metadata sync that ends the recovery fails on it.
NoticeNewerHead(v) ==
  \/ SetProc(v, [proc[v] EXCEPT !.baseline = Latest]) /\ UNCHANGED store
  \/ RecoveryFailed(v, proc[v], store[v])

\* commit_state inside a recovery, and the check of the newest root row.
RecoveryCommit(v, s, w) ==
  LET p == Committed(proc[v], w)
      written == MarkerWritten(s, w)
  IN  \/ /\ IF verify_recovered_root(written, chain, w.ck)
            THEN SetProc(v, p) /\ SetStore(v, written)
            ELSE RecoveryFailed(v, p, written)
         /\ UNCHANGED troubles
      \/ CommitCut(v, s, w)

\* restore_checkpoint_transition for root change c. The pending id mapped to
\* the tip is replayed from its gatherer file; else an own file that ends at
\* the tip's root; else the proposal is fetched, again and again.
restore_checkpoint_transition(v, c) ==
  LET p == proc[v]
      reached == persist_checkpoint_metadata_range(store[v], c - 1)
      link == store[v].link
      at_tip == c = p.baseline
      mapped == at_tip /\ link.ck = c
      contradicts == ~ensure_latest_pending_within_target(store[v], p.last_committed)
      own_file == /\ at_tip /\ p.check = "NeedsRecovery"
                  /\ proposals[chain[c]].by = v
      from_file == [ck |-> c, linked |-> mapped, newest |-> FALSE, file |-> chain[c]]
      history == HistoryWrite(v, c)
  IN  \/ /\ IF mapped THEN ~link.file ELSE contradicts
         /\ RecoveryFailed(v, p, reached) /\ UNCHANGED troubles
      \/ /\ IF mapped THEN link.file ELSE ~contradicts /\ own_file
         /\ RecoveryCommit(v, reached, from_file)
      \/ /\ ~mapped /\ ~contradicts /\ ~own_file
         /\ verify_history_transition(v, c)
         /\ RecoveryCommit(v, HistoryStore(reached, history), history)

apply_history_transitions(v) ==
  /\ proc[v].pc \in {"catchup", "boot"}
  /\ \E c \in {first_root_change(chain, proc[v].last_committed)} :
       \/ c = 0 /\ FinishRecovery(v) /\ UNCHANGED troubles
       \/ c > proc[v].baseline /\ NoticeNewerHead(v) /\ UNCHANGED troubles
       \/ c \in 1 .. proc[v].baseline /\ restore_checkpoint_transition(v, c)
  /\ NoMessages
  /\ UNCHANGED <<coordinator, proposals, gave_up>>

(***************************************************************************)
(* The proposer. A synchronized processor rotates the pending ids and      *)
(* seals what the gatherer has; the gatherer refuses when its tree does    *)
(* not start at the gathering baseline or at the root of the checkpoint it *)
(* proves against.                                                         *)
(***************************************************************************)
publish_realm_p2p_proposal(v, s) ==
  LET r == Len(proposals) + 1
      peers == Validators \ {v}
  IN  /\ r <= MaxRoot
      /\ proposals' = Append(proposals, [by |-> v, base |-> s.meta,
                                         old |-> proc[v].tree])
      /\ \/ gossip' = gossip \cup {r} \X peers /\ UNCHANGED troubles
         \/ \* one peer will never receive it
            \E u \in peers : gossip' = gossip \cup {r} \X (peers \ {u}) /\ Trouble
      /\ SetStore(v, save_proposal(s, r))
      /\ SetProc(v, [proc[v] EXCEPT !.pc = "votes", !.last_committed = s.marker,
                                    !.ids = "free", !.start = r, !.tree = r,
                                    !.sealed = r])
      /\ UNCHANGED <<replays, votes>>

process_block(v) ==
  LET p == [proc[v] EXCEPT !.last_committed = Latest, !.ids = "free", !.sealed = 0]
      s == inc_unique_pending_id(sync_to_coordinator_checkpoint_id(store[v], Latest))
      authenticates == /\ p.start = p.tree /\ chain[Latest] = p.tree
                       /\ Loads(s, chain, Latest)
      scheduled == proposer_sub_id(Latest) = v
  IN  /\ At(v, "loop") /\ first_root_change(chain, proc[v].last_committed) = 0
      /\ \/ \* the gatherer is gone, and so is its join handle
            /\ ~p.alive /\ Exit(v, s)
            /\ NoMessages /\ UNCHANGED <<proposals, troubles>>
         \/ /\ p.alive /\ ~authenticates /\ run_init_catchup(v, p, s)
            /\ NoMessages /\ UNCHANGED <<proposals, troubles>>
         \/ \* nothing gathered
            /\ p.alive /\ authenticates /\ TroubleAt(v)
            /\ SetProc(v, p) /\ SetStore(v, s)
            /\ NoMessages /\ UNCHANGED proposals
         \/ \* gathered, and another validator is scheduled: the root is
            \* sealed in the gatherer's tree and given up
            /\ p.alive /\ authenticates /\ ~scheduled /\ TroubleAt(v)
            /\ run_init_catchup(v, p, s)
            /\ NoMessages /\ UNCHANGED proposals
         \/ /\ p.alive /\ authenticates /\ scheduled
            /\ publish_realm_p2p_proposal(v, s)
      /\ UNCHANGED <<coordinator, gave_up>>

(***************************************************************************)
(* submit_guta_internal: the old root is the committed one, no copy from   *)
(* it is in flight, and the gathering generation has no update of this     *)
(* Realm. -1 stands for a generation claimed by an update that is lost.    *)
(***************************************************************************)
StaleOldRoot(r) == OldRoot(r) # chain[Latest]

\* Mutant: no in-flight record is kept.
NoInFlightWindow(r) == FALSE

InFlight(r) ==
  /\ in_flight.old = OldRoot(r)
  /\ Latest < in_flight.at + GUTA_IN_FLIGHT_WINDOW_CHECKPOINTS

Claimed == batch.gathering # 0
Admissible(r) == ~StaleOldRoot(r) /\ ~InFlight(r) /\ ~Claimed

Accept(r, item) ==
  /\ batch' = [batch EXCEPT !.gathering = item]
  /\ in_flight' = [old |-> OldRoot(r), at |-> Latest]
  /\ UNCHANGED chain

\* The proposer has its votes and submits. A retryable rejection returns to
\* the loop, after a metadata sync where the root allows it; any other error
\* is fatal.
submit_guta(v) ==
  LET p == proc[v]
      r == p.sealed
      waits == [p EXCEPT !.pc = "await", !.baseline = Latest]
  IN  /\ p.pc = "votes" /\ votes_meet_wait(r, v)
      /\ \/ /\ StaleOldRoot(r)
            /\ SetProc(v, [p EXCEPT !.pc = "loop"])
            /\ UNCHANGED <<coordinator, store, troubles>>
         \/ /\ ~StaleOldRoot(r) /\ InFlight(r)
            /\ run_init_catchup(v, p, store[v])
            /\ UNCHANGED <<coordinator, troubles>>
         \/ /\ ~StaleOldRoot(r) /\ ~InFlight(r) /\ Claimed
            /\ SetProc(v, [p EXCEPT !.pc = "loop", !.last_committed = Latest])
            /\ SetStore(v, sync_to_coordinator_checkpoint_id(store[v], Latest))
            /\ UNCHANGED <<coordinator, troubles>>
         \/ /\ Admissible(r) /\ Accept(r, r)
            /\ SetProc(v, waits) /\ UNCHANGED <<store, troubles>>
         \/ \* accepted, and lost before the batch
            /\ Admissible(r) /\ Accept(r, -1) /\ Trouble
            /\ SetProc(v, waits) /\ UNCHANGED store
         \/ \* accepted, and the answer is lost
            /\ Admissible(r) /\ Accept(r, r) /\ Trouble
            /\ run_init_catchup(v, p, store[v])
      /\ NoMessages
      /\ UNCHANGED <<proposals, gave_up>>

\* The own root is included at checkpoint c: it becomes the last committed
\* checkpoint in memory, and then commit_state writes it. When the answer of
\* the Coordinator commit_state begins with is missing, the catch-up that
\* follows loads a subtree without it and fails too.
CommitOwn(v, c) ==
  LET p == [proc[v] EXCEPT !.last_committed = c, !.baseline = 0]
      s == persist_checkpoint_metadata_range(store[v], c)
      w == [ck |-> c, linked |-> FALSE, newest |-> FALSE, file |-> p.sealed]
  IN  \/ /\ SetProc(v, [Committed(p, w) EXCEPT !.pc = "loop"])
         /\ SetStore(v, MarkerWritten(s, w))
         /\ UNCHANGED <<troubles, gave_up>>
      \/ CommitCut(v, s, w) /\ UNCHANGED gave_up
      \/ /\ run_init_catchup(v, p, s) /\ Trouble
         /\ gave_up' = gave_up \cup {v}

wait_for_realm_update(v) ==
  LET p == proc[v]
      r == p.sealed
      resend == Latest >= p.baseline + ResendAfter
  IN  /\ p.pc = "await"
      /\ \/ /\ chain[Latest] = r
            /\ (\E c \in Transitions(chain) : c = LastModified(chain) /\ CommitOwn(v, c))
            /\ UNCHANGED coordinator
         \/ /\ chain[Latest] = OldRoot(r)
            /\ SetStore(v, persist_checkpoint_metadata_range(store[v], Latest))
            /\ SetProc(v, [p EXCEPT !.baseline = IF resend THEN Latest ELSE @])
            /\ IF resend /\ Admissible(r) THEN Accept(r, r)
               ELSE UNCHANGED coordinator
            /\ UNCHANGED <<troubles, gave_up>>
         \/ /\ chain[Latest] \notin {r, OldRoot(r)}
            /\ run_init_catchup(v, p, store[v])
            /\ UNCHANGED <<coordinator, troubles, gave_up>>
      /\ NoMessages
      /\ UNCHANGED proposals

(***************************************************************************)
(* The follower's event consumer: a proposal whose base is not stored is   *)
(* refused and not kept; a kept one is handed to the processor for replay  *)
(* once the start is over.                                                 *)
(***************************************************************************)
ProposalReady(r, u) ==
  LET known == Up(u) /\ proposals[r].base <= store[u].meta
  IN  /\ <<r, u>> \in gossip
      /\ gossip' = gossip \ {<<r, u>>}
      /\ IF known THEN SetStore(u, save_proposal(store[u], r)) ELSE UNCHANGED store
      /\ UNCHANGED <<coordinator, proposals, proc, troubles, gave_up>>
      /\ Heard(IF known /\ ~At(u, "boot") THEN replays \cup {<<r, u>>} ELSE replays,
               votes)

\* A crash outside a commit.
Crash(v) ==
  /\ Up(v) /\ TroubleAt(v)
  /\ Exit(v, store[v]) /\ NoMessages
  /\ UNCHANGED <<coordinator, proposals, gave_up>>

(***************************************************************************)
(* The Coordinator: a new generation starts gathering, then the block it   *)
(* replaced is committed. -1: no block is being processed.                 *)
(***************************************************************************)
RotateGeneration ==
  /\ batch.processing = -1
  /\ \A v \in Validators : At(v, "loop") => Latest - store[v].meta <= MaxLag
  /\ batch' = [gathering |-> 0, processing |-> Max({batch.gathering, 0})]
  /\ UNCHANGED <<chain, in_flight, proposals, network, store, proc, troubles, gave_up>>

CommitCheckpoint ==
  /\ batch.processing # -1 /\ Latest < MaxCheckpoint
  /\ chain' = Append(chain, IF batch.processing = 0 THEN chain[Latest]
                            ELSE batch.processing)
  /\ batch' = [batch EXCEPT !.processing = -1]
  /\ UNCHANGED <<in_flight, proposals, network, store, proc, troubles, gave_up>>

\* What a processor does by itself.
ProcessorStep(v) ==
  \/ Boot(v)
  \/ sync_and_verify(v)
  \/ submit_guta(v)
  \/ wait_for_realm_update(v)
  \/ apply_history_transitions(v)

Validator(v) == ProcessorStep(v) \/ process_block(v) \/ Crash(v)

Deliver == \E r \in Proposals, u \in Validators : ProposalReady(r, u)

Next ==
  \/ \E v \in Validators : Validator(v)
  \/ Deliver
  \/ RotateGeneration
  \/ CommitCheckpoint

\* The loop runs again after every error and a process that ended is started
\* again; gossip that is not lost arrives. Nothing is assumed of the
\* Coordinator, of crashes and faults, or of a validator having anything to
\* propose.
Fairness ==
  /\ \A v \in Validators : WF_vars(ProcessorStep(v))
  /\ WF_vars(Deliver)

Spec == Init /\ [][Next]_vars /\ Fairness

-----------------------------------------------------------------------------
\* The variables keep their types; no marker runs ahead of the stored
\* metadata, which is never ahead of the Coordinator, and a pending id is
\* linked only to a checkpoint above the marker.
TypeOK ==
  /\ Len(chain) \in Checkpoints /\ \A c \in 1 .. Len(chain) : chain[c] \in Roots
  /\ batch \in [gathering : Roots \cup {-1}, processing : Roots \cup {-1}]
  /\ in_flight.old \in Roots /\ in_flight.at <= Latest
  /\ \A i \in 1 .. Len(proposals) :
       proposals[i] \in [by : Validators, base : Checkpoints, old : Roots]
  /\ gossip \cup replays \cup votes \subseteq Proposals \X Validators
  /\ \A v \in Validators :
       /\ store[v].marker \in 1 .. store[v].meta /\ store[v].meta <= Latest
       /\ store[v].applied \subseteq Transitions(chain)
       /\ store[v].held \subseteq 1 .. Len(proposals)
       /\ store[v].link.ck \in {0} \cup store[v].marker + 1 .. Latest
       /\ proc[v].last_committed <= Latest

\* What a validator's marker covers is in its store: every root change up to
\* latest_checkpoint_id has its state updates written. (commit.rs writes the
\* marker last; a metadata sync moves it only over unchanged roots.)
CommittedStateIsApplied ==
  \A v \in Validators \ gave_up :
    \A c \in Transitions(chain) : c <= store[v].marker => c \in store[v].applied

\* A validator without an included proposal's body finds it at the one peer
\* it asks first: the vote threshold leaves at most one validator of three
\* without it.
IncludedBodyIsReachable ==
  \A v \in Validators : \A c \in Transitions(chain) :
    chain[c] \in store[v].held \cup store[Min(Validators \ {v})].held

\* The block being processed never holds an update from a root that is no
\* longer the Realm's: the planner's leaf check would park the Coordinator.
PlannerNeverStale ==
  batch.processing > 0 => OldRoot(batch.processing) = chain[Latest]

\* State updates are applied in the order of their inclusion, from a live
\* run, from a kept proposal or from a gatherer file after a crash.
AppliedInOrder ==
  [][\A v \in Validators : \A c \in store'[v].applied \ store[v].applied :
       \A t \in Transitions(chain) : t < c => t \in store[v].applied]_vars

CaughtUp(v) == Transitions(chain) \subseteq store[v].applied
               /\ LastModified(chain) <= store[v].marker

\* A start is refused: an interrupted commit mapped the newest pending id.
Refused(v) == At(v, "down") /\ ~StartAccepted(store[v], chain)

\* An interrupted commit mapped a pending id whose gatherer file does not
\* replay, to a checkpoint that is still the Coordinator's tip.
StuckOnMapping(v) ==
  LET link == store[v].link IN link.ck = Latest /\ ~link.file

\* The vote wait has no timeout, and gossip is not repeated: nobody that
\* could still vote has the proposal's replay request.
WaitsForVotes(v) ==
  LET r == proc[v].sealed
  IN  /\ At(v, "votes") /\ ~votes_meet_wait(r, v)
      /\ \A u \in Validators : /\ <<r, u>> \notin gossip
                               /\ <<r, u>> \in replays => At(u, "votes")

\* Nobody is left to ask for a body that is not kept.
NobodyToAsk(v) == \A u \in Validators \ {v} : Refused(u)

Blocked(v) == v \in gave_up \/ Refused(v) \/ StuckOnMapping(v)
              \/ WaitsForVotes(v) \/ NobodyToAsk(v)

\* Every included root is eventually applied by every validator, whatever
\* crashed or was lost, except in the cases `Blocked' names.
InclusionsAreApplied ==
  []<>(\A v \in Validators : CaughtUp(v) \/ Blocked(v))
=============================================================================
