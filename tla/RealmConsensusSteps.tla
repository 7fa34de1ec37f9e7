------------------------- MODULE RealmConsensusSteps -------------------------
(* What one validator's step does to its own store and memory. Every       *)
(* operation of RealmConsensus is shown to make a LocalMove: the new store *)
(* and memory satisfy the validator's part of the invariant, the kept      *)
(* proposals only grow and state updates are applied in order.             *)
EXTENDS RealmConsensusInvariant

-----------------------------------------------------------------------------
(* The loop and the recovery.                                              *)

\* The root change a running validator has seen included is committed from
\* the kept proposal or from a peer's.
LEMMA FollowMove ==
  ASSUME HistoryInv, LocalInv, NEW v \in Validators, At(v, "loop"),
         NEW c \in Transitions(chain), FollowInclusion(v, c), gave_up' = gave_up
  PROVE  LocalMove(v)
<1> DEFINE synced == persist_checkpoint_metadata_range(store[v], Latest)
           w == HistoryWrite(v, c)
           s == HistoryStore(synced, w)
           p == Committed(proc[v], w)
<1>1. /\ chain \in Seq(Nat) /\ proc[v] \in ProcType /\ Latest \in Nat /\ Latest = Len(chain)
      /\ ProposalsOK(proposals) /\ Len(proposals) \in Nat
      /\ Fits(proc[v], store[v], chain, proposals)
      /\ v \notin gave_up => Covered(proc[v], store[v], chain)
  BY Here
<1>2. /\ c \in 2 .. Len(chain) /\ proc[v].last_committed < c /\ store[v].marker < c
  <2>1. c # 0 /\ Up(v)
    BY <1>1 DEF Transitions, At, Up
  <2>2. c = first_root_change(chain, proc[v].last_committed)
    BY Zenon DEF FollowInclusion
  <2> QED BY <2>1, <2>2, OldestMissing
<1>3. Latest \in 0 .. Len(chain)
  BY <1>1
<1>4. /\ StoreArrives(v, synced) /\ synced.marker = store[v].marker
      /\ synced.link = store[v].link /\ synced.applied = store[v].applied
      /\ synced.held = store[v].held
  BY <1>3, MetadataArrives, Zenon
<1>5. CASE verify_history_transition(v, c)
  <2>1. Prepared(v, s, w) /\ w.ck = c
    <3> HIDE DEF synced
    <3> QED BY <1>2, <1>5, <1>4, HistoryPrepared
  <2>2. \/ SetStore(v, MarkerWritten(s, w)) /\ SetProc(v, FollowTree(v, p, c))
        \/ CommitCut(v, s, w)
    BY <1>5, Zenon DEF FollowInclusion
  <2> HIDE DEF s, w
  <2>3. CASE CommitCut(v, s, w)
    BY <1>1, <2>1, <2>3, CutMove
  <2>4. CASE SetStore(v, MarkerWritten(s, w)) /\ SetProc(v, FollowTree(v, p, c))
    <3> DEFINE k == MarkerWritten(s, w)
               q == FollowTree(v, p, c)
    <3>1. StoreArrives(v, k) /\ k.marker = c /\ k.link.ck = 0 /\ Loads(k, chain, c)
      BY <2>1, DoneStore
    <3>2. /\ p \in ProcType /\ p.pc = "loop" /\ p.last_committed = c
          /\ p.tree = proc[v].tree
      <4>1. w.ck \in Nat /\ proc[v].pc = "loop"
        BY <1>1, <1>2, <2>1 DEF At
      <4> QED BY <1>1, <2>1, <4>1, Zenon DEF Committed, ProcType
    <3>3. chain[c] \in Nat /\ chain[c] <= Len(proposals)
      <4>1. chain[c] \in Nat
        BY <1>1, <1>2
      <4> QED BY <1>2, <4>1 DEF HistoryInv, ChainOK
    <3> HIDE DEF k, p
    <3>4. \/ q = Stopped
          \/ /\ q \in ProcType /\ q.pc = "loop" /\ q.last_committed = c
             /\ q.tree \in {proc[v].tree, chain[c]}
      BY <3>2, <3>3, Zenon DEF FollowTree, ProcType
    <3> HIDE DEF q
    <3>5. CASE q = Stopped
      <4>1. Exit(v, k)
        BY <2>4, <3>5 DEF Exit, k, q
      <4> QED BY <1>1, <3>1, <4>1, ExitMove
    <3>6. CASE q # Stopped
      <4>1. proc[v].tree <= Len(proposals) /\ c <= Len(chain)
        BY <1>1, <1>2 DEF Fits
      <4>2. /\ q \in ProcType /\ q.pc = "loop" /\ q.last_committed = c
            /\ q.tree <= Len(proposals)
        BY <3>3, <3>4, <3>6, <4>1
      <4>3. SetStore(v, k) /\ SetProc(v, q)
        BY <2>4, Zenon DEF k, q
      <4> QED BY <3>1, <4>1, <4>2, <4>3, MarkerMove, Zenon
    <3> QED BY <3>5, <3>6
  <2> QED BY <2>2, <2>3, <2>4
<1>6. CASE ~verify_history_transition(v, c)
  <2>1. SetStore(v, synced) /\ SetProc(v, proc[v])
    BY <1>6, SameProc, Zenon DEF FollowInclusion
  <2> HIDE DEF synced
  <2>3. Arrives(v, synced, proc[v], proposals)
    BY <1>1, <1>4 DEF Arrives, Fits, Covered, Loads, At
  <2> QED BY <1>4, <2>1, <2>3 DEF LocalMove, At
<1> QED BY <1>5, <1>6

\* The end of a recovery: no root change is left.
LEMMA FinishMove ==
  ASSUME HistoryInv, LocalInv, NEW v \in Validators, proc[v].pc \in {"catchup", "boot"},
         first_root_change(chain, proc[v].last_committed) = 0, FinishRecovery(v),
         gave_up' = gave_up
  PROVE  LocalMove(v)
<1> DEFINE p == [proc[v] EXCEPT !.pc = "loop", !.last_committed = Latest,
                                !.tree = chain[Latest], !.alive = TRUE,
                                !.check = "Ready", !.baseline = 0]
           s == sync_to_coordinator_checkpoint_id(store[v], Latest)
<1>1. /\ chain \in Seq(Nat) /\ proc[v] \in ProcType /\ Latest \in Nat /\ Latest = Len(chain)
      /\ 1 <= Latest /\ Len(proposals) \in Nat
      /\ Fits(proc[v], store[v], chain, proposals)
  BY Here, Zenon
<1>2. proc[v].last_committed \in Nat
  BY <1>1 DEF ProcType
<1>3. \A t \in Transitions(chain) : t <= proc[v].last_committed
  BY <1>2, FirstChange
<1>4. Loads(store[v], chain, proc[v].last_committed)
  BY <1>1, Zenon DEF Fits
<1>5. /\ StoreArrives(v, s) /\ s.marker = Latest /\ s.link.ck = 0 /\ Loads(s, chain, Latest)
  BY <1>3, <1>4, SyncArrives DEF Up, At
<1>6. chain[Latest] \in Nat /\ chain[Latest] <= Len(proposals)
  <2>1. Latest \in 1 .. Len(chain)
    BY <1>1
  <2>2. chain[Latest] \in Nat
    BY <1>1, <2>1
  <2> QED BY <2>1, <2>2 DEF HistoryInv, ChainOK
<1>7. PICK q, s2 :
         /\ SetProc(v, q) /\ SetStore(v, s2)
         /\ q \in {p, [p EXCEPT !.start = chain[Latest]]}
         /\ s2 \in {s, inc_unique_pending_id(s)}
  BY Zenon DEF FinishRecovery
<1>8. /\ q \in ProcType /\ q.pc = "loop" /\ q.last_committed = Latest
      /\ q.tree = chain[Latest]
  <2>1. /\ p \in ProcType /\ p.pc = "loop" /\ p.last_committed = Latest
        /\ p.tree = chain[Latest]
    BY <1>1, <1>6, Zenon DEF ProcType
  <2> HIDE DEF p
  <2> DEFINE restarted == [p EXCEPT !.start = chain[Latest]]
  <2>2. /\ restarted \in ProcType /\ restarted.pc = "loop"
        /\ restarted.last_committed = Latest /\ restarted.tree = chain[Latest]
    BY <1>6, <2>1 DEF ProcType
  <2> HIDE DEF restarted
  <2>3. q = p \/ q = restarted
    BY <1>7, Zenon DEF restarted
  <2> QED BY <2>1, <2>2, <2>3
<1> HIDE DEF s, p
<1>9. s \in StoreType
  BY <1>5 DEF StoreArrives, Sound
<1>10. /\ s2 \in StoreType /\ s2.meta = s.meta /\ s2.marker = s.marker
       /\ s2.applied = s.applied /\ s2.link = s.link /\ s2.held = s.held
  <2> DEFINE a == inc_unique_pending_id(s)
  <2>1. /\ a \in StoreType /\ a.meta = s.meta /\ a.marker = s.marker
        /\ a.applied = s.applied /\ a.link = s.link /\ a.held = s.held
    BY <1>9, AllocationFields
  <2> HIDE DEF a
  <2>2. s2 = s \/ s2 = a
    BY <1>7 DEF a
  <2> QED BY <1>9, <2>1, <2>2
<1>11. StoreArrives(v, s2)
  BY <1>5, <1>10 DEF StoreArrives, Sound
<1>12. Loads(s2, chain, Latest)
  BY <1>5, <1>10, Zenon DEF Loads
<1>13. q.tree <= Len(proposals) /\ q.last_committed <= Len(chain)
       /\ s2.marker = q.last_committed /\ s2.link.ck = 0
  BY <1>1, <1>5, <1>6, <1>8, <1>10
<1> QED BY <1>7, <1>8, <1>11, <1>12, <1>13, MarkerMove

\* A recovery that finds a newer head takes it for its baseline, or fails.
LEMMA NoticeMove ==
  ASSUME HistoryInv, LocalInv, NEW v \in Validators, proc[v].pc \in {"catchup", "boot"},
         NoticeNewerHead(v), gave_up' = gave_up
  PROVE  LocalMove(v)
<1> DEFINE p == [proc[v] EXCEPT !.baseline = Latest]
<1>1. /\ proc[v] \in ProcType /\ Latest \in Nat /\ StoreArrives(v, store[v])
      /\ ProposalsOK(proposals)
      /\ Fits(proc[v], store[v], chain, proposals)
      /\ v \notin gave_up => Covered(proc[v], store[v], chain)
  BY Here, Zenon
<1>2. CASE SetProc(v, p) /\ UNCHANGED store
  <2>1. SetStore(v, store[v])
    BY <1>2, SameStore, Zenon
  <2> QED BY <1>1, <1>2, <2>1, BaselineMove
<1>3. CASE RecoveryFailed(v, proc[v], store[v])
  <2>1. Recoverable(v, store[v], proc[v])
    BY <1>1, StillRecoverable DEF Up, At
  <2> QED BY <1>1, <1>3, <2>1, FailedMove
<1> QED BY <1>2, <1>3 DEF NoticeNewerHead

\* A commit inside a recovery.
LEMMA RecoveryCommitMove ==
  ASSUME HistoryInv, LocalInv, NEW v \in Validators, proc[v].pc \in {"catchup", "boot"},
         NEW s, NEW w, Prepared(v, s, w), RecoveryCommit(v, s, w), gave_up' = gave_up
  PROVE  LocalMove(v)
<1> DEFINE p == Committed(proc[v], w)
           k == MarkerWritten(s, w)
<1>1. /\ chain \in Seq(Nat) /\ proc[v] \in ProcType /\ ProposalsOK(proposals)
      /\ Len(proposals) \in Nat /\ Fits(proc[v], store[v], chain, proposals)
  BY Here
<1>2. w.ck \in Nat /\ w.ck \in 2 .. Len(chain)
  BY DEF Prepared, WriteType, Transitions
<1>3. StoreArrives(v, k) /\ k.marker = w.ck /\ k.link.ck = 0 /\ Loads(k, chain, w.ck)
  BY DoneStore, Zenon
<1>4. /\ p \in ProcType /\ p.pc = proc[v].pc /\ p.last_committed = w.ck
      /\ p.tree = proc[v].tree
  BY <1>1, <1>2, Zenon DEF Committed, ProcType
<1>5. \/ SetProc(v, p) /\ SetStore(v, k)
      \/ RecoveryFailed(v, p, k)
      \/ CommitCut(v, s, w)
  BY DEF RecoveryCommit
<1>9. p.tree <= Len(proposals) /\ w.ck <= Len(chain)
  BY <1>1, <1>2, <1>4 DEF Fits
<1> HIDE DEF p, k
<1>6. CASE SetProc(v, p) /\ SetStore(v, k)
  BY <1>3, <1>4, <1>6, <1>9, MarkerMove
<1>7. CASE RecoveryFailed(v, p, k)
  <2>1. Recoverable(v, k, p)
    BY <1>2, <1>3, <1>4, <1>9 DEF Recoverable
  <2> QED BY <1>1, <1>7, <2>1, FailedMove
<1>8. CASE CommitCut(v, s, w)
  BY <1>1, <1>8, CutMove
<1> QED BY <1>5, <1>6, <1>7, <1>8

\* A recovery commits the oldest missing root change, from the gatherer file
\* or from the history, or fails with the metadata before it stored.
LEMMA RestoreMove ==
  ASSUME HistoryInv, LocalInv, NEW v \in Validators, proc[v].pc \in {"catchup", "boot"},
         NEW c, c = first_root_change(chain, proc[v].last_committed), c # 0,
         restore_checkpoint_transition(v, c), gave_up' = gave_up
  PROVE  LocalMove(v)
<1> DEFINE reached == persist_checkpoint_metadata_range(store[v], c - 1)
           mapped == c = proc[v].baseline /\ store[v].link.ck = c
           from_file == [ck |-> c, linked |-> mapped, newest |-> FALSE, file |-> chain[c]]
           history == HistoryWrite(v, c)
<1>1. /\ c \in Transitions(chain) /\ c \in 2 .. Len(chain)
      /\ proc[v].last_committed < c /\ store[v].marker < c
      /\ \A t \in Transitions(chain) : t < c => t <= proc[v].last_committed
  BY OldestMissing DEF Up, At
<1>2. /\ chain \in Seq(Nat) /\ ProposalsOK(proposals)
      /\ Fits(proc[v], store[v], chain, proposals)
  BY Here, Zenon
<1>3. c - 1 \in 0 .. Len(chain) /\ c \in Nat /\ chain[c] \in Nat
  <2>1. c \in 1 .. Len(chain) /\ c - 1 \in 0 .. Len(chain) /\ c \in Nat
    BY <1>1
  <2> QED BY <1>2, <2>1
<1>4. /\ StoreArrives(v, reached) /\ reached.marker = store[v].marker
      /\ reached.link = store[v].link /\ reached.applied = store[v].applied
  BY <1>3, MetadataArrives, Zenon
<1>5. \/ RecoveryFailed(v, proc[v], reached)
      \/ RecoveryCommit(v, reached, from_file)
      \/ /\ verify_history_transition(v, c)
         /\ RecoveryCommit(v, HistoryStore(reached, history), history)
  BY Zenon DEF restore_checkpoint_transition
<1>6. from_file \in WriteType /\ from_file.ck = c
  <2>1. mapped \in BOOLEAN
    BY Zenon
  <2> HIDE DEF mapped
  <2> QED BY <1>3, <2>1 DEF WriteType
<1> HIDE DEF reached, from_file, mapped
<1>7. CASE RecoveryFailed(v, proc[v], reached)
  <2>1. Recoverable(v, reached, proc[v])
    BY <1>4, StillRecoverable DEF Up, At
  <2> QED BY <1>2, <1>7, <2>1, FailedMove
<1>8. CASE RecoveryCommit(v, reached, from_file)
  <2>1. Loads(store[v], chain, proc[v].last_committed)
    BY <1>2, Zenon DEF Fits
  <2>2. \A t \in Transitions(chain) : t < c => t \in reached.applied
    BY <1>1, <1>4, <2>1 DEF Loads
  <2>3. Prepared(v, reached, from_file)
    BY <1>1, <1>4, <1>6, <2>2 DEF Prepared
  <2> QED BY <1>8, <2>3, RecoveryCommitMove
<1>9. CASE /\ verify_history_transition(v, c)
           /\ RecoveryCommit(v, HistoryStore(reached, history), history)
  <2>1. Prepared(v, HistoryStore(reached, history), history)
    BY <1>1, <1>4, <1>9, HistoryPrepared
  <2> HIDE DEF history
  <2> QED BY <1>9, <2>1, RecoveryCommitMove
<1> QED BY <1>5, <1>7, <1>8, <1>9

\* Every step of a recovery.
LEMMA ApplyMove ==
  ASSUME HistoryInv, LocalInv, NEW v \in Validators, apply_history_transitions(v)
  PROVE  LocalMove(v)
<1> DEFINE c == first_root_change(chain, proc[v].last_committed)
<1>1. proc[v].pc \in {"catchup", "boot"} /\ gave_up' = gave_up
  BY Zenon DEF apply_history_transitions
<1>2. \/ c = 0 /\ FinishRecovery(v)
      \/ NoticeNewerHead(v)
      \/ c # 0 /\ restore_checkpoint_transition(v, c)
  <2>1. PICK d \in {c} :
          \/ d = 0 /\ FinishRecovery(v) /\ UNCHANGED troubles
          \/ d > proc[v].baseline /\ NoticeNewerHead(v) /\ UNCHANGED troubles
          \/ d \in 1 .. proc[v].baseline /\ restore_checkpoint_transition(v, d)
    BY DEF apply_history_transitions
  <2>2. proc[v].baseline \in Nat
    BY Here, Zenon DEF ProcType
  <2> HIDE DEF c
  <2>3. d = c
    OBVIOUS
  <2>4. d \in 1 .. proc[v].baseline => d # 0
    BY <2>2
  <2> QED BY <2>1, <2>3, <2>4
<1> QED BY <1>1, <1>2, FinishMove, NoticeMove, RestoreMove

-----------------------------------------------------------------------------
(* The proposer.                                                           *)

\* The store and the memory a block starts with.
LEMMA BlockStart ==
  ASSUME HistoryInv, LocalInv, NEW v \in Validators, At(v, "loop"),
         first_root_change(chain, proc[v].last_committed) = 0, gave_up' = gave_up
  PROVE  LET p == [proc[v] EXCEPT !.last_committed = Latest, !.ids = "free", !.sealed = 0]
             s == inc_unique_pending_id(sync_to_coordinator_checkpoint_id(store[v], Latest))
         IN  /\ Recoverable(v, s, p) /\ p.last_committed = Latest /\ p.pc = "loop"
             /\ p.tree = proc[v].tree /\ p.alive = proc[v].alive /\ p.start = proc[v].start
             /\ s.marker = Latest /\ s.meta = Latest /\ s.link.ck = 0
<1> DEFINE synced == sync_to_coordinator_checkpoint_id(store[v], Latest)
           p == [proc[v] EXCEPT !.last_committed = Latest, !.ids = "free", !.sealed = 0]
           s == inc_unique_pending_id(synced)
<1>1. /\ chain \in Seq(Nat) /\ proc[v] \in ProcType /\ Latest \in Nat /\ Latest = Len(chain)
      /\ Fits(proc[v], store[v], chain, proposals)
      /\ v \notin gave_up => Covered(proc[v], store[v], chain)
  BY Here
<1>2. /\ p \in ProcType /\ p.last_committed = Latest /\ p.pc = proc[v].pc
      /\ p.tree = proc[v].tree /\ p.alive = proc[v].alive /\ p.start = proc[v].start
  BY <1>1, BlockFields, Zenon
<1> HIDE DEF p
<1>3. \A t \in Transitions(chain) : t <= proc[v].last_committed
  <2>1. proc[v].last_committed \in Nat
    BY <1>1, Zenon DEF ProcType
  <2> QED BY <2>1, FirstChange
<1>4. /\ StoreArrives(v, synced) /\ synced.marker = Latest /\ synced.meta = Latest
      /\ synced.link.ck = 0
      /\ Loads(store[v], chain, proc[v].last_committed) => Loads(synced, chain, Latest)
  BY <1>3, SyncArrives DEF Up, At
<1> HIDE DEF synced
<1>5. synced \in StoreType
  BY <1>4, Zenon DEF StoreArrives, Sound
<1>6. /\ s \in StoreType /\ s.meta = synced.meta /\ s.marker = synced.marker
      /\ s.applied = synced.applied /\ s.link = synced.link /\ s.held = synced.held
  BY <1>5 DEF inc_unique_pending_id, StoreType
<1> HIDE DEF s
<1>7. StoreArrives(v, s)
  BY <1>4, <1>6 DEF StoreArrives, Sound
<1>8. v \notin gave_up' => Loads(s, chain, Latest)
  BY <1>1, <1>4, <1>6 DEF Covered, Loads, At
<1>9. p.tree <= Len(proposals)
  BY <1>1, <1>2 DEF Fits
<1>10. Recoverable(v, s, p)
  BY <1>1, <1>2, <1>4, <1>6, <1>7, <1>8, <1>9 DEF Recoverable
<1> QED BY <1>2, <1>4, <1>6, <1>10 DEF At, s, p, synced

\* A block that publishes nothing.
LEMMA BlockMove ==
  ASSUME HistoryInv, LocalInv, NEW v \in Validators, process_block(v)
  PROVE  \/ LocalMove(v) /\ UNCHANGED proposals /\ NoMessages
         \/ \E s : /\ publish_realm_p2p_proposal(v, s)
                   /\ StoreArrives(v, s) /\ s.marker = Latest /\ s.meta = Latest
                   /\ s.link.ck = 0 /\ Loads(s, chain, Latest)
                   /\ chain[Latest] = proc[v].tree
<1> DEFINE p == [proc[v] EXCEPT !.last_committed = Latest, !.ids = "free", !.sealed = 0]
           s == inc_unique_pending_id(sync_to_coordinator_checkpoint_id(store[v], Latest))
           authenticates == /\ p.start = p.tree /\ chain[Latest] = p.tree
                            /\ Loads(s, chain, Latest)
<1>0. /\ At(v, "loop") /\ first_root_change(chain, proc[v].last_committed) = 0
      /\ gave_up' = gave_up
  BY Zenon DEF process_block
<1>1. /\ Recoverable(v, s, p) /\ p.last_committed = Latest /\ p.pc = "loop"
      /\ p.tree = proc[v].tree /\ p.alive = proc[v].alive /\ p.start = proc[v].start
      /\ s.marker = Latest /\ s.meta = Latest /\ s.link.ck = 0
  BY <1>0, BlockStart, Zenon
<1>2. ProposalsOK(proposals)
  BY Here
<1>3. \/ Exit(v, s) /\ NoMessages /\ UNCHANGED proposals
      \/ run_init_catchup(v, p, s) /\ NoMessages /\ UNCHANGED proposals
      \/ authenticates /\ SetProc(v, p) /\ SetStore(v, s) /\ NoMessages /\ UNCHANGED proposals
      \/ authenticates /\ publish_realm_p2p_proposal(v, s)
  BY DEF process_block
<1> HIDE DEF p, s
<1>4. StoreArrives(v, s) /\ (v \notin gave_up' => Loads(s, chain, s.marker))
  BY <1>1, Zenon DEF Recoverable
<1>5. CASE Exit(v, s) /\ NoMessages /\ UNCHANGED proposals
  BY <1>2, <1>4, <1>5, ExitMove
<1>6. CASE run_init_catchup(v, p, s) /\ NoMessages /\ UNCHANGED proposals
  BY <1>1, <1>6, CatchupMove
<1>7. CASE authenticates /\ SetProc(v, p) /\ SetStore(v, s) /\ NoMessages
           /\ UNCHANGED proposals
  <2>1. p \in ProcType /\ p.tree <= Len(proposals) /\ p.last_committed <= Len(chain)
    BY <1>1 DEF Recoverable
  <2> QED BY <1>1, <1>4, <1>7, <2>1, MarkerMove
<1>8. CASE authenticates /\ publish_realm_p2p_proposal(v, s)
  <2>1. Loads(s, chain, Latest) /\ chain[Latest] = proc[v].tree
    BY <1>1, <1>8
  <2> QED BY <1>1, <1>4, <1>8, <2>1
<1> QED BY <1>3, <1>5, <1>6, <1>7, <1>8

\* A proposer with its votes waits for the inclusion, retries, resumes at a
\* head with the same root, or catches up.
LEMMA SubmitMove ==
  ASSUME HistoryInv, LocalInv, NEW v \in Validators, submit_guta(v)
  PROVE  LocalMove(v)
<1> DEFINE p == proc[v]
           r == p.sealed
           waits == [p EXCEPT !.pc = "await", !.baseline = Latest]
           retries == [p EXCEPT !.pc = "loop"]
           resumes == [p EXCEPT !.pc = "loop", !.last_committed = Latest]
           s == sync_to_coordinator_checkpoint_id(store[v], Latest)
<1>1. p.pc = "votes" /\ votes_meet_wait(r, v) /\ gave_up' = gave_up
  BY DEF submit_guta
<1>2. /\ chain \in Seq(Nat) /\ p \in ProcType /\ Latest \in Nat /\ Latest = Len(chain)
      /\ 1 <= Latest /\ ProposalsOK(proposals) /\ StoreArrives(v, store[v])
      /\ Fits(p, store[v], chain, proposals)
      /\ v \notin gave_up => Covered(p, store[v], chain)
  BY Here, Zenon
<1>3. Recoverable(v, store[v], p)
  BY <1>1, <1>2, StillRecoverable DEF Up, At
<1>4. \/ SetProc(v, retries) /\ UNCHANGED store
      \/ run_init_catchup(v, p, store[v])
      \/ ~StaleOldRoot(r) /\ SetProc(v, resumes) /\ SetStore(v, s)
      \/ SetProc(v, waits) /\ UNCHANGED store
  BY DEF submit_guta
<1>5. /\ retries \in ProcType /\ retries.pc = "loop" /\ retries.tree = p.tree
      /\ retries.last_committed = p.last_committed
  BY <1>2, RetryFields, Zenon
<1>6. /\ resumes \in ProcType /\ resumes.pc = "loop" /\ resumes.tree = p.tree
       /\ resumes.last_committed = Latest
  BY <1>2, ResumeFields, Zenon
<1>7. /\ waits \in ProcType /\ waits.pc = "await" /\ waits.tree = p.tree
       /\ waits.last_committed = p.last_committed /\ waits.sealed = p.sealed
  BY <1>2, WaitFields, Zenon
<1> HIDE DEF retries, resumes, waits
<1>8. CASE SetProc(v, retries) /\ UNCHANGED store
  <2>1. SetStore(v, store[v])
    BY <1>8, SameStore
  <2>2. Arrives(v, store[v], retries, proposals)
    BY <1>1, <1>2, <1>5 DEF Arrives, Fits, Covered
  <2> QED BY <1>2, <1>8, <1>5, <2>1, <2>2 DEF LocalMove
<1>9. CASE run_init_catchup(v, p, store[v])
  BY <1>3, <1>9, CatchupMove
<1>10. CASE ~StaleOldRoot(r) /\ SetProc(v, resumes) /\ SetStore(v, s)
  <2>1. p.last_committed \in 1 .. Len(chain)
    BY <1>1, Bounds DEF Up, At
  <2>2. chain[p.last_committed] = chain[Latest] /\ Latest \in 1 .. Len(chain)
    BY <1>1, <1>2, <1>10 DEF StaleOldRoot, OldRoot, Fits
  <2>3. ChainOK(chain, proposals)
    BY DEF HistoryInv
  <2>4. \A t \in Transitions(chain) : t <= Latest => t <= p.last_committed
    BY <2>1, <2>2, <2>3, SinceBase
  <2>5. \A t \in Transitions(chain) : t <= p.last_committed
    BY <1>2, <2>4 DEF Transitions
  <2>6. Loads(store[v], chain, p.last_committed)
    BY <1>1, <1>2 DEF Fits
  <2>7. /\ StoreArrives(v, s) /\ s.marker = Latest /\ s.link.ck = 0
        /\ Loads(s, chain, Latest)
    BY <1>1, <2>5, <2>6, SyncArrives DEF Up, At
  <2> HIDE DEF s
  <2>8. resumes.tree <= Len(proposals) /\ resumes.last_committed <= Len(chain)
    <3>1. p.tree <= Len(proposals)
      BY <1>2, Zenon DEF Fits
    <3> QED BY <1>2, <1>6, <3>1
  <2> QED BY <1>10, <1>6, <2>7, <2>8, MarkerMove
<1>11. CASE SetProc(v, waits) /\ UNCHANGED store
  <2>1. SetStore(v, store[v])
    BY <1>11, SameStore
  <2>2. Fits(waits, store[v], chain, proposals)
    BY <1>1, <1>2, <1>7 DEF Fits
  <2>3. Arrives(v, store[v], waits, proposals)
    BY <1>1, <1>2, <1>7, <2>2 DEF Arrives, Covered
  <2>4. StoreArrives(v, store[v]) /\ SetProc(v, waits)
    BY <1>2, <1>11
  <2>5. waits.sealed = p.sealed /\ p.pc = "votes" /\ votes_meet_wait(waits.sealed, v)
    BY <1>1, <1>7
  <2> QED BY <2>1, <2>3, <2>4, <2>5 DEF LocalMove
<1> QED BY <1>4, <1>8, <1>9, <1>10, <1>11

\* The own root is included at c, and the proposal was made from the root of
\* the last committed checkpoint: in between nothing has changed.
LEMMA OwnInclusion ==
  ASSUME HistoryInv, LocalInv, NEW v \in Validators, proc[v].pc = "await",
         chain[Latest] = proc[v].sealed, NEW c \in Transitions(chain),
         c = LastModified(chain)
  PROVE  /\ proc[v].last_committed < c
         /\ \A t \in Transitions(chain) : t < c => t \in store[v].applied
<1> DEFINE l == proc[v].last_committed
           r == proc[v].sealed
<1>1. /\ chain \in Seq(Nat) /\ Latest = Len(chain) /\ proc[v] \in ProcType
      /\ Sound(store[v], chain, Len(proposals))
      /\ Fits(proc[v], store[v], chain, proposals) /\ ProposalsOK(proposals)
      /\ ChainOK(chain, proposals) /\ store[v] \in StoreType
  BY Here, Zenon DEF HistoryInv
<1>2. c \in 2 .. Len(chain) /\ c - 1 \in 1 .. Len(chain) /\ Len(chain) \in Nat
  BY <1>1 DEF Transitions
<1>3. l \in 1 .. Len(chain)
  BY Bounds DEF Up, At
<1>4. chain[c] = r
  BY <1>1, LastChange
<1>5. /\ r \in 1 .. Len(proposals) /\ chain[l] = proposals[r].old
      /\ Loads(store[v], chain, l)
  BY <1>1 DEF Fits
<1>6. proposals[r].old = chain[c - 1]
  BY <1>1, <1>4 DEF ChainOK
<1>7. \A t \in Transitions(chain) : t <= c - 1 => t <= l
  <2>1. chain[l] = chain[c - 1]
    BY <1>5, <1>6
  <2> QED BY <1>1, <1>2, <1>3, <2>1, SinceBase, Zenon
<1>8. l < c
  <2>1. proposals[r].old < r
    BY <1>1, <1>5 DEF ProposalsOK
  <2>2. chain[l] \in Nat /\ r \in Nat /\ l \in Nat /\ c \in Nat
    <3>1. chain[l] \in Nat
      BY <1>1, <1>3
    <3> QED BY <1>2, <1>3, <1>5, <3>1
  <2>3. c <= l => chain[c] <= chain[l]
    <3>1. c \in 1 .. Len(chain)
      BY <1>2
    <3> QED BY <1>1, <1>3, <3>1 DEF ChainOK
  <2> HIDE DEF l, r
  <2> QED BY <1>4, <1>5, <2>1, <2>2, <2>3
<1>9. \A t \in Transitions(chain) : t < c => t <= c - 1
  BY <1>2 DEF Transitions
<1> QED BY <1>5, <1>7, <1>8, <1>9 DEF Loads

\* The commit of the own inclusion. Only where it fails after the memory has
\* moved on may the store fall behind the memory: that is giving up.
LEMMA CommitOwnMove ==
  ASSUME HistoryInv, LocalInv, NEW v \in Validators, proc[v].pc = "await",
         chain[Latest] = proc[v].sealed, NEW c \in Transitions(chain),
         c = LastModified(chain), CommitOwn(v, c)
  PROVE  LocalMove(v)
<1> DEFINE p == [proc[v] EXCEPT !.last_committed = c, !.baseline = 0]
           s == persist_checkpoint_metadata_range(store[v], c)
           w == [ck |-> c, linked |-> FALSE, newest |-> FALSE, file |-> p.sealed]
           q == [Committed(p, w) EXCEPT !.pc = "loop"]
           k == MarkerWritten(s, w)
<1>1. /\ chain \in Seq(Nat) /\ proc[v] \in ProcType /\ ProposalsOK(proposals)
      /\ Len(proposals) \in Nat /\ store[v] \in StoreType
      /\ Fits(proc[v], store[v], chain, proposals)
  BY Here
<1>2. /\ proc[v].last_committed < c
      /\ \A t \in Transitions(chain) : t < c => t \in store[v].applied
  BY OwnInclusion
<1>3. c \in 2 .. Len(chain) /\ c \in 0 .. Len(chain) /\ c \in Nat /\ Len(chain) \in Nat
  BY <1>1 DEF Transitions
<1>4. /\ StoreArrives(v, s) /\ s.marker = store[v].marker /\ s.link = store[v].link
      /\ s.applied = store[v].applied
  BY <1>3, MetadataArrives
<1>5. store[v].marker < c /\ store[v].link.ck = 0
  <2>1. /\ store[v].marker \in Nat /\ proc[v].last_committed \in 1 .. Len(chain)
        /\ store[v].marker <= proc[v].last_committed
    BY Bounds DEF Up, At
  <2>2. store[v].link.ck = 0
    BY <1>1, Zenon DEF Fits
  <2> QED BY <1>2, <1>3, <2>1, <2>2
<1>6. /\ p \in ProcType /\ p.last_committed = c /\ p.tree = proc[v].tree
      /\ p.pc = "await" /\ p.sealed \in Nat
  BY <1>1, <1>3, Zenon DEF ProcType
<1>7. w \in WriteType /\ w.ck = c
  BY <1>3, <1>6 DEF WriteType
<1>8. \/ SetProc(v, q) /\ SetStore(v, k)
      \/ CommitCut(v, s, w) /\ gave_up' = gave_up
      \/ run_init_catchup(v, p, s) /\ gave_up' = gave_up \cup {v}
  BY Zenon DEF CommitOwn
<1>9. /\ q \in ProcType /\ q.pc = "loop" /\ q.last_committed = c /\ q.tree = proc[v].tree
  <2> HIDE DEF p, w
  <2> QED BY <1>6, <1>7, Zenon DEF Committed, ProcType
<1> HIDE DEF p, s, w, q
<1>14. proc[v].tree <= Len(proposals) /\ c <= Len(chain)
  BY <1>1, <1>3 DEF Fits
<1>10. Prepared(v, s, w)
  BY <1>2, <1>4, <1>5, <1>7 DEF Prepared
<1>11. CASE SetProc(v, q) /\ SetStore(v, k)
  <2>1. StoreArrives(v, k) /\ k.marker = c /\ k.link.ck = 0 /\ Loads(k, chain, c)
    BY <1>7, <1>10, DoneStore
  <2> HIDE DEF k
  <2> QED BY <1>9, <1>11, <1>14, <2>1, MarkerMove
<1>12. CASE CommitCut(v, s, w)
  BY <1>1, <1>10, <1>12, CutMove
<1>13. CASE run_init_catchup(v, p, s) /\ gave_up' = gave_up \cup {v}
  <2>1. Recoverable(v, s, p)
    <3>1. s.marker <= c /\ s.link.ck = 0
      <4>1. store[v].marker \in Nat
        BY <1>1 DEF StoreType
      <4> QED BY <1>3, <1>4, <1>5, <4>1
    <3>2. v \in gave_up'
      BY <1>13, Zenon
    <3> QED BY <1>4, <1>6, <1>14, <3>1, <3>2, Zenon DEF Recoverable
  <2> QED BY <1>13, <2>1, CatchupMove
<1> QED BY <1>8, <1>11, <1>12, <1>13

\* Every step of the wait for the own inclusion.
LEMMA WaitMove ==
  ASSUME HistoryInv, LocalInv, NEW v \in Validators, wait_for_realm_update(v)
  PROVE  LocalMove(v)
<1> DEFINE p == proc[v]
           b == IF Latest >= p.baseline + ResendAfter THEN Latest ELSE p.baseline
           q == [p EXCEPT !.baseline = b]
           s == persist_checkpoint_metadata_range(store[v], Latest)
<1>1. /\ p.pc = "await"
      /\ \/ /\ chain[Latest] = p.sealed
            /\ \E c \in Transitions(chain) : c = LastModified(chain) /\ CommitOwn(v, c)
         \/ SetStore(v, s) /\ SetProc(v, q) /\ gave_up' = gave_up
         \/ run_init_catchup(v, p, store[v]) /\ gave_up' = gave_up
  BY Zenon DEF wait_for_realm_update
<1>2. /\ p \in ProcType /\ Latest \in Nat /\ Latest = Len(chain)
      /\ StoreArrives(v, store[v]) /\ Fits(p, store[v], chain, proposals)
      /\ v \notin gave_up => Covered(p, store[v], chain)
  BY Here
<1>3. CASE /\ chain[Latest] = p.sealed
           /\ \E c \in Transitions(chain) : c = LastModified(chain) /\ CommitOwn(v, c)
  <2>1. PICK c \in Transitions(chain) : c = LastModified(chain) /\ CommitOwn(v, c)
    BY <1>3, Zenon
  <2> QED BY <1>1, <1>3, <2>1, CommitOwnMove
<1>4. CASE SetStore(v, s) /\ SetProc(v, q) /\ gave_up' = gave_up
  <2>1. /\ StoreArrives(v, s) /\ s.marker = store[v].marker /\ s.link = store[v].link
        /\ s.applied = store[v].applied /\ s.held = store[v].held
    <3>1. Latest \in 0 .. Len(chain)
      BY <1>2
    <3> QED BY <3>1, MetadataArrives
  <2>2. b \in Nat
    BY <1>2 DEF ProcType
  <2> HIDE DEF b, s
  <2> QED BY <1>4, <2>1, <2>2, BaselineMove
<1>5. CASE run_init_catchup(v, p, store[v]) /\ gave_up' = gave_up
  <2>1. Recoverable(v, store[v], p)
    BY <1>1, <1>2, <1>5, StillRecoverable DEF Up, At
  <2> QED BY <1>5, <2>1, CatchupMove
<1> QED BY <1>1, <1>3, <1>4, <1>5

-----------------------------------------------------------------------------
(* The shape of a validator's step.                                        *)

MessagesKept ==
  /\ gossip' \subseteq gossip /\ replays' \subseteq replays
  /\ votes' \subseteq votes \cup replays

\* The validator's own proposal is accepted by the Coordinator, after it has
\* had its votes; the accepted update may be lost.
Submits(v) ==
  LET r == proc[v].sealed
  IN  /\ Admissible(r)
      /\ \E item \in {r, -1} : Accept(r, item)
      /\ proc[v].pc = "await" \/ (proc[v].pc = "votes" /\ votes_meet_wait(r, v))

ValidatorFrame(v) ==
  /\ LocalMove(v) /\ MessagesKept /\ UNCHANGED <<chain, proposals>>
  /\ gave_up' \in {gave_up, gave_up \cup {v}}
  /\ UNCHANGED <<batch, in_flight>> \/ Submits(v)

\* The store a proposal is published from.
Publishes(v) ==
  /\ \E s : /\ publish_realm_p2p_proposal(v, s)
            /\ StoreArrives(v, s) /\ s.marker = Latest /\ s.meta = Latest
            /\ s.link.ck = 0 /\ Loads(s, chain, Latest)
            /\ chain[Latest] = proc[v].tree
  /\ proc[v].pc = "loop" /\ UNCHANGED <<chain, batch, in_flight, gave_up>>

\* A step that sends nothing keeps the messages.
LEMMA NoMessagesKept == NoMessages => MessagesKept
BY DEF NoMessages, MessagesKept, Heard

\* Every step of a validator is framed, or publishes a proposal.
LEMMA ValidatorStep ==
  ASSUME HistoryInv, LocalInv, NEW v \in Validators, Validator(v)
  PROVE  ValidatorFrame(v) \/ Publishes(v)
<1>1. CASE Boot(v)
  <2>1. /\ UNCHANGED <<chain, batch, in_flight, proposals, gave_up>> /\ MessagesKept
    BY <1>1 DEF Boot, coordinator, network, MessagesKept
  <2> QED BY <1>1, <2>1, BootMove DEF ValidatorFrame
<1>2. CASE sync_and_verify(v)
  <2>1. At(v, "loop") /\ UNCHANGED <<chain, batch, in_flight, proposals, gave_up>>
    BY <1>2 DEF sync_and_verify, coordinator
  <2>2. LocalMove(v)
    BY <1>2, <2>1, SyncToHeadMove, FollowMove DEF sync_and_verify
  <2>3. MessagesKept
    BY <1>2, Zenon DEF sync_and_verify, Heard, MessagesKept
  <2> QED BY <2>1, <2>2, <2>3 DEF ValidatorFrame
<1>3. CASE submit_guta(v)
  <2>1. /\ UNCHANGED <<proposals, gave_up>> /\ MessagesKept
        /\ proc[v].pc = "votes" /\ votes_meet_wait(proc[v].sealed, v)
    BY <1>3, NoMessagesKept DEF submit_guta
  <2>2. \/ UNCHANGED <<chain, batch, in_flight>>
        \/ /\ Admissible(proc[v].sealed)
           /\ \E item \in {proc[v].sealed, -1} : Accept(proc[v].sealed, item)
    BY <1>3 DEF submit_guta, coordinator
  <2>3. UNCHANGED chain /\ (UNCHANGED <<batch, in_flight>> \/ Submits(v))
    BY <2>1, <2>2 DEF Submits, Accept
  <2> QED BY <1>3, <2>1, <2>3, SubmitMove DEF ValidatorFrame
<1>4. CASE wait_for_realm_update(v)
  <2>1. UNCHANGED proposals /\ MessagesKept /\ proc[v].pc = "await"
    BY <1>4, NoMessagesKept DEF wait_for_realm_update
  <2>2. gave_up' \in {gave_up, gave_up \cup {v}}
    BY <1>4, Zenon DEF wait_for_realm_update, CommitOwn
  <2>3. \/ UNCHANGED <<chain, batch, in_flight>>
        \/ Admissible(proc[v].sealed) /\ Accept(proc[v].sealed, proc[v].sealed)
    BY <1>4 DEF wait_for_realm_update, coordinator
  <2>4. UNCHANGED chain /\ (UNCHANGED <<batch, in_flight>> \/ Submits(v))
    BY <2>1, <2>3 DEF Submits, Accept
  <2> QED BY <1>4, <2>1, <2>2, <2>4, WaitMove DEF ValidatorFrame
<1>5. CASE apply_history_transitions(v)
  <2>1. /\ UNCHANGED <<chain, batch, in_flight, proposals, gave_up>> /\ MessagesKept
    BY <1>5, NoMessagesKept DEF apply_history_transitions, coordinator
  <2> QED BY <1>5, <2>1, ApplyMove DEF ValidatorFrame
<1>6. CASE process_block(v)
  <2>1. UNCHANGED <<chain, batch, in_flight, gave_up>> /\ proc[v].pc = "loop"
    BY <1>6 DEF process_block, coordinator, At
  <2> QED BY <1>6, <2>1, BlockMove, NoMessagesKept DEF ValidatorFrame, Publishes
<1>7. CASE Crash(v)
  <2>1. /\ UNCHANGED <<chain, batch, in_flight, proposals, gave_up>> /\ MessagesKept
    BY <1>7, NoMessagesKept DEF Crash, coordinator
  <2> QED BY <1>7, <2>1, CrashMove DEF ValidatorFrame
<1> QED BY <1>1, <1>2, <1>3, <1>4, <1>5, <1>6, <1>7 DEF Validator, ProcessorStep

\* A move of v and nobody else: its new state, and the effect on the stores.
LEMMA MoveFrame ==
  ASSUME LocalInv, NEW v \in Validators, LocalMove(v)
  PROVE  /\ store' \in [Validators -> StoreType] /\ proc' \in [Validators -> ProcType]
         /\ \A u \in Validators \ {v} : store'[u] = store[u] /\ proc'[u] = proc[u]
         /\ StoreArrives(v, store'[v]) /\ Arrives(v, store'[v], proc'[v], proposals)
         /\ proc'[v].pc = "await" =>
              /\ proc'[v].sealed = proc[v].sealed
              /\ \/ proc[v].pc = "await"
                 \/ proc[v].pc = "votes" /\ votes_meet_wait(proc'[v].sealed, v)
<1>1. PICK s, p : /\ SetStore(v, s) /\ SetProc(v, p)
                  /\ StoreArrives(v, s) /\ Arrives(v, s, p, proposals)
                  /\ p.pc = "await" =>
                       /\ p.sealed = proc[v].sealed
                       /\ \/ proc[v].pc = "await"
                          \/ proc[v].pc = "votes" /\ votes_meet_wait(p.sealed, v)
  BY DEF LocalMove
<1>2. s \in StoreType /\ p \in ProcType
  BY <1>1 DEF StoreArrives, Sound, Arrives, Fits
<1>3. store \in [Validators -> StoreType] /\ proc \in [Validators -> ProcType]
  BY Zenon DEF LocalInv
<1>4. /\ store' \in [Validators -> StoreType] /\ store'[v] = s
      /\ \A u \in Validators \ {v} : store'[u] = store[u]
  BY <1>1, <1>2, <1>3 DEF SetStore
<1>5. /\ proc' \in [Validators -> ProcType] /\ proc'[v] = p
      /\ \A u \in Validators \ {v} : proc'[u] = proc[u]
  BY <1>1, <1>2, <1>3 DEF SetProc
<1> QED BY <1>1, <1>4, <1>5

\* What a step does to the stores: nothing kept is dropped, and state updates
\* are applied in the order of their inclusion.
HeldGrows == \A u \in Validators : store[u].held \subseteq store'[u].held

InOrder ==
  \A v \in Validators : \A c \in store'[v].applied \ store[v].applied :
    \A t \in Transitions(chain) : t < c => t \in store[v].applied

\* A framed step drops nothing kept and applies in order.
LEMMA FrameStores ==
  ASSUME LocalInv, NEW v \in Validators, LocalMove(v) PROVE HeldGrows /\ InOrder
BY MoveFrame, Zenon DEF HeldGrows, InOrder, StoreArrives

\* A framed step keeps every validator's part of the invariant.
LEMMA FrameLocal ==
  ASSUME LocalInv, NEW v \in Validators, ValidatorFrame(v) PROVE LocalInv'
<1>1. /\ LocalMove(v) /\ chain' = chain /\ proposals' = proposals
      /\ gave_up' \in {gave_up, gave_up \cup {v}}
  BY DEF ValidatorFrame
<1>2. store' \in [Validators -> StoreType] /\ proc' \in [Validators -> ProcType]
  BY <1>1, MoveFrame
<1>3. ASSUME NEW u \in Validators
      PROVE  /\ Sound(store'[u], chain', Len(proposals'))
             /\ Fits(proc'[u], store'[u], chain', proposals')
             /\ u \notin gave_up' => Covered(proc'[u], store'[u], chain')
  <2>1. CASE u = v
    BY <1>1, <2>1, MoveFrame DEF StoreArrives, Arrives
  <2>2. CASE u # v
    <3>1. store'[u] = store[u] /\ proc'[u] = proc[u] /\ (u \in gave_up' <=> u \in gave_up)
      BY <1>1, <2>2, MoveFrame
    <3> QED BY <1>1, <3>1 DEF LocalInv
  <2> QED BY <2>1, <2>2, Zenon
<1> QED BY <1>2, <1>3 DEF LocalInv

\* The new proposal starts from the root of the head, in the proposer's
\* applied state.
LEMMA PublishFrame ==
  ASSUME HistoryInv, LocalInv, NEW v \in Validators, Publishes(v)
  PROVE  /\ proposals' \in Seq(ProposalType) /\ Len(proposals') = Len(proposals) + 1
         /\ Len(proposals') <= MaxRoot
         /\ \A r \in 1 .. Len(proposals) : proposals'[r] = proposals[r]
         /\ proposals'[Len(proposals) + 1].old = chain[Latest]
         /\ LocalInv' /\ HeldGrows /\ InOrder
         /\ proc'[v].pc = "votes" /\ \A u \in Validators \ {v} : proc'[u] = proc[u]
<1> DEFINE r == Len(proposals) + 1
<1>1. PICK s : /\ publish_realm_p2p_proposal(v, s)
               /\ StoreArrives(v, s) /\ s.marker = Latest /\ s.meta = Latest
               /\ s.link.ck = 0 /\ Loads(s, chain, Latest)
               /\ chain[Latest] = proc[v].tree
  BY Zenon DEF Publishes
<1>2. /\ chain' = chain /\ gave_up' = gave_up /\ proc[v].pc = "loop"
  BY DEF Publishes
<1>3. /\ chain \in Seq(Nat) /\ proc[v] \in ProcType /\ Latest \in Nat /\ Latest = Len(chain)
      /\ 1 <= Latest /\ Len(proposals) \in Nat /\ proposals \in Seq(ProposalType)
      /\ Latest <= MaxCheckpoint
  BY Here, Zenon DEF ProposalsOK, HistoryInv, ChainOK
<1>4. /\ s \in StoreType /\ s.held \subseteq 1 .. Len(proposals)
       /\ s.applied \subseteq Transitions(chain) /\ store[v].held \subseteq s.held
  BY <1>1 DEF StoreArrives, Sound
<1> DEFINE x == [by |-> v, base |-> s.meta, old |-> proc[v].tree]
           p == [proc[v] EXCEPT !.pc = "votes", !.last_committed = s.marker,
                                !.ids = "free", !.start = r, !.tree = r, !.sealed = r]
           s2 == save_proposal(s, r)
<1>5. /\ r <= MaxRoot /\ proposals' = Append(proposals, x)
      /\ SetStore(v, s2) /\ SetProc(v, p)
  BY <1>1 DEF publish_realm_p2p_proposal
<1>6. x \in ProposalType /\ x.old = chain[Latest]
  <2>1. s.meta \in Checkpoints
    BY <1>1, <1>3, BoundAssumption DEF Checkpoints
  <2>2. proc[v].tree \in Nat
    BY <1>3 DEF ProcType
  <2> QED BY <1>1, <2>1, <2>2 DEF ProposalType
<1> HIDE DEF x
<1>7. /\ Len(proposals') = Len(proposals) + 1 /\ proposals' \in Seq(ProposalType)
      /\ proposals'[Len(proposals) + 1] = x
      /\ \A i \in 1 .. Len(proposals) : proposals'[i] = proposals[i]
      /\ \A t : Sound(t, chain, Len(proposals)) => Sound(t, chain, Len(proposals'))
      /\ \A q, t : Fits(q, t, chain, proposals) => Fits(q, t, chain, proposals')
  <2>1. proposals' \in Seq(ProposalType) /\ Extends(proposals', proposals, x)
    BY <1>3, <1>5, <1>6 DEF Extends
  <2> QED BY <1>3, <2>1, ProposalGrowthKeeps, Zenon DEF Extends
<1>8. /\ p \in ProcType /\ p.pc = "votes" /\ p.last_committed = Latest /\ p.tree = r
      /\ p.sealed = r
  <2>1. s.marker \in Nat /\ r \in Nat
    BY <1>1, <1>3
  <2> HIDE DEF r
  <2> QED BY <1>1, <1>3, <2>1, Zenon DEF ProcType
<1>9. /\ s2 \in StoreType /\ s2.meta = Latest /\ s2.marker = Latest
      /\ s2.applied = s.applied /\ s2.link.ck = 0 /\ s2.held = s.held \cup {r}
  <2>1. s \in StoreType /\ r \in Nat
    BY <1>3, <1>4
  <2> HIDE DEF r
  <2>2. /\ s2 \in StoreType /\ s2.meta = s.meta /\ s2.marker = s.marker
        /\ s2.applied = s.applied /\ s2.link = s.link /\ s2.held = s.held \cup {r}
    BY <2>1, SaveFields
  <2> QED BY <1>1, <2>2
<1> HIDE DEF p, s2
<1>10. Sound(s2, chain, Len(proposals'))
  <2>1. s2.held \subseteq 1 .. Len(proposals')
    BY <1>3, <1>7, <1>9, <1>4
  <2> QED BY <1>3, <1>9, <1>4, <2>1 DEF Sound
<1>11. Loads(s2, chain, Latest)
  BY <1>1, <1>9 DEF Loads
<1>12. Fits(p, s2, chain, proposals')
  <2>1. /\ p.tree <= Len(proposals') /\ p.sealed \in 1 .. Len(proposals')
        /\ p.sealed \in s2.held
    BY <1>3, <1>7, <1>8, <1>9
  <2>2. chain[p.last_committed] = proposals'[p.sealed].old
    BY <1>6, <1>7, <1>8
  <2>3. /\ s2.marker <= p.last_committed /\ p.last_committed <= Len(chain)
        /\ Loads(s2, chain, p.last_committed)
    BY <1>3, <1>8, <1>9, <1>11
  <2> QED BY <1>8, <1>9, <2>1, <2>2, <2>3, Zenon DEF Fits
<1>13. Covered(p, s2, chain)
  BY <1>8, <1>9, <1>11 DEF Covered
<1>14. /\ store' \in [Validators -> StoreType] /\ store'[v] = s2
       /\ \A u \in Validators \ {v} : store'[u] = store[u]
  BY <1>5, <1>9 DEF LocalInv, SetStore
<1>15. /\ proc' \in [Validators -> ProcType] /\ proc'[v] = p
       /\ \A u \in Validators \ {v} : proc'[u] = proc[u]
  BY <1>5, <1>8 DEF LocalInv, SetProc
<1>16. ASSUME NEW u \in Validators
       PROVE  /\ Sound(store'[u], chain', Len(proposals'))
              /\ Fits(proc'[u], store'[u], chain', proposals')
              /\ u \notin gave_up' => Covered(proc'[u], store'[u], chain')
  <2>1. CASE u = v
    BY <1>2, <1>10, <1>12, <1>13, <1>14, <1>15, <2>1, Zenon
  <2>2. CASE u # v
    <3>1. /\ Sound(store[u], chain, Len(proposals))
          /\ Fits(proc[u], store[u], chain, proposals)
          /\ u \notin gave_up => Covered(proc[u], store[u], chain)
      BY DEF LocalInv
    <3> QED BY <1>2, <1>7, <1>14, <1>15, <2>2, <3>1
  <2> QED BY <2>1, <2>2
<1>17. LocalInv'
  BY <1>14, <1>15, <1>16 DEF LocalInv
<1>18. HeldGrows /\ InOrder
  <2>1. store[v].held \subseteq store'[v].held
    BY <1>9, <1>14, <1>4
  <2>2. store'[v].applied = s.applied
    BY <1>9, <1>14
  <2> QED BY <1>1, <1>14, <2>1, <2>2 DEF HeldGrows, InOrder, StoreArrives
<1>19. Len(proposals') <= MaxRoot /\ proposals'[Len(proposals) + 1].old = chain[Latest]
  BY <1>5, <1>6, <1>7
<1> QED BY <1>7, <1>8, <1>15, <1>17, <1>18, <1>19
=============================================================================
