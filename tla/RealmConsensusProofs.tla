------------------------ MODULE RealmConsensusProofs ------------------------
(* The invariants of RealmConsensus, for every set of validators, every    *)
(* shuffle and every bound.                                                *)
EXTENDS RealmConsensusSteps, FiniteSetTheorems

-----------------------------------------------------------------------------
(* Publishing a proposal.                                                  *)

\* A published proposal starts from an older root than its own.
LEMMA PublishHistory ==
  ASSUME HistoryInv, LocalInv, NEW v \in Validators, Publishes(v) PROVE HistoryInv'
<1>1. /\ proposals' \in Seq(ProposalType) /\ Len(proposals') = Len(proposals) + 1
      /\ Len(proposals') <= MaxRoot /\ chain' = chain
      /\ \A r \in 1 .. Len(proposals) : proposals'[r] = proposals[r]
      /\ proposals'[Len(proposals) + 1].old = chain[Latest]
  BY PublishFrame DEF Publishes
<1>2. /\ chain \in Seq(Nat) /\ 1 <= Len(chain) /\ Len(proposals) \in Nat
      /\ Len(chain) \in Nat /\ Latest = Len(chain)
      /\ \A c \in 1 .. Len(chain) : chain[c] \in Nat /\ chain[c] <= Len(proposals)
      /\ \A c \in Transitions(chain) :
           /\ c \in 1 .. Len(chain)
           /\ chain[c] # 0 /\ proposals[chain[c]].old = chain[c - 1]
  <2>1. chain \in Seq(Nat) /\ Len(proposals) \in Nat /\ ChainOK(chain, proposals)
    BY DEF HistoryInv, ChainOK, ProposalsOK
  <2>2. \A c \in 1 .. Len(chain) : chain[c] \in Nat
    BY <2>1
  <2>3. \A c \in Transitions(chain) : c \in 1 .. Len(chain)
    BY <2>1 DEF Transitions
  <2> QED BY <2>1, <2>2, <2>3 DEF ChainOK, Latest
<1>3. \A c \in 1 .. Len(chain) : chain[c] <= Len(proposals')
  BY <1>1, <1>2
<1>4. \A c \in Transitions(chain) : chain[c] # 0 /\ proposals'[chain[c]].old = chain[c - 1]
  BY <1>1, <1>2
<1>5. ChainOK(chain, proposals')
  BY <1>3, <1>4 DEF ChainOK, HistoryInv
<1>6. \A r \in 1 .. Len(proposals') : proposals'[r].old < r
  <2> TAKE r \in 1 .. Len(proposals')
  <2>1. CASE r = Len(proposals) + 1
    <3>1. chain[Latest] \in Nat /\ chain[Latest] <= Len(proposals)
      BY <1>2
    <3> QED BY <1>1, <1>2, <2>1, <3>1
  <2>2. CASE r # Len(proposals) + 1
    <3>1. r \in 1 .. Len(proposals)
      BY <1>1, <1>2, <2>2
    <3> QED BY <1>1, <3>1 DEF HistoryInv, ProposalsOK
  <2> QED BY <2>1, <2>2
<1> QED BY <1>1, <1>5, <1>6 DEF HistoryInv, ProposalsOK

\* A published proposal leaves what is admitted alone.
LEMMA PublishAdmit ==
  ASSUME HistoryInv, LocalInv, AdmitInv, NEW v \in Validators, Publishes(v)
  PROVE  AdmitInv'
<1>1. /\ UNCHANGED <<chain, batch, in_flight>> /\ Len(proposals') = Len(proposals) + 1
      /\ \A r \in 1 .. Len(proposals) : proposals'[r] = proposals[r]
  BY PublishFrame DEF Publishes
<1>2. Latest \in Nat /\ Len(proposals) \in Nat /\ Latest' = Latest
  BY <1>1 DEF HistoryInv, ChainOK, ProposalsOK, Latest
<1>3. /\ batch.gathering \in -1 .. Len(proposals) /\ batch.processing \in -1 .. Len(proposals)
  BY DEF AdmitInv
<1>4. batch \in [gathering : -1 .. Len(proposals'), processing : -1 .. Len(proposals')]
  BY <1>1, <1>2, <1>3 DEF AdmitInv
<1>5. /\ batch.gathering > 0 => OldRoot(batch.gathering)' = OldRoot(batch.gathering)
      /\ batch.processing > 0 => OldRoot(batch.processing)' = OldRoot(batch.processing)
  BY <1>1, <1>2, <1>3 DEF OldRoot
<1> QED BY <1>1, <1>2, <1>4, <1>5 DEF AdmitInv

-----------------------------------------------------------------------------
(* Messages and reach.                                                     *)

\* Who replays or has voted keeps the proposal.
LEMMA KeptMessages ==
  ASSUME MessageInv, HeldGrows, MessagesKept, UNCHANGED proposals PROVE MessageInv'
BY DEF MessageInv, HeldGrows, MessagesKept

\* Gossip is about published proposals, and nobody has voted for the new one.
LEMMA PublishMessages ==
  ASSUME HistoryInv, LocalInv, MessageInv, NEW v \in Validators, Publishes(v)
  PROVE  MessageInv'
<1> DEFINE r == Len(proposals) + 1
<1>1. Len(proposals') = r /\ HeldGrows /\ Len(proposals) \in Nat
  BY PublishFrame, Here
<1>2. /\ gossip' \subseteq gossip \cup {r} \X Validators
      /\ replays' = replays /\ votes' = votes
  BY DEF Publishes, publish_realm_p2p_proposal
<1>3. /\ 1 .. Len(proposals) \subseteq 1 .. Len(proposals') /\ r \in 1 .. Len(proposals')
  BY <1>1
<1> HIDE DEF r
<1>4. gossip' \cup replays' \cup votes' \subseteq (1 .. Len(proposals')) \X Validators
  BY <1>2, <1>3 DEF MessageInv
<1>5. ASSUME NEW q \in 1 .. Len(proposals'), NEW u \in Validators,
             <<q, u>> \in replays' \cup votes'
      PROVE  q \in store'[u].held
  <2>1. <<q, u>> \in replays \cup votes /\ q \in 1 .. Len(proposals)
    BY <1>2, <1>5 DEF MessageInv
  <2> QED BY <1>1, <2>1 DEF MessageInv, HeldGrows
<1> QED BY <1>4, <1>5 DEF MessageInv

\* A delivered proposal is kept before it is replayed.
LEMMA DeliverFrame ==
  ASSUME HistoryInv, LocalInv, MessageInv, NEW r \in Proposals, NEW u \in Validators,
         ProposalReady(r, u)
  PROVE  LocalInv' /\ HeldGrows /\ InOrder /\ MessageInv'
<1> DEFINE known == Up(u) /\ proposals[r].base <= store[u].meta
           s == save_proposal(store[u], r)
<1>1. /\ UNCHANGED <<chain, proposals, proc, gave_up>> /\ gossip' \subseteq gossip
      /\ <<r, u>> \in gossip
      /\ IF known THEN SetStore(u, s) ELSE UNCHANGED store
      /\ replays' \subseteq IF known THEN replays \cup {<<r, u>>} ELSE replays
      /\ votes' \subseteq votes
  BY DEF ProposalReady, coordinator, Heard
<1>2. r \in 1 .. Len(proposals) /\ r \in Nat
  BY <1>1 DEF MessageInv
<1>3. store[u] \in StoreType
  BY DEF LocalInv
<1>4. /\ s \in StoreType /\ s.meta = store[u].meta /\ s.marker = store[u].marker
      /\ s.applied = store[u].applied /\ s.link = store[u].link
      /\ s.held = store[u].held \cup {r}
  BY <1>2, <1>3, SaveFields, Zenon
<1> HIDE DEF s
<1>5. /\ store' \in [Validators -> StoreType]
      /\ \A w \in Validators \ {u} : store'[w] = store[w]
      /\ store'[u] \in {s, store[u]}
      /\ known => store'[u] = s
  BY <1>1, <1>4 DEF LocalInv, SetStore
<1>6. ASSUME NEW w \in Validators
      PROVE  /\ Sound(store'[w], chain, Len(proposals))
             /\ Fits(proc[w], store'[w], chain, proposals)
             /\ w \notin gave_up => Covered(proc[w], store'[w], chain)
  <2>1. /\ Sound(store[w], chain, Len(proposals))
        /\ Fits(proc[w], store[w], chain, proposals)
        /\ w \notin gave_up => Covered(proc[w], store[w], chain)
    BY DEF LocalInv
  <2>2. CASE store'[w] = store[w]
    BY <2>1, <2>2
  <2>3. CASE w = u /\ store'[w] = s
    <3>1. Sound(s, chain, Len(proposals))
      <4>1. s.held \subseteq 1 .. Len(proposals)
        BY <1>2, <1>4, <2>1, <2>3 DEF Sound
      <4> QED BY <1>4, <2>1, <2>3, <4>1 DEF Sound
    <3>2. Fits(proc[w], s, chain, proposals)
      BY <1>4, <2>1, <2>3 DEF Fits, Loads
    <3>3. w \notin gave_up => Covered(proc[w], s, chain)
      BY <1>4, <2>1, <2>3 DEF Covered, Loads
    <3> QED BY <2>3, <3>1, <3>2, <3>3
  <2> QED BY <1>5, <2>2, <2>3
<1>7. LocalInv'
  BY <1>1, <1>5, <1>6 DEF LocalInv
<1>8. HeldGrows /\ InOrder
  BY <1>4, <1>5 DEF HeldGrows, InOrder
<1>9. MessageInv'
  <2>1. gossip' \cup replays' \cup votes' \subseteq (1 .. Len(proposals)) \X Validators
    BY <1>1, <1>2 DEF MessageInv
  <2>2. ASSUME NEW q \in 1 .. Len(proposals), NEW w \in Validators,
               <<q, w>> \in replays' \cup votes'
        PROVE  q \in store'[w].held
    <3>1. CASE <<q, w>> \in replays \cup votes
      BY <1>8, <3>1 DEF MessageInv, HeldGrows
    <3>2. CASE <<q, w>> \notin replays \cup votes
      <4>1. q = r /\ w = u /\ known
        BY <1>1, <2>2, <3>2
      <4> QED BY <1>4, <1>5, <4>1
    <3> QED BY <3>1, <3>2
  <2> QED BY <1>1, <2>1, <2>2 DEF MessageInv
<1> QED BY <1>7, <1>8, <1>9

NatLess == {ss \in Nat \X Nat : ss[1] < ss[2]}

\* A set of naturals has a least element, which Min chooses.
LEMMA MinProperty ==
  ASSUME NEW S \in SUBSET Nat, S # {}
  PROVE  Min(S) \in S /\ \A x \in S : Min(S) <= x
<1>1. IsWellFoundedOn(NatLess, Nat)
  BY NatLessThanWellFounded, Zenon DEF OpToRel, NatLess
<1>2. PICK m \in S : \A x \in S : ~ (<<x, m>> \in NatLess)
  BY <1>1, WFMin, Zenon
<1>3. \A x, y \in Nat : x < y => <<x, y>> \in NatLess
  BY DEF NatLess
<1>4. \A x \in S : ~ (x < m)
  BY <1>2, <1>3, Zenon
<1>5. \A x \in S : m <= x
  BY <1>4
<1> QED BY <1>5, Zenon DEF Min

\* With three validators two of them keep what had its votes, so whoever
\* does not keep it asks somebody who does.
LEMMA VotesReach ==
  ASSUME Cardinality(Validators) = 3, MessageInv, NEW v \in Validators,
         NEW r \in 1 .. Len(proposals), r \in store[v].held, votes_meet_wait(r, v)
  PROVE  Reachable(r)
<1> DEFINE H == {v} \cup {u \in Validators : <<r, u>> \in votes}
<1>1. \A u \in H : r \in store[u].held
  BY DEF MessageInv
<1>2. Cardinality(H) >= 2
  BY DEF votes_meet_wait, replication_threshold
<1>3. SUFFICES ASSUME NEW w \in Validators, r \notin store[w].held
               PROVE  r \in store[Min(Validators \ {w})].held
  BY DEF Reachable
<1> DEFINE O == Validators \ {w}
<1>4. IsFiniteSet(Validators) /\ Validators \subseteq Nat
  BY ValidatorsAssumption
<1>5. IsFiniteSet(O) /\ Cardinality(O) = 2
  BY <1>4, FS_RemoveElement
<1>6. H \subseteq O
  BY <1>1, <1>3
<1> HIDE DEF H
<1>7. H = O
  <2>1. IsFiniteSet(H) /\ Cardinality(H) <= Cardinality(O)
        /\ (Cardinality(H) = Cardinality(O) => H = O)
    BY <1>5, <1>6, FS_Subset
  <2>2. Cardinality(H) \in Nat
    BY <2>1, FS_CardinalityType
  <2> QED BY <1>2, <1>5, <2>1, <2>2
<1>8. O # {} /\ O \in SUBSET Nat
  BY <1>4, <1>5, FS_EmptySet
<1> HIDE DEF O
<1>9. Min(O) \in O
  BY <1>8, MinProperty
<1> QED BY <1>1, <1>7, <1>9 DEF O

\* What is within reach stays within reach.
LEMMA ReachKept ==
  ASSUME Cardinality(Validators) = 3, HeldGrows, NEW r, Reachable(r) PROVE Reachable(r)'
<1> SUFFICES ASSUME NEW w \in Validators
             PROVE  r \in store'[w].held \cup store'[Min(Validators \ {w})].held
  BY DEF Reachable
<1> DEFINE O == Validators \ {w}
<1>1. IsFiniteSet(Validators) /\ Validators \subseteq Nat
  BY ValidatorsAssumption
<1>2. Cardinality(O) = 2
  BY <1>1, FS_RemoveElement
<1>3. O # {} /\ O \in SUBSET Nat
  BY <1>1, <1>2, FS_EmptySet
<1> HIDE DEF O
<1>4. Min(O) \in O
  BY <1>3, MinProperty
<1>5. Min(Validators \ {w}) \in Validators
  BY <1>4 DEF O
<1> QED BY <1>5 DEF Reachable, HeldGrows

\* What a validator submits has had its votes, and so is within reach.
LEMMA FrameReach ==
  ASSUME HistoryInv, LocalInv, AdmitInv, MessageInv, ReachInv, NEW v \in Validators,
         ValidatorFrame(v)
  PROVE  ReachInv'
<1> SUFFICES ASSUME Cardinality(Validators) = 3
             PROVE  /\ \A c \in Transitions(chain') : Reachable(chain[c])'
                    /\ batch'.gathering > 0 => Reachable(batch.gathering)'
                    /\ batch'.processing > 0 => Reachable(batch.processing)'
                    /\ \A u \in Validators :
                         proc'[u].pc = "await" => Reachable(proc[u].sealed)'
  BY DEF ReachInv
<1>1. LocalMove(v) /\ chain' = chain /\ (UNCHANGED <<batch, in_flight>> \/ Submits(v))
  BY DEF ValidatorFrame
<1>2. HeldGrows
  BY <1>1, FrameStores
<1>3. \A r : Reachable(r) => (\A w \in Validators :
                r \in store'[w].held \cup store'[Min(Validators \ {w})].held)
  BY <1>2, ReachKept, ZenonT(30) DEF Reachable
<1>4. \/ proc[v].pc = "await"
      \/ proc[v].pc = "votes" /\ votes_meet_wait(proc[v].sealed, v)
      => Reachable(proc[v].sealed)
  <2>1. CASE proc[v].pc = "await"
    BY <2>1 DEF ReachInv
  <2>2. CASE proc[v].pc = "votes" /\ votes_meet_wait(proc[v].sealed, v)
    <3>1. proc[v].sealed \in 1 .. Len(proposals) /\ proc[v].sealed \in store[v].held
      BY <2>2 DEF LocalInv, Fits
    <3> QED BY <2>2, <3>1, VotesReach
  <2> QED BY <2>1, <2>2
<1>5. \A c \in Transitions(chain') : Reachable(chain[c])'
  BY <1>1, <1>3, Zenon DEF ReachInv, Reachable
<1>6. batch'.processing = batch.processing
      /\ batch'.gathering \in {batch.gathering, -1, proc[v].sealed}
      /\ (batch'.gathering # batch.gathering => Submits(v))
  <2>1. CASE UNCHANGED <<batch, in_flight>>
    BY <2>1
  <2>2. CASE Submits(v)
    BY <2>2 DEF Submits, Accept, AdmitInv
  <2> QED BY <1>1, <2>1, <2>2
<1>7. batch'.processing > 0 => Reachable(batch.processing)'
  BY <1>3, <1>6, Zenon DEF ReachInv, Reachable
<1>8. batch'.gathering > 0 => Reachable(batch.gathering)'
  <2>1. CASE batch'.gathering = batch.gathering
    BY <1>3, <2>1, Zenon DEF ReachInv, Reachable
  <2>2. CASE batch'.gathering # batch.gathering
    <3>1. batch'.gathering > 0 => batch'.gathering = proc[v].sealed
      BY <1>6, <2>2
    <3>2. Reachable(proc[v].sealed)
      BY <1>4, <1>6, <2>2 DEF Submits
    <3> QED BY <1>3, <3>1, <3>2, Zenon DEF Reachable
  <2> QED BY <2>1, <2>2
<1>9. ASSUME NEW u \in Validators, proc'[u].pc = "await" PROVE Reachable(proc[u].sealed)'
  <2>1. CASE u # v
    <3>1. proc'[u] = proc[u]
      BY <1>1, <2>1, MoveFrame
    <3> QED BY <1>3, <1>9, <3>1, Zenon DEF ReachInv, Reachable
  <2>2. CASE u = v
    <3>1. /\ proc'[v].sealed = proc[v].sealed
          /\ \/ proc[v].pc = "await"
             \/ proc[v].pc = "votes" /\ votes_meet_wait(proc[v].sealed, v)
      BY <1>1, <1>9, <2>2, MoveFrame
    <3>2. Reachable(proc[v].sealed)
      BY <1>4, <3>1
    <3> QED BY <1>3, <2>2, <3>1, <3>2, Zenon DEF Reachable
  <2> QED BY <2>1, <2>2
<1> QED BY <1>5, <1>7, <1>8, <1>9

\* A step that submits nothing, sends nobody to wait and puts only what is
\* being processed on the chain.
LEMMA QuietReach ==
  ASSUME ReachInv, HeldGrows, Cardinality(Validators) = 3,
         \A c \in Transitions(chain') :
           \/ c \in Transitions(chain) /\ chain'[c] = chain[c]
           \/ batch.processing > 0 /\ chain'[c] = batch.processing,
         batch'.gathering > 0 => batch'.gathering = batch.gathering,
         batch'.processing > 0 =>
           batch'.processing \in {batch.gathering, batch.processing},
         \A u \in Validators : proc'[u].pc = "await" => proc'[u] = proc[u]
  PROVE  ReachInv'
<1>1. \A r : Reachable(r) => (\A w \in Validators :
                r \in store'[w].held \cup store'[Min(Validators \ {w})].held)
  BY ReachKept, Zenon DEF Reachable
<1>2. \A c \in Transitions(chain') : Reachable(chain[c])'
  BY <1>1, Zenon DEF ReachInv, Reachable
<1>3. batch'.gathering > 0 => Reachable(batch.gathering)'
  BY <1>1, Zenon DEF ReachInv, Reachable
<1>4. batch'.processing > 0 => Reachable(batch.processing)'
  BY <1>1, Zenon DEF ReachInv, Reachable
<1>5. \A u \in Validators : proc'[u].pc = "await" => Reachable(proc[u].sealed)'
  BY <1>1, Zenon DEF ReachInv, Reachable
<1> QED BY <1>2, <1>3, <1>4, <1>5 DEF ReachInv

-----------------------------------------------------------------------------
(* The invariant.                                                          *)

\* The invariant holds at the genesis checkpoint.
LEMMA InitIInv == Init => IInv
<1> SUFFICES ASSUME Init PROVE IInv
  OBVIOUS
<1>1. /\ chain = <<0>> /\ proposals = <<>> /\ gave_up = {}
      /\ batch = [gathering |-> 0, processing |-> -1]
      /\ in_flight = [old |-> 0, at |-> -GUTA_IN_FLIGHT_WINDOW_CHECKPOINTS]
      /\ gossip = {} /\ replays = {} /\ votes = {}
  BY DEF Init
<1>2. chain \in Seq(Nat) /\ Len(chain) = 1 /\ chain[1] = 0 /\ Len(proposals) = 0
      /\ proposals \in Seq(ProposalType) /\ Transitions(chain) = {} /\ Latest = 1
  BY <1>1 DEF Transitions, Latest
<1>3. HistoryInv
  BY <1>2, BoundAssumption DEF HistoryInv, ChainOK, ProposalsOK, Located
<1> DEFINE p == [Stopped EXCEPT !.pc = "loop", !.alive = TRUE, !.last_committed = 1]
<1>4. /\ p \in ProcType /\ p.pc = "loop" /\ p.tree = 0 /\ p.last_committed = 1
  BY Zenon DEF Stopped, ProcType
<1>5. /\ GenesisStore \in StoreType /\ GenesisStore.marker = 1 /\ GenesisStore.meta = 1
      /\ GenesisStore.applied = {} /\ GenesisStore.held = {} /\ GenesisStore.link.ck = 0
  BY DEF GenesisStore, StoreType, NoLink
<1>6. store = [v \in Validators |-> GenesisStore] /\ proc = [v \in Validators |-> p]
  BY DEF Init
<1> HIDE DEF p
<1>7. Sound(GenesisStore, chain, Len(proposals))
  BY <1>2, <1>5 DEF Sound
<1>8. Fits(p, GenesisStore, chain, proposals) /\ Covered(p, GenesisStore, chain)
  BY <1>2, <1>4, <1>5 DEF Fits, Covered, Loads
<1>9. LocalInv
  BY <1>4, <1>5, <1>6, <1>7, <1>8 DEF LocalInv
<1>10. AdmitInv
  <2>1. 0 \in Roots /\ -GUTA_IN_FLIGHT_WINDOW_CHECKPOINTS \in Int
        /\ -GUTA_IN_FLIGHT_WINDOW_CHECKPOINTS <= 1
    BY BoundAssumption, WindowAssumption DEF Roots
  <2> QED BY <1>1, <1>2, <2>1 DEF AdmitInv
<1>11. MessageInv
  BY <1>1 DEF MessageInv
<1>12. ReachInv
  BY <1>1, <1>2, <1>4, <1>6 DEF ReachInv
<1> QED BY <1>3, <1>9, <1>10, <1>11, <1>12 DEF IInv

\* The invariant is inductive, and every step keeps the order of application.
LEMMA NextIInv == IInv /\ [Next]_vars => IInv' /\ InOrder
<1> SUFFICES ASSUME IInv, [Next]_vars PROVE IInv' /\ InOrder
  OBVIOUS
<1> HistoryInv /\ LocalInv /\ AdmitInv /\ MessageInv /\ ReachInv
  BY DEF IInv
<1>1. ASSUME NEW v \in Validators, Validator(v) PROVE IInv' /\ InOrder
  <2>1. CASE ValidatorFrame(v)
    <3>1. LocalMove(v) /\ MessagesKept /\ UNCHANGED <<chain, proposals>>
          /\ (UNCHANGED <<batch, in_flight>> \/ Submits(v))
      BY <2>1 DEF ValidatorFrame
    <3>2. HistoryInv'
      BY <3>1 DEF HistoryInv
    <3>3. LocalInv' /\ HeldGrows /\ InOrder
      BY <2>1, <3>1, FrameLocal, FrameStores
    <3>4. AdmitInv'
      <4>1. CASE UNCHANGED <<batch, in_flight>>
        BY <3>1, <4>1 DEF AdmitInv, Latest, OldRoot
      <4>2. CASE Submits(v)
        <5>1. proc[v].sealed \in 1 .. Len(proposals)
          BY <4>2 DEF Submits, LocalInv, Fits
        <5>2. PICK item \in {proc[v].sealed, -1} : Accept(proc[v].sealed, item)
          BY <4>2 DEF Submits
        <5>3. Admissible(proc[v].sealed) /\ UNCHANGED proposals
          BY <3>1, <4>2 DEF Submits
        <5> QED BY <5>1, <5>2, <5>3, AcceptStep, Zenon
      <4> QED BY <3>1, <4>1, <4>2
    <3>5. MessageInv'
      BY <3>1, <3>3, KeptMessages
    <3>6. ReachInv'
      BY <2>1, FrameReach
    <3> QED BY <3>2, <3>3, <3>4, <3>5, <3>6 DEF IInv
  <2>2. CASE Publishes(v)
    <3>1. LocalInv' /\ HeldGrows /\ InOrder
      BY <2>2, PublishFrame
    <3>2. HistoryInv' /\ AdmitInv' /\ MessageInv'
      BY <2>2, PublishHistory, PublishAdmit, PublishMessages
    <3>3. ReachInv'
      <4>1. \A u \in Validators : proc'[u].pc = "await" => proc'[u] = proc[u]
        BY <2>2, PublishFrame
      <4>2. UNCHANGED <<chain, batch>>
        BY <2>2 DEF Publishes
      <4>3. Cardinality(Validators) = 3 => ReachInv'
        BY <3>1, <4>1, <4>2, QuietReach
      <4> QED BY <4>3 DEF ReachInv
    <3> QED BY <3>1, <3>2, <3>3 DEF IInv
  <2> QED BY <1>1, <2>1, <2>2, ValidatorStep
<1>2. ASSUME NEW r \in Proposals, NEW u \in Validators, ProposalReady(r, u)
      PROVE  IInv' /\ InOrder
  <2>1. LocalInv' /\ HeldGrows /\ InOrder /\ MessageInv'
    BY <1>2, DeliverFrame
  <2>2. UNCHANGED <<chain, batch, in_flight, proposals, proc>>
    BY <1>2 DEF ProposalReady, coordinator
  <2>3. HistoryInv' /\ AdmitInv'
    BY <2>2 DEF HistoryInv, AdmitInv, Latest, OldRoot
  <2>4. Cardinality(Validators) = 3 => ReachInv'
    BY <2>1, <2>2, QuietReach
  <2> QED BY <2>1, <2>3, <2>4 DEF IInv, ReachInv
<1>3. CASE RotateGeneration
  <2>1. /\ UNCHANGED <<chain, in_flight, proposals, network, store, proc, gave_up>>
        /\ batch' = [gathering |-> 0, processing |-> Max({batch.gathering, 0})]
    BY <1>3 DEF RotateGeneration
  <2>2. HistoryInv' /\ LocalInv' /\ MessageInv'
    BY <2>1 DEF HistoryInv, LocalInv, MessageInv, network
  <2>3. HeldGrows /\ InOrder
    BY <2>1 DEF HeldGrows, InOrder
  <2>4. AdmitInv'
    BY <1>3, RotateStep
  <2>5. batch'.gathering = 0 /\ batch'.processing \in {batch.gathering, 0}
    <3>1. batch.gathering \in Int
      BY DEF AdmitInv
    <3> QED BY <2>1, <3>1, MaxOfTwo
  <2>6. Cardinality(Validators) = 3 => ReachInv'
    BY <2>1, <2>3, <2>5, QuietReach
  <2> QED BY <2>2, <2>3, <2>4, <2>6 DEF IInv, ReachInv
<1>4. CASE CommitCheckpoint
  <2>1. HistoryInv' /\ LocalInv' /\ AdmitInv'
    BY <1>4, CommitStep
  <2>2. UNCHANGED <<proposals, network, store, proc>>
        /\ batch' = [batch EXCEPT !.processing = -1]
    BY <1>4 DEF CommitCheckpoint
  <2>3. HeldGrows /\ InOrder /\ MessageInv'
    BY <2>2 DEF HeldGrows, InOrder, MessageInv, network
  <2>4. ReachInv'
    <3>1. \A c \in Transitions(chain') :
             \/ c \in Transitions(chain) /\ chain'[c] = chain[c]
             \/ batch.processing > 0 /\ chain'[c] = batch.processing
      BY <1>4, CommitRoots
    <3>2. batch'.gathering = batch.gathering /\ batch'.processing = -1
      BY <2>2 DEF AdmitInv
    <3>3. Cardinality(Validators) = 3 => ReachInv'
      BY <2>2, <2>3, <3>1, <3>2, QuietReach
    <3> QED BY <3>3 DEF ReachInv
  <2> QED BY <2>1, <2>3, <2>4 DEF IInv
<1>5. CASE UNCHANGED vars
  <2>1. UNCHANGED <<chain, batch, in_flight, proposals, gossip, replays, votes, store,
                    proc, gave_up>>
    BY <1>5 DEF vars, coordinator, network
  <2>2. HistoryInv' /\ LocalInv' /\ InOrder
    BY <2>1 DEF HistoryInv, LocalInv, InOrder
  <2>3. ReachInv'
    BY <2>1 DEF ReachInv, Reachable
  <2>4. AdmitInv' /\ MessageInv'
    BY <2>1 DEF AdmitInv, MessageInv, Latest, OldRoot
  <2> QED BY <2>2, <2>3, <2>4 DEF IInv
<1> QED BY <1>1, <1>2, <1>3, <1>4, <1>5 DEF Next, Deliver

\* The inductive invariant holds in every reachable state.
THEOREM Invariance == Spec => []IInv
BY InitIInv, NextIInv, PTL DEF Spec

-----------------------------------------------------------------------------
(* The properties.                                                         *)

\* Types hold, and the numbers of each store are in order: marker, metadata
\* and head, with a mapped pending id only above the marker.
THEOREM TypeCorrect == Spec => []TypeOK
<1>1. IInv => TypeOK
  <2> SUFFICES ASSUME IInv PROVE TypeOK
    OBVIOUS
  <2>1. HistoryInv /\ LocalInv /\ AdmitInv /\ MessageInv
    BY DEF IInv
  <2>2. /\ chain \in Seq(Nat) /\ Len(chain) \in Nat /\ Len(proposals) \in Nat
        /\ proposals \in Seq(ProposalType) /\ Latest = Len(chain)
        /\ 1 <= Len(chain) /\ Len(chain) <= MaxCheckpoint /\ Len(proposals) <= MaxRoot
    BY <2>1 DEF HistoryInv, ChainOK, ProposalsOK, Latest
  <2>3. Len(chain) \in Checkpoints /\ \A c \in 1 .. Len(chain) : chain[c] \in Roots
    <3>1. \A c \in 1 .. Len(chain) : chain[c] \in Nat /\ chain[c] <= Len(proposals)
      <4>1. \A c \in 1 .. Len(chain) : chain[c] \in Nat
        BY <2>2
      <4> QED BY <2>1, <4>1 DEF HistoryInv, ChainOK
    <3> QED BY <2>2, <3>1, BoundAssumption DEF Checkpoints, Roots
  <2>4. /\ batch \in [gathering : Roots \cup {-1}, processing : Roots \cup {-1}]
        /\ in_flight.old \in Roots /\ in_flight.at <= Latest
    <3>1. -1 .. Len(proposals) \subseteq Roots \cup {-1}
      BY <2>2, BoundAssumption DEF Roots
    <3> QED BY <2>1, <3>1 DEF AdmitInv
  <2>5. \A i \in 1 .. Len(proposals) :
          proposals[i] \in [by : Validators, base : Checkpoints, old : Roots]
    <3> TAKE i \in 1 .. Len(proposals)
    <3>1. proposals[i] \in ProposalType
      BY <2>2
    <3>2. proposals[i].old \in Nat /\ proposals[i].old < i
      BY <2>1, <3>1 DEF HistoryInv, ProposalsOK, ProposalType
    <3>3. proposals[i].old \in Roots
      BY <2>2, <3>2, BoundAssumption DEF Roots
    <3> QED BY <3>1, <3>3 DEF ProposalType
  <2>6. gossip \cup replays \cup votes \subseteq Proposals \X Validators
    <3>1. 1 .. Len(proposals) \subseteq Proposals
      BY <2>2, BoundAssumption DEF Proposals
    <3> QED BY <2>1, <3>1 DEF MessageInv
  <2>7. ASSUME NEW v \in Validators
        PROVE  /\ store[v].marker \in 1 .. store[v].meta /\ store[v].meta <= Latest
               /\ store[v].applied \subseteq Transitions(chain)
               /\ store[v].held \subseteq 1 .. Len(proposals)
               /\ store[v].link.ck \in {0} \cup store[v].marker + 1 .. Latest
               /\ proc[v].last_committed <= Latest
    <3>1. /\ Sound(store[v], chain, Len(proposals)) /\ store[v] \in StoreType
          /\ Fits(proc[v], store[v], chain, proposals)
      BY <2>1 DEF LocalInv
    <3>2. store[v].marker \in Nat /\ store[v].meta \in Nat /\ store[v].link.ck \in Nat
      BY <3>1 DEF StoreType
    <3>3. store[v].marker \in 1 .. store[v].meta /\ store[v].meta <= Latest
      <4>1. /\ 1 <= store[v].marker /\ store[v].marker <= store[v].meta
            /\ store[v].meta <= Len(chain)
        BY <3>1 DEF Sound
      <4> QED BY <2>2, <3>2, <4>1
    <3>4. store[v].link.ck \in {0} \cup store[v].marker + 1 .. Latest
      <4>1. store[v].link.ck # 0 =>
              store[v].link.ck \in 2 .. Len(chain) /\ store[v].marker < store[v].link.ck
        BY <3>1 DEF Sound, Transitions
      <4> QED BY <2>2, <3>2, <4>1
    <3>5. proc[v].last_committed <= Latest
      <4>1. proc[v].last_committed <= Len(chain) \/ proc[v].last_committed = 0
        BY <3>1 DEF Fits
      <4> QED BY <2>2, <4>1
    <3> QED BY <3>1, <3>3, <3>4, <3>5 DEF Sound
  <2> QED BY <2>3, <2>4, <2>5, <2>6, <2>7 DEF TypeOK
<1> QED BY <1>1, Invariance, PTL

\* What a marker covers is applied, whatever crashed between the writes of a
\* commit: a validator that has not given up a commit of its own has the
\* state updates of every root change up to latest_checkpoint_id.
THEOREM MarkersAreCovered == Spec => []CommittedStateIsApplied
<1>1. IInv => CommittedStateIsApplied
  BY DEF IInv, LocalInv, Covered, Loads, CommittedStateIsApplied
<1> QED BY <1>1, Invariance, PTL

\* State updates are applied in the order of their inclusion, by every
\* validator and by every path: the loop, the own commit, a recovery.
THEOREM AppliesInOrder == Spec => AppliedInOrder
<1>1. IInv /\ [Next]_vars =>
        [\A v \in Validators : \A c \in store'[v].applied \ store[v].applied :
           \A t \in Transitions(chain) : t < c => t \in store[v].applied]_vars
  BY NextIInv DEF InOrder
<1> QED BY <1>1, Invariance, PTL DEF Spec, AppliedInOrder

\* With an in-flight window of at least two checkpoints the planner never
\* meets an update from a root that has been replaced.
THEOREM PlannerIsCurrent == Spec => []PlannerNeverStale
<1>1. IInv => PlannerNeverStale
  BY DEF IInv, AdmitInv, PlannerNeverStale
<1> QED BY <1>1, Invariance, PTL

\* In a Realm of three validators the body of an included proposal is kept
\* by everyone or by the peer who is asked first.
THEOREM BodiesAreReachable ==
  Cardinality(Validators) = 3 => (Spec => []IncludedBodyIsReachable)
<1> SUFFICES ASSUME Cardinality(Validators) = 3 PROVE Spec => []IncludedBodyIsReachable
  OBVIOUS
<1>1. IInv => IncludedBodyIsReachable
  BY DEF IInv, ReachInv, Reachable, IncludedBodyIsReachable
<1> QED BY <1>1, Invariance, PTL
=============================================================================
