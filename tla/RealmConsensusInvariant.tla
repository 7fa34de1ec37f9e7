---------------------- MODULE RealmConsensusInvariant ----------------------
(* The inductive invariant of RealmConsensus, and the lemmas about the     *)
(* Realm's history and the store's operators that its proof rests on.      *)
EXTENDS RealmConsensus, TLAPS

StoreType ==
  [marker : Nat, meta : Nat, applied : SUBSET Nat,
   link : [ck : Nat, file : BOOLEAN], tip : Nat, held : SUBSET Nat]

ProcType ==
  [pc : {"down", "boot", "catchup", "loop", "votes", "await"},
   last_committed : Nat, start : Nat, tree : Nat, alive : BOOLEAN,
   ids : {"free", "used"}, sealed : Nat, baseline : Nat,
   check : {"Ready", "NeedsRecovery", "Refused"}]

ProposalType == [by : Validators, base : Checkpoints, old : Nat]

-----------------------------------------------------------------------------
(* One validator. ch is the chain, ps the proposals.                       *)

\* The store: the marker is covered by metadata, the metadata by the chain,
\* and an interrupted commit is a root change above the marker.
Sound(s, ch, n) ==
  /\ s \in StoreType
  /\ 1 <= s.marker /\ s.marker <= s.meta /\ s.meta <= Len(ch)
  /\ s.applied \subseteq Transitions(ch)
  /\ s.held \subseteq 1 .. n
  /\ s.link.ck # 0 => s.link.ck \in Transitions(ch) /\ s.marker < s.link.ck

\* The memory of a running process against its store: an interrupted commit
\* is above the last committed checkpoint, and outside the loop, where the
\* entry has loaded the subtree, all root changes up to it are applied. A
\* proposer that waits has its own proposal, made from the last committed
\* root, and no interrupted commit.
Fits(p, s, ch, ps) ==
  /\ p \in ProcType
  /\ p.tree <= Len(ps)
  /\ p.pc = "down" => p.last_committed = 0
  /\ p.pc # "down" =>
       /\ s.marker <= p.last_committed /\ p.last_committed <= Len(ch)
       /\ s.link.ck # 0 => p.last_committed < s.link.ck
  /\ p.pc \notin {"down", "loop"} => Loads(s, ch, p.last_committed)
  /\ p.pc \in {"votes", "await"} =>
       /\ p.sealed \in 1 .. Len(ps) /\ p.sealed \in s.held
       /\ ch[p.last_committed] = ps[p.sealed].old
       /\ s.link.ck = 0

\* The store holds what the marker and the last committed checkpoint claim.
Covered(p, s, ch) ==
  /\ Loads(s, ch, s.marker)
  /\ p.pc # "down" => Loads(s, ch, p.last_committed)

-----------------------------------------------------------------------------
(* The Realm's history. Roots are numbered in the order of their           *)
(* proposals, so every root change goes from a root to a larger one.       *)

ChainOK(ch, ps) ==
  /\ ch \in Seq(Nat) /\ 1 <= Len(ch) /\ Len(ch) <= MaxCheckpoint
  /\ \A c \in 1 .. Len(ch) : ch[c] <= Len(ps)
  /\ \A c, d \in 1 .. Len(ch) : c <= d => ch[c] <= ch[d]
  /\ \A c \in Transitions(ch) : ch[c] # 0 /\ ps[ch[c]].old = ch[c - 1]

ProposalsOK(ps) ==
  /\ ps \in Seq(ProposalType) /\ Len(ps) <= MaxRoot
  /\ \A r \in 1 .. Len(ps) : ps[r].old < r

\* Above a checkpoint there is an oldest root change where there is any, and
\* the newest one of all has the current root. Both follow the chain as it
\* grows, so they are kept with the invariant.
Located(ch) ==
  /\ \A l \in 0 .. Len(ch) : (\E t \in Transitions(ch) : l < t) =>
       \E m \in Transitions(ch) : l < m /\ \A t \in Transitions(ch) : l < t => m <= t
  /\ Transitions(ch) # {} =>
       \E m \in Transitions(ch) :
         ch[m] = ch[Len(ch)] /\ \A t \in Transitions(ch) : t <= m

HistoryInv ==
  ChainOK(chain, proposals) /\ ProposalsOK(proposals) /\ Located(chain)

LocalInv ==
  /\ store \in [Validators -> StoreType] /\ proc \in [Validators -> ProcType]
  /\ \A v \in Validators :
       /\ Sound(store[v], chain, Len(proposals))
       /\ Fits(proc[v], store[v], chain, proposals)
       /\ v \notin gave_up => Covered(proc[v], store[v], chain)

\* The in-flight record protects an accepted update until it is committed:
\* nothing else leaves its old root, at most one checkpoint is committed
\* before its own, and that one is empty.
AdmitInv ==
  /\ batch \in [gathering : -1 .. Len(proposals), processing : -1 .. Len(proposals)]
  /\ in_flight \in [old : Roots, at : Int] /\ in_flight.at <= Latest
  /\ batch.processing > 0 =>
       /\ batch.gathering = 0
       /\ OldRoot(batch.processing) = chain[Latest]
       /\ in_flight.old = chain[Latest] /\ Latest <= in_flight.at + 1
  /\ batch.gathering > 0 =>
       /\ OldRoot(batch.gathering) = chain[Latest]
       /\ in_flight.old = chain[Latest] /\ Latest <= in_flight.at + 1
       /\ batch.processing = 0 => in_flight.at = Latest

\* Who is asked to replay a proposal, or has voted for it, keeps it.
MessageInv ==
  /\ gossip \cup replays \cup votes \subseteq (1 .. Len(proposals)) \X Validators
  /\ \A r \in 1 .. Len(proposals), u \in Validators :
       <<r, u>> \in replays \cup votes => r \in store[u].held

\* Every validator keeps r, or the peer it asks first does.
Reachable(r) ==
  \A v \in Validators : r \in store[v].held \cup store[Min(Validators \ {v})].held

\* With three validators, what has been submitted is within everyone's reach.
ReachInv ==
  Cardinality(Validators) = 3 =>
    /\ \A c \in Transitions(chain) : Reachable(chain[c])
    /\ batch.gathering > 0 => Reachable(batch.gathering)
    /\ batch.processing > 0 => Reachable(batch.processing)
    /\ \A v \in Validators : proc[v].pc = "await" => Reachable(proc[v].sealed)

IInv == HistoryInv /\ LocalInv /\ AdmitInv /\ MessageInv /\ ReachInv

-----------------------------------------------------------------------------
(* The greatest element.                                                   *)

\* What Max chooses is the greatest element where there is one.
LEMMA MaxProperty ==
  ASSUME NEW S \in SUBSET Int, NEW m \in S, \A x \in S : x <= m
  PROVE  Max(S) = m
<1>1. \E x \in S : \A y \in S : x >= y
  OBVIOUS
<1>2. Max(S) \in S /\ \A y \in S : Max(S) >= y
  BY <1>1, Zenon DEF Max
<1>3. Max(S) \in Int /\ m \in Int /\ Max(S) >= m /\ Max(S) <= m
  BY <1>2, Zenon
<1> QED BY <1>3

\* Max of two integers is the larger one.
LEMMA MaxOfTwo ==
  ASSUME NEW a \in Int, NEW b \in Int
  PROVE  Max({a, b}) = IF a >= b THEN a ELSE b
<1>1. CASE a >= b
  BY <1>1, MaxProperty
<1>2. CASE ~(a >= b)
  BY <1>2, MaxProperty
<1> QED BY <1>1, <1>2, Zenon

-----------------------------------------------------------------------------
(* Root changes.                                                           *)

\* first_root_change is the oldest root change above the last committed
\* checkpoint, and 0 only where there is none.
LEMMA FirstChange ==
  ASSUME HistoryInv, NEW l \in Nat, NEW c, c = first_root_change(chain, l)
  PROVE  /\ c = 0 => \A t \in Transitions(chain) : t <= l
         /\ c # 0 => /\ c \in Transitions(chain) /\ l < c
                     /\ \A t \in Transitions(chain) : t < c => t <= l
<1> DEFINE later == {t \in Transitions(chain) : t > l}
<1>1. \A t \in Transitions(chain) : t \in Nat /\ t # 0 /\ t <= Len(chain)
  BY DEF HistoryInv, ChainOK, Transitions
<1>2. c = IF later = {} THEN 0 ELSE Min(later)
  BY Zenon DEF first_root_change
<1>3. CASE later = {}
  BY <1>1, <1>2, <1>3
<1>4. CASE later # {}
  <2>1. l \in 0 .. Len(chain) /\ \E t \in Transitions(chain) : l < t
    BY <1>1, <1>4 DEF HistoryInv, ChainOK
  <2>2. PICK m \in Transitions(chain) :
               l < m /\ \A t \in Transitions(chain) : l < t => m <= t
    BY <2>1, Zenon DEF HistoryInv, Located
  <2>3. m \in later /\ \A t \in later : m <= t
    BY <1>1, <2>2, Zenon
  <2>4. c \in later /\ \A t \in later : c <= t
    BY <1>2, <1>4, <2>3, Zenon DEF Min
  <2> QED BY <1>1, <2>4
<1> QED BY <1>3, <1>4, Zenon

\* The last modified checkpoint of a changed Realm: no root change is later,
\* and its root is the current one.
LEMMA LastChange ==
  ASSUME HistoryInv, NEW c \in Transitions(chain), c = LastModified(chain)
  PROVE  (\A t \in Transitions(chain) : t <= c) /\ chain[c] = chain[Len(chain)]
<1>1. PICK m \in Transitions(chain) :
             chain[m] = chain[Len(chain)] /\ \A t \in Transitions(chain) : t <= m
  BY Zenon DEF HistoryInv, Located
<1>2. \A t \in Transitions(chain) : t \in Int /\ 1 <= t
  BY DEF HistoryInv, ChainOK, Transitions
<1>3. \A t \in Transitions(chain) \cup {1} : t <= m
  BY <1>1, <1>2, Zenon
<1>4. c = m
  BY <1>2, <1>3, MaxProperty DEF LastModified
<1> QED BY <1>1, <1>4, Zenon

\* An included root is followed by no other change while the root the
\* change started from is the one at checkpoint l: between l and the
\* checkpoint it was included at nothing has changed.
LEMMA SinceBase ==
  ASSUME NEW ps, NEW ch, ChainOK(ch, ps), NEW l \in 1 .. Len(ch), NEW d \in 1 .. Len(ch),
         ch[l] = ch[d]
  PROVE  \A t \in Transitions(ch) : t <= d => t <= l
<1> SUFFICES ASSUME NEW t \in Transitions(ch), t <= d, l < t PROVE FALSE
  BY DEF Transitions, ChainOK
<1>1. ch \in Seq(Nat) /\ t \in 2 .. Len(ch) /\ ch[t] # ch[t - 1]
  BY Zenon DEF Transitions, ChainOK
<1>2. ch[l] \in Nat /\ ch[d] \in Nat /\ ch[t] \in Nat /\ ch[t - 1] \in Nat
  <2>1. \A x \in 1 .. Len(ch) : ch[x] \in Nat
    BY DEF ChainOK
  <2> QED BY <1>1, <2>1
<1>3. ch[l] <= ch[t - 1] /\ ch[t - 1] <= ch[t] /\ ch[t] <= ch[d]
  <2>1. /\ t \in 1 .. Len(ch) /\ t - 1 \in 1 .. Len(ch)
        /\ l <= t - 1 /\ t - 1 <= t
    BY <1>1
  <2>2. \A i, j \in 1 .. Len(ch) : i <= j => ch[i] <= ch[j]
    BY Zenon DEF ChainOK
  <2> QED BY <2>1, <2>2, Zenon
<1>4. \A i, j, k \in Nat : i <= j /\ j <= k /\ k <= i => j = k
  OBVIOUS
<1>5. ch[t - 1] = ch[t]
  BY <1>2, <1>3, <1>4, Zenon
<1> QED BY <1>1, <1>5, Zenon

\* Sequence t is s with x appended.
Extends(t, s, x) ==
  /\ Len(t) = Len(s) + 1 /\ t[Len(s) + 1] = x
  /\ \A i \in 1 .. Len(s) : t[i] = s[i]

\* A committed checkpoint is a root change where its root is a new one.
LEMMA ChainGrows ==
  ASSUME NEW ch \in Seq(Nat), Len(ch) >= 1, NEW x \in Nat, NEW ch2 \in Seq(Nat),
         Extends(ch2, ch, x)
  PROVE  Transitions(ch2) = Transitions(ch)
              \cup (IF x = ch[Len(ch)] THEN {} ELSE {Len(ch) + 1})
<1>1. ch2 \in Seq(Nat) /\ Len(ch2) = Len(ch) + 1 /\ ch2[Len(ch) + 1] = x
  BY Zenon DEF Extends
<1>2. \A i \in 1 .. Len(ch) : ch2[i] = ch[i]
  BY Zenon DEF Extends
<1>3. \A t \in 2 .. Len(ch) : ch2[t] = ch[t] /\ ch2[t - 1] = ch[t - 1]
  BY <1>2
<1>4. /\ Len(ch) \in Nat /\ Len(ch) + 1 \in 2 .. Len(ch2)
      /\ ch2[(Len(ch) + 1) - 1] = ch[Len(ch)]
  <2>1. Len(ch) \in Nat /\ Len(ch) \in 1 .. Len(ch) /\ (Len(ch) + 1) - 1 = Len(ch)
    OBVIOUS
  <2> QED BY <1>1, <1>2, <2>1
<1>5. \A t \in 2 .. Len(ch) : t \in Transitions(ch2) <=> t \in Transitions(ch)
  <2> TAKE t \in 2 .. Len(ch)
  <2>1. t \in 2 .. Len(ch2)
    BY <1>1
  <2>2. ch2[t] = ch[t] /\ ch2[t - 1] = ch[t - 1]
    BY <1>3, Zenon
  <2> QED BY <2>1, <2>2, Zenon DEF Transitions
<1>6. Len(ch) + 1 \in Transitions(ch2) <=> x # ch[Len(ch)]
  BY <1>1, <1>4, Zenon DEF Transitions
<1>7. \A t \in Transitions(ch2) : t \in 2 .. Len(ch) \/ t = Len(ch) + 1
  BY <1>1 DEF Transitions
<1>8. \A t \in Transitions(ch) : t \in 2 .. Len(ch)
  BY Zenon DEF Transitions
<1> QED BY <1>5, <1>6, <1>7, <1>8, Zenon

-----------------------------------------------------------------------------
(* The store's writes, field by field.                                     *)

WriteType == [ck : Nat, linked : BOOLEAN, newest : BOOLEAN, file : Nat]

\* A metadata sync moves the newest metadata row, and that only.
LEMMA MetadataFields ==
  ASSUME NEW s \in StoreType, NEW c \in Nat
  PROVE  LET s2 == persist_checkpoint_metadata_range(s, c)
         IN  /\ s2 \in StoreType /\ s2.meta = IF s.meta >= c THEN s.meta ELSE c
             /\ s2.marker = s.marker /\ s2.applied = s.applied
             /\ s2.link = s.link /\ s2.held = s.held /\ s2.tip = s.tip
<1>1. s.meta \in Nat
  BY Zenon DEF StoreType
<1>2. Max({s.meta, c}) = IF s.meta >= c THEN s.meta ELSE c
  BY <1>1, MaxOfTwo
<1> QED BY <1>1, <1>2, Zenon DEF persist_checkpoint_metadata_range, StoreType

\* A full sync moves the marker with it.
LEMMA SyncFields ==
  ASSUME NEW s \in StoreType, NEW c \in Nat
  PROVE  LET s2 == sync_to_coordinator_checkpoint_id(s, c)
         IN  /\ s2 \in StoreType /\ s2.meta = IF s.meta >= c THEN s.meta ELSE c
             /\ s2.marker = c /\ s2.applied = s.applied
             /\ s2.link = s.link /\ s2.held = s.held
<1> DEFINE m == persist_checkpoint_metadata_range(s, c)
           s2 == sync_to_coordinator_checkpoint_id(s, c)
<1>1. /\ m \in StoreType /\ m.meta = IF s.meta >= c THEN s.meta ELSE c
      /\ m.applied = s.applied /\ m.link = s.link /\ m.held = s.held
  BY MetadataFields, Zenon
<1>2. s2 = [m EXCEPT !.marker = c]
  BY Zenon DEF sync_to_coordinator_checkpoint_id
<1> HIDE DEF m
<1> QED BY <1>1, <1>2 DEF StoreType

\* An allocation unmaps the newest pending id, and changes nothing else.
LEMMA AllocationFields ==
  ASSUME NEW s \in StoreType
  PROVE  LET s2 == inc_unique_pending_id(s)
         IN  /\ s2 \in StoreType /\ s2.meta = s.meta /\ s2.marker = s.marker
             /\ s2.applied = s.applied /\ s2.link = s.link /\ s2.held = s.held
BY Zenon DEF inc_unique_pending_id, StoreType

\* The backup keeps one more proposal.
LEMMA SaveFields ==
  ASSUME NEW s \in StoreType, NEW r \in Nat
  PROVE  LET s2 == save_proposal(s, r)
         IN  /\ s2 \in StoreType /\ s2.meta = s.meta /\ s2.marker = s.marker
             /\ s2.applied = s.applied /\ s2.link = s.link /\ s2.held = s.held \cup {r}
BY Zenon DEF save_proposal, StoreType

\* commit_state's first write changes the link, its second the applied
\* updates, its third the marker and the metadata, and clears the link.
LEMMA MappingFields ==
  ASSUME NEW s \in StoreType, NEW w \in WriteType
  PROVE  LET m == MappingWritten(s, w)
         IN  /\ m \in StoreType /\ m.meta = s.meta /\ m.marker = s.marker
             /\ m.applied = s.applied /\ m.held = s.held
             /\ m.link.ck = IF w.linked THEN s.link.ck ELSE w.ck
<1> DEFINE m == MappingWritten(s, w)
<1>1. CASE w.linked
  BY <1>1, Zenon DEF MappingWritten, StoreType
<1>2. CASE ~w.linked
  <2> DEFINE replays2 == w.file = chain[w.ck]
             link2 == [ck |-> w.ck, file |-> replays2]
             tip2 == IF w.newest THEN w.ck ELSE s.tip
  <2>1. replays2 \in BOOLEAN
    BY Zenon
  <2> HIDE DEF replays2
  <2>2. link2 \in [ck : Nat, file : BOOLEAN] /\ link2.ck = w.ck
    BY <2>1, Zenon DEF WriteType
  <2>3. tip2 \in Nat
    BY Zenon DEF WriteType, StoreType
  <2>4. m = [s EXCEPT !.link = link2, !.tip = tip2]
    BY <1>2, Zenon DEF MappingWritten, set_pending_id_mappings, replays2
  <2> HIDE DEF link2, tip2
  <2> QED BY <1>2, <2>2, <2>3, <2>4, Zenon DEF StoreType
<1> QED BY <1>1, <1>2, Zenon

\* The second write, on top of the first.
LEMMA FfsFields ==
  ASSUME NEW s \in StoreType, NEW w \in WriteType
  PROVE  LET f == FfsWritten(s, w)
         IN  /\ f \in StoreType /\ f.meta = s.meta /\ f.marker = s.marker
             /\ f.applied = s.applied \cup {w.ck} /\ f.held = s.held
             /\ f.link.ck = IF w.linked THEN s.link.ck ELSE w.ck
<1> DEFINE m == MappingWritten(s, w)
           f == FfsWritten(s, w)
<1>1. /\ m \in StoreType /\ m.meta = s.meta /\ m.marker = s.marker
      /\ m.applied = s.applied /\ m.held = s.held
      /\ m.link.ck = IF w.linked THEN s.link.ck ELSE w.ck
  BY MappingFields, Zenon
<1>2. f = [m EXCEPT !.applied = m.applied \cup {w.ck}]
  BY Zenon DEF FfsWritten, apply_realm_ffs_updates
<1> HIDE DEF m
<1> QED BY <1>1, <1>2 DEF StoreType, WriteType

\* The third write, on top of the other two.
LEMMA MarkerFields ==
  ASSUME NEW s \in StoreType, NEW w \in WriteType
  PROVE  LET k == MarkerWritten(s, w)
         IN  /\ k \in StoreType /\ k.meta = IF s.meta >= w.ck THEN s.meta ELSE w.ck
             /\ k.marker = IF s.marker >= w.ck THEN s.marker ELSE w.ck
             /\ k.applied = s.applied \cup {w.ck} /\ k.held = s.held /\ k.link.ck = 0
<1> DEFINE f == FfsWritten(s, w)
           m == persist_checkpoint_metadata_range(f, w.ck)
           k == MarkerWritten(s, w)
<1>1. w.ck \in Nat
  BY Zenon DEF WriteType
<1>2. /\ f \in StoreType /\ f.meta = s.meta /\ f.marker = s.marker
      /\ f.applied = s.applied \cup {w.ck} /\ f.held = s.held
  BY FfsFields, Zenon
<1> HIDE DEF f
<1>3. /\ m \in StoreType /\ m.meta = IF s.meta >= w.ck THEN s.meta ELSE w.ck
      /\ m.marker = s.marker /\ m.applied = s.applied \cup {w.ck} /\ m.held = s.held
  BY <1>1, <1>2, MetadataFields
<1>4. k = [m EXCEPT !.marker = Max({m.marker, w.ck}), !.link = NoLink]
  BY Zenon DEF MarkerWritten, set_latest_checkpoint_id, f
<1> HIDE DEF m
<1>5. m.marker \in Nat
  BY <1>3, Zenon DEF StoreType
<1>6. Max({m.marker, w.ck}) = IF s.marker >= w.ck THEN s.marker ELSE w.ck
  BY <1>1, <1>3, <1>5, MaxOfTwo
<1>7. NoLink \in [ck : Nat, file : BOOLEAN] /\ NoLink.ck = 0
  BY Zenon DEF NoLink
<1> QED BY <1>1, <1>3, <1>4, <1>5, <1>6, <1>7, Zenon DEF StoreType

-----------------------------------------------------------------------------
(* The memory's updates, field by field.                                   *)

\* A proposer that retries keeps all but its place.
LEMMA RetryFields ==
  ASSUME NEW p \in ProcType
  PROVE  LET q == [p EXCEPT !.pc = "loop"]
         IN  /\ q \in ProcType /\ q.pc = "loop" /\ q.tree = p.tree
             /\ q.last_committed = p.last_committed
BY Zenon DEF ProcType

\* One that resumes has moved to the head.
LEMMA ResumeFields ==
  ASSUME NEW p \in ProcType, NEW c \in Nat
  PROVE  LET q == [p EXCEPT !.pc = "loop", !.last_committed = c]
         IN  /\ q \in ProcType /\ q.pc = "loop" /\ q.tree = p.tree
             /\ q.last_committed = c
BY Zenon DEF ProcType

\* One that waits remembers the head it waits from.
LEMMA WaitFields ==
  ASSUME NEW p \in ProcType, NEW c \in Nat
  PROVE  LET q == [p EXCEPT !.pc = "await", !.baseline = c]
         IN  /\ q \in ProcType /\ q.pc = "await" /\ q.tree = p.tree
             /\ q.last_committed = p.last_committed /\ q.sealed = p.sealed
BY Zenon DEF ProcType

\* A block starts from the head, with its identifiers free.
LEMMA BlockFields ==
  ASSUME NEW p \in ProcType, NEW c \in Nat
  PROVE  LET q == [p EXCEPT !.last_committed = c, !.ids = "free", !.sealed = 0]
         IN  /\ q \in ProcType /\ q.last_committed = c /\ q.pc = p.pc
             /\ q.tree = p.tree /\ q.alive = p.alive /\ q.start = p.start
BY ZenonT(30) DEF ProcType

\* A baseline that moves changes nothing else.
LEMMA BaselineFields ==
  ASSUME NEW p \in ProcType, NEW c \in Nat
  PROVE  LET q == [p EXCEPT !.baseline = c]
         IN  /\ q \in ProcType /\ q.pc = p.pc /\ q.tree = p.tree /\ q.sealed = p.sealed
             /\ q.last_committed = p.last_committed
BY Zenon DEF ProcType

-----------------------------------------------------------------------------
(* Growth of the chain and of the proposals keeps a validator's state.     *)

\* A committed checkpoint is the newest root change or none.
LEMMA LocatedGrows ==
  ASSUME NEW ch \in Seq(Nat), Len(ch) >= 1, NEW x \in Nat, NEW ch2 \in Seq(Nat),
         Extends(ch2, ch, x), Located(ch)
  PROVE  Located(ch2)
<1> DEFINE T == Transitions(ch)
           n == Len(ch)
<1>1. Transitions(ch2) = T \cup (IF x = ch[n] THEN {} ELSE {n + 1})
  BY ChainGrows, Zenon
<1>2. /\ Len(ch2) = n + 1 /\ n \in Nat /\ ch2[n + 1] = x
      /\ \A t \in T : t \in Nat /\ t <= n /\ ch2[t] = ch[t]
  BY DEF Extends, Transitions
<1>3. ASSUME NEW l \in 0 .. n + 1, NEW k \in Transitions(ch2), l < k
      PROVE  \E m \in Transitions(ch2) :
               l < m /\ \A t \in Transitions(ch2) : l < t => m <= t
  <2>1. CASE \E t \in T : l < t
    <3>1. l \in 0 .. n
      BY <1>2, <2>1
    <3>2. PICK m \in T : l < m /\ \A t \in T : l < t => m <= t
      BY <2>1, <3>1, Zenon DEF Located
    <3> HIDE DEF T
    <3> QED BY <1>1, <1>2, <3>2
  <2>2. CASE ~ \E t \in T : l < t
    <3> HIDE DEF T
    <3>1. k = n + 1 /\ k \in Transitions(ch2)
      BY <1>1, <1>3, <2>2, Zenon
    <3> QED BY <1>1, <1>3, <2>2, <3>1
  <2> QED BY <2>1, <2>2, Zenon
<1>4. ASSUME Transitions(ch2) # {}
      PROVE  \E m \in Transitions(ch2) :
               ch2[m] = ch2[n + 1] /\ \A t \in Transitions(ch2) : t <= m
  <2>1. CASE x = ch[n]
    <3>1. PICK m \in T : ch[m] = ch[n] /\ \A t \in T : t <= m
      BY <1>1, <1>4, <2>1, Zenon DEF Located
    <3> HIDE DEF T
    <3> QED BY <1>1, <1>2, <2>1, <3>1, Zenon
  <2>2. CASE x # ch[n]
    <3> HIDE DEF T
    <3>1. n + 1 \in Transitions(ch2) /\ \A t \in Transitions(ch2) : t <= n + 1
      BY <1>1, <1>2, <2>2
    <3> QED BY <3>1, Zenon
  <2> QED BY <2>1, <2>2, Zenon
<1> QED BY <1>2, <1>3, <1>4, Zenon DEF Located

\* A committed checkpoint disturbs no validator's state.
LEMMA ChainGrowthKeeps ==
  ASSUME NEW ch \in Seq(Nat), Len(ch) >= 1, NEW x \in Nat, NEW ch2 \in Seq(Nat),
         Extends(ch2, ch, x), NEW s, NEW p, NEW ps, NEW n,
         Sound(s, ch, n), Fits(p, s, ch, ps)
  PROVE  /\ Sound(s, ch2, n) /\ Fits(p, s, ch2, ps)
         /\ Covered(p, s, ch) => Covered(p, s, ch2)
<1>1. /\ Len(ch2) = Len(ch) + 1 /\ Len(ch) \in Nat
      /\ \A i \in 1 .. Len(ch) : ch2[i] = ch[i]
      /\ \A t \in Transitions(ch) : t \in Transitions(ch2)
      /\ \A t \in Transitions(ch2) : t \in Transitions(ch) \/ t = Len(ch) + 1
  BY ChainGrows DEF Extends
<1>2. /\ s.marker \in Nat /\ s.meta \in Nat /\ p.last_committed \in Nat
      /\ s \in StoreType /\ p \in ProcType
  <2>1. s \in StoreType /\ p \in ProcType
    BY Zenon DEF Sound, Fits
  <2> QED BY <2>1, Zenon DEF StoreType, ProcType
<1>3. \A c \in Nat : c <= Len(ch) /\ Loads(s, ch, c) => Loads(s, ch2, c)
  BY <1>1 DEF Loads
<1>4. Sound(s, ch2, n)
  <2>1. s.meta <= Len(ch2)
    <3>1. s.meta <= Len(ch)
      BY Zenon DEF Sound
    <3> QED BY <1>1, <1>2, <3>1
  <2>2. s.applied \subseteq Transitions(ch2)
    BY <1>1, Zenon DEF Sound
  <2>3. s.link.ck # 0 => s.link.ck \in Transitions(ch2) /\ s.marker < s.link.ck
    BY <1>1, Zenon DEF Sound
  <2> QED BY <2>1, <2>2, <2>3, Zenon DEF Sound
<1>5. s.marker <= Len(ch) /\ 1 <= s.marker
  <2>1. 1 <= s.marker /\ s.marker <= s.meta /\ s.meta <= Len(ch)
    BY Zenon DEF Sound
  <2> QED BY <1>1, <1>2, <2>1
<1>6. Fits(p, s, ch2, ps)
  <2>1. p.pc # "down" => p.last_committed <= Len(ch) /\ p.last_committed \in 1 .. Len(ch)
    <3>1. p.pc # "down" => s.marker <= p.last_committed /\ p.last_committed <= Len(ch)
      BY Zenon DEF Fits
    <3> QED BY <1>1, <1>2, <1>5, <3>1
  <2>2. p.pc # "down" => p.last_committed <= Len(ch2)
    BY <1>1, <1>2, <2>1
  <2>3. p.pc \notin {"down", "loop"} => Loads(s, ch2, p.last_committed)
    BY <1>2, <1>3, <2>1 DEF Fits
  <2>4. p.pc \in {"votes", "await"} => ch2[p.last_committed] = ps[p.sealed].old
    <3>1. p.pc \in {"votes", "await"} =>
            p.pc # "down" /\ ch[p.last_committed] = ps[p.sealed].old
      BY Zenon DEF Fits
    <3> QED BY <1>1, <2>1, <3>1, Zenon
  <2> QED BY <1>2, <2>2, <2>3, <2>4, Zenon DEF Fits
<1>7. Covered(p, s, ch) => Covered(p, s, ch2)
  BY <1>2, <1>3, <1>5, Zenon DEF Covered, Fits
<1> QED BY <1>4, <1>6, <1>7, Zenon

\* A new proposal disturbs nobody else's state.
LEMMA ProposalGrowthKeeps ==
  ASSUME NEW ps \in Seq(ProposalType), NEW x, NEW ps2 \in Seq(ProposalType),
         Extends(ps2, ps, x), NEW ch
  PROVE  /\ \A s : Sound(s, ch, Len(ps)) => Sound(s, ch, Len(ps2))
         /\ \A p, s : Fits(p, s, ch, ps) => Fits(p, s, ch, ps2)
<1>1. /\ Len(ps2) = Len(ps) + 1 /\ Len(ps) \in Nat
      /\ \A r \in 1 .. Len(ps) : ps2[r] = ps[r]
  BY DEF Extends
<1>2. ASSUME NEW s, Sound(s, ch, Len(ps)) PROVE Sound(s, ch, Len(ps2))
  BY <1>1, <1>2 DEF Sound
<1>3. ASSUME NEW s, NEW p, Fits(p, s, ch, ps) PROVE Fits(p, s, ch, ps2)
  <2>1. p.tree \in Nat
    BY <1>3, Zenon DEF Fits, ProcType
  <2>2. p.tree <= Len(ps2)
    BY <1>1, <1>3, <2>1 DEF Fits
  <2>3. p.pc \in {"votes", "await"} =>
          p.sealed \in 1 .. Len(ps2) /\ ch[p.last_committed] = ps2[p.sealed].old
    BY <1>1, <1>3 DEF Fits
  <2> QED BY <1>3, <2>2, <2>3, Zenon DEF Fits
<1> QED BY <1>2, <1>3, Zenon

-----------------------------------------------------------------------------
(* The Coordinator: admission, generations and checkpoints.                *)

\* An update is accepted only while the block being processed, if there is
\* one, leaves the Realm alone.
LEMMA AcceptStep ==
  ASSUME HistoryInv, AdmitInv, NEW r \in 1 .. Len(proposals), Admissible(r),
         NEW item \in {r, -1}, Accept(r, item), UNCHANGED proposals
  PROVE  AdmitInv'
<1>1. /\ OldRoot(r) = chain[Latest] /\ batch.gathering = 0
      /\ ~ (in_flight.old = OldRoot(r)
            /\ Latest < in_flight.at + GUTA_IN_FLIGHT_WINDOW_CHECKPOINTS)
  BY Zenon DEF Admissible, StaleOldRoot, InFlight, Claimed
<1>2. /\ batch' = [batch EXCEPT !.gathering = item]
      /\ in_flight' = [old |-> OldRoot(r), at |-> Latest]
      /\ chain' = chain /\ proposals' = proposals
  BY Zenon DEF Accept
<1>3. Latest \in Nat /\ Len(proposals) \in Nat /\ Latest' = Latest
  BY <1>2 DEF HistoryInv, ChainOK, ProposalsOK, Latest
<1>4. batch.processing \in Int /\ in_flight.at \in Int
  BY <1>3 DEF AdmitInv
<1>5. ~ (batch.processing > 0)
  BY <1>1, <1>3, <1>4, WindowAssumption DEF AdmitInv
<1>6. /\ batch' \in [gathering : -1 .. Len(proposals), processing : -1 .. Len(proposals)]
      /\ batch'.processing = batch.processing /\ batch'.gathering = item
  BY <1>2, <1>3 DEF AdmitInv
<1>7. OldRoot(r) \in Roots /\ OldRoot(r)' = OldRoot(r)
  <2>1. proposals[r].old \in Nat /\ proposals[r].old < r /\ Len(proposals) <= MaxRoot
    <3>1. proposals[r] \in ProposalType
      BY DEF HistoryInv, ProposalsOK
    <3> QED BY <3>1, Zenon DEF HistoryInv, ProposalsOK, ProposalType
  <2> QED BY <1>2, <1>3, <2>1, BoundAssumption DEF OldRoot, Roots
<1>8. in_flight' \in [old : Roots, at : Int] /\ in_flight'.old = chain[Latest]
      /\ in_flight'.at = Latest
  BY <1>1, <1>2, <1>3, <1>7
<1>9. OldRoot(batch.gathering)' = proposals[item].old
  BY <1>2, <1>6 DEF OldRoot
<1>10. item > 0 => OldRoot(batch.gathering)' = chain[Latest]
  BY <1>1, <1>9 DEF OldRoot
<1> QED BY <1>2, <1>3, <1>4, <1>5, <1>6, <1>8, <1>10 DEF AdmitInv

\* A rotation hands the gathered update to the block being processed.
LEMMA RotateStep ==
  ASSUME HistoryInv, AdmitInv, RotateGeneration PROVE AdmitInv'
<1>1. /\ batch.processing = -1 /\ UNCHANGED <<chain, in_flight, proposals>>
      /\ batch' = [gathering |-> 0, processing |-> Max({batch.gathering, 0})]
  BY Zenon DEF RotateGeneration
<1>2. Latest \in Nat /\ Len(proposals) \in Nat /\ Latest' = Latest
  BY <1>1 DEF HistoryInv, ChainOK, ProposalsOK, Latest
<1>3. batch.gathering \in Int /\ batch.gathering \in -1 .. Len(proposals)
  BY <1>2 DEF AdmitInv
<1>4. Max({batch.gathering, 0}) = IF batch.gathering >= 0 THEN batch.gathering ELSE 0
  BY <1>3, MaxOfTwo
<1>5. /\ batch' \in [gathering : -1 .. Len(proposals), processing : -1 .. Len(proposals)]
      /\ batch'.gathering = 0
      /\ batch'.processing > 0 => batch'.processing = batch.gathering
  BY <1>1, <1>2, <1>3, <1>4
<1>6. OldRoot(batch.processing)' = proposals[batch'.processing].old
  BY <1>1, Zenon DEF OldRoot
<1> QED BY <1>1, <1>2, <1>5, <1>6 DEF AdmitInv, OldRoot

\* A committed checkpoint extends the history by the root that was being
\* processed, which started from the head: no validator is disturbed, and
\* what is gathered still starts from the new head.
LEMMA CommitStep ==
  ASSUME HistoryInv, LocalInv, AdmitInv, CommitCheckpoint
  PROVE  HistoryInv' /\ LocalInv' /\ AdmitInv'
<1> DEFINE x == IF batch.processing = 0 THEN chain[Latest] ELSE batch.processing
<1>1. /\ batch.processing # -1 /\ Latest < MaxCheckpoint
      /\ chain' = Append(chain, x) /\ batch' = [batch EXCEPT !.processing = -1]
      /\ UNCHANGED <<in_flight, proposals, store, proc, gave_up>>
  BY DEF CommitCheckpoint
<1>2. /\ Latest \in Nat /\ Len(proposals) \in Nat /\ Latest = Len(chain)
      /\ chain \in Seq(Nat) /\ 1 <= Len(chain) /\ Latest \in 1 .. Len(chain)
      /\ Latest' = Len(chain')
  BY DEF HistoryInv, ChainOK, ProposalsOK, Latest
<1>3. chain[Latest] \in Nat /\ chain[Latest] <= Len(proposals)
  <2>1. chain[Latest] \in Nat
    BY <1>2
  <2> QED BY <1>2, <2>1, Zenon DEF HistoryInv, ChainOK
<1>4. batch.processing \in -1 .. Len(proposals) /\ batch.gathering \in -1 .. Len(proposals)
  BY Zenon DEF AdmitInv
<1>5. /\ x \in Nat /\ x <= Len(proposals) /\ chain[Latest] <= x
      /\ x # chain[Latest] => x # 0 /\ proposals[x].old = chain[Latest]
  <2>1. CASE batch.processing = 0
    BY <1>2, <1>3, <2>1
  <2>2. CASE batch.processing # 0
    <3>1. batch.processing > 0 /\ batch.processing \in 1 .. Len(proposals)
      BY <1>1, <1>2, <1>4, <2>2
    <3>2. proposals[batch.processing].old = chain[Latest]
      BY <3>1, Zenon DEF AdmitInv, OldRoot
    <3>3. proposals[batch.processing].old < batch.processing
      BY <3>1, Zenon DEF HistoryInv, ProposalsOK
    <3> QED BY <1>2, <1>3, <2>2, <3>1, <3>2, <3>3
  <2> QED BY <2>1, <2>2, Zenon
<1> HIDE DEF x
<1>6. chain' \in Seq(Nat) /\ Extends(chain', chain, x)
  BY <1>1, <1>2, <1>5 DEF Extends
<1>7. /\ Len(chain') = Len(chain) + 1 /\ chain'[Len(chain) + 1] = x
      /\ \A i \in 1 .. Len(chain) : chain'[i] = chain[i]
  BY <1>6, Zenon DEF Extends
<1>8. Transitions(chain') = Transitions(chain)
        \cup (IF x = chain[Latest] THEN {} ELSE {Len(chain) + 1})
  BY <1>2, <1>5, <1>6, ChainGrows
<1>9. ChainOK(chain', proposals)
  <2>1. \A c \in 1 .. Len(chain') : chain'[c] <= Len(proposals)
    BY <1>2, <1>5, <1>7 DEF HistoryInv, ChainOK
  <2>2. ASSUME NEW c \in 1 .. Len(chain'), NEW d \in 1 .. Len(chain'), c <= d
        PROVE  chain'[c] <= chain'[d]
    <3>1. CASE d \in 1 .. Len(chain)
      BY <1>2, <1>7, <2>2, <3>1 DEF HistoryInv, ChainOK
    <3>2. CASE d = Len(chain) + 1 /\ c = d
      BY <1>5, <1>7, <3>2
    <3>3. CASE d = Len(chain) + 1 /\ c \in 1 .. Len(chain)
      <4>1. chain[c] \in Nat /\ chain[c] <= chain[Latest]
        <5>1. chain[c] \in Nat
          BY <1>2, <3>3
        <5> QED BY <1>2, <3>3, <5>1 DEF HistoryInv, ChainOK
      <4> QED BY <1>3, <1>5, <1>7, <3>3, <4>1
    <3> QED BY <1>2, <1>7, <3>1, <3>2, <3>3
  <2>3. ASSUME NEW c \in Transitions(chain')
        PROVE  chain'[c] # 0 /\ proposals[chain'[c]].old = chain'[c - 1]
    <3>1. CASE c \in Transitions(chain)
      <4>1. c \in 1 .. Len(chain) /\ c - 1 \in 1 .. Len(chain)
        BY <1>2, <3>1 DEF Transitions
      <4> QED BY <1>7, <3>1, <4>1, Zenon DEF HistoryInv, ChainOK
    <3>2. CASE c = Len(chain) + 1 /\ x # chain[Latest]
      <4>1. c - 1 = Len(chain)
        BY <1>2, <3>2
      <4> QED BY <1>2, <1>5, <1>7, <3>2, <4>1
    <3> QED BY <1>8, <3>1, <3>2
  <2>4. 1 <= Len(chain') /\ Len(chain') <= MaxCheckpoint
    BY <1>1, <1>2, <1>7, BoundAssumption
  <2> QED BY <1>6, <2>1, <2>2, <2>3, <2>4, Zenon DEF ChainOK
<1>10. HistoryInv'
  <2>1. Located(chain')
    BY <1>2, <1>5, <1>6, LocatedGrows, Zenon DEF HistoryInv
  <2> QED BY <1>1, <1>9, <2>1 DEF HistoryInv
<1>11. LocalInv'
  <2>1. ASSUME NEW u \in Validators
        PROVE  /\ Sound(store[u], chain', Len(proposals))
               /\ Fits(proc[u], store[u], chain', proposals)
               /\ u \notin gave_up => Covered(proc[u], store[u], chain')
    <3>1. /\ Sound(store[u], chain, Len(proposals))
          /\ Fits(proc[u], store[u], chain, proposals)
          /\ u \notin gave_up => Covered(proc[u], store[u], chain)
      BY DEF LocalInv
    <3> QED BY <1>2, <1>5, <1>6, <3>1, ChainGrowthKeeps
  <2> QED BY <1>1, <2>1 DEF LocalInv
<1>12. AdmitInv'
  <2>1. /\ batch' \in [gathering : -1 .. Len(proposals), processing : -1 .. Len(proposals)]
        /\ batch'.processing = -1 /\ batch'.gathering = batch.gathering
    BY <1>1, <1>2 DEF AdmitInv
  <2>2. in_flight \in [old : Roots, at : Int] /\ in_flight.at <= Latest
    BY Zenon DEF AdmitInv
  <2>3. in_flight'.at <= Latest' /\ Latest' = Latest + 1 /\ chain'[Latest'] = x
    BY <1>1, <1>2, <1>7, <2>2
  <2>4. ASSUME batch'.gathering > 0
        PROVE  /\ OldRoot(batch.gathering)' = chain'[Latest']
               /\ in_flight'.old = chain'[Latest'] /\ Latest' <= in_flight'.at + 1
    <3>1. batch.gathering > 0 /\ batch.processing = 0
      BY <1>1, <1>2, <1>4, <2>1, <2>4 DEF AdmitInv
    <3>2. /\ OldRoot(batch.gathering) = chain[Latest]
          /\ in_flight.old = chain[Latest] /\ in_flight.at = Latest
      BY <3>1, Zenon DEF AdmitInv
    <3>3. x = chain[Latest]
      BY <3>1, Zenon DEF x
    <3>4. OldRoot(batch.gathering)' = OldRoot(batch.gathering)
      BY <1>1, <2>1 DEF OldRoot
    <3> QED BY <1>1, <1>2, <2>3, <3>2, <3>3, <3>4
  <2> QED BY <1>1, <2>1, <2>2, <2>3, <2>4 DEF AdmitInv
<1> QED BY <1>10, <1>11, <1>12, Zenon

\* Only what was being processed becomes a new root.
LEMMA CommitRoots ==
  ASSUME HistoryInv, AdmitInv, CommitCheckpoint
  PROVE  \A c \in Transitions(chain') :
           \/ c \in Transitions(chain) /\ chain'[c] = chain[c]
           \/ batch.processing > 0 /\ chain'[c] = batch.processing
<1> DEFINE x == IF batch.processing = 0 THEN chain[Latest] ELSE batch.processing
<1>1. batch.processing # -1 /\ chain' = Append(chain, x)
  BY Zenon DEF CommitCheckpoint
<1>2. /\ Latest = Len(chain) /\ Len(proposals) \in Nat
      /\ chain \in Seq(Nat) /\ 1 <= Len(chain) /\ Latest \in 1 .. Len(chain)
  BY DEF HistoryInv, ChainOK, ProposalsOK, Latest
<1>3. batch.processing \in -1 .. Len(proposals)
  BY Zenon DEF AdmitInv
<1>4. chain[Latest] \in Nat /\ x \in Nat
  BY <1>1, <1>2, <1>3
<1>5. x # chain[Latest] => batch.processing > 0 /\ x = batch.processing
  BY <1>1, <1>2, <1>3
<1> HIDE DEF x
<1>6. chain' \in Seq(Nat) /\ Extends(chain', chain, x)
  BY <1>1, <1>2, <1>4 DEF Extends
<1>7. Transitions(chain') = Transitions(chain)
        \cup (IF x = chain[Latest] THEN {} ELSE {Len(chain) + 1})
  BY <1>2, <1>4, <1>6, ChainGrows, Zenon
<1>8. \A c \in Transitions(chain) : c \in 1 .. Len(chain)
  BY <1>2 DEF Transitions
<1> QED BY <1>5, <1>6, <1>7, <1>8, Zenon DEF Extends

-----------------------------------------------------------------------------
(* The stores and the memory a validator may arrive at.                    *)

\* A store validator v may arrive at.
StoreArrives(v, s) ==
  /\ Sound(s, chain, Len(proposals))
  /\ store[v].held \subseteq s.held
  /\ \A c \in s.applied \ store[v].applied :
       \A t \in Transitions(chain) : t < c => t \in store[v].applied

\* The new store and memory of validator v, with the proposals ps.
Arrives(v, s, p, ps) ==
  /\ Fits(p, s, chain, ps)
  /\ v \notin gave_up' => Covered(p, s, chain)

LocalMove(v) ==
  \E s, p : /\ SetStore(v, s) /\ SetProc(v, p)
            /\ StoreArrives(v, s) /\ Arrives(v, s, p, proposals)
            /\ p.pc = "await" =>
                 /\ p.sealed = proc[v].sealed
                 /\ \/ proc[v].pc = "await"
                    \/ proc[v].pc = "votes" /\ votes_meet_wait(p.sealed, v)

\* Memory p and store s a recovery may start from.
Recoverable(v, s, p) ==
  /\ StoreArrives(v, s)
  /\ p \in ProcType /\ p.tree <= Len(proposals)
  /\ s.marker <= p.last_committed /\ p.last_committed <= Len(chain)
  /\ s.link.ck # 0 => p.last_committed < s.link.ck
  /\ v \notin gave_up' => /\ Loads(s, chain, s.marker)
                          /\ Loads(s, chain, p.last_committed)

\* Store s a commit w may start from: every root change below it is applied.
Prepared(v, s, w) ==
  /\ StoreArrives(v, s) /\ s.applied = store[v].applied
  /\ w \in WriteType /\ w.ck \in Transitions(chain) /\ s.marker < w.ck
  /\ \A t \in Transitions(chain) : t < w.ck => t \in s.applied

-----------------------------------------------------------------------------
\* A process that ends leaves a store it can be started from.
LEMMA ExitMove ==
  ASSUME NEW v \in Validators, NEW s, StoreArrives(v, s),
         v \notin gave_up' => Loads(s, chain, s.marker), ProposalsOK(proposals),
         Exit(v, s)
  PROVE  LocalMove(v)
<1>1. Len(proposals) \in Nat
  BY DEF ProposalsOK
<1>2. Stopped \in ProcType /\ Stopped.tree = 0 /\ Stopped.pc = "down"
      /\ Stopped.last_committed = 0
  BY Zenon DEF Stopped, ProcType
<1>3. Fits(Stopped, s, chain, proposals)
  BY <1>1, <1>2 DEF Fits
<1>4. Arrives(v, s, Stopped, proposals)
  BY <1>2, <1>3, Zenon DEF Arrives, Covered
<1> QED BY <1>2, <1>4, Zenon DEF LocalMove, Exit

\* A running process that waits for no votes and no inclusion, and whose
\* last committed checkpoint is the marker.
LEMMA MarkerMove ==
  ASSUME NEW v \in Validators, NEW s, NEW p, SetStore(v, s), SetProc(v, p),
         StoreArrives(v, s), s.link.ck = 0,
         p \in ProcType, p.pc \in {"boot", "catchup", "loop"}, p.tree <= Len(proposals),
         s.marker = p.last_committed, p.last_committed <= Len(chain),
         p.pc # "loop" \/ v \notin gave_up' => Loads(s, chain, p.last_committed)
  PROVE  LocalMove(v)
<1>1. p.last_committed \in Nat
  BY Zenon DEF ProcType
<1>2. Fits(p, s, chain, proposals)
  BY <1>1 DEF Fits
<1>3. Arrives(v, s, p, proposals)
  BY <1>2, Zenon DEF Arrives, Covered
<1> QED BY <1>3 DEF LocalMove

\* A failed recovery ends the process or returns to the loop.
LEMMA FailedMove ==
  ASSUME NEW v \in Validators, NEW s, NEW p, Recoverable(v, s, p),
         ProposalsOK(proposals), RecoveryFailed(v, p, s)
  PROVE  LocalMove(v)
<1>1. CASE p.pc = "boot"
  BY <1>1, ExitMove DEF RecoveryFailed, Recoverable
<1>2. CASE p.pc # "boot"
  <2> DEFINE q == [p EXCEPT !.pc = "loop", !.alive = FALSE, !.check = "Ready",
                            !.baseline = 0]
  <2>1. SetProc(v, q) /\ SetStore(v, s)
    BY <1>2, Zenon DEF RecoveryFailed
  <2>2. /\ q \in ProcType /\ q.pc = "loop" /\ q.tree = p.tree
        /\ q.last_committed = p.last_committed
    BY Zenon DEF Recoverable, ProcType
  <2> HIDE DEF q
  <2>3. Fits(q, s, chain, proposals)
    BY <2>2 DEF Fits, Recoverable
  <2>4. Arrives(v, s, q, proposals)
    BY <2>2, <2>3, Zenon DEF Arrives, Covered, Recoverable
  <2> QED BY <2>1, <2>2, <2>4 DEF LocalMove, Recoverable
<1> QED BY <1>1, <1>2, Zenon

\* A fatal error enters the catch-up only with the subtree of the last
\* committed checkpoint loaded.
LEMMA CatchupMove ==
  ASSUME NEW v \in Validators, NEW s, NEW p, Recoverable(v, s, p), HistoryInv,
         run_init_catchup(v, p, s)
  PROVE  LocalMove(v)
<1> DEFINE entered == [p EXCEPT !.pc = "catchup", !.alive = FALSE,
                                !.start = chain[p.last_committed],
                                !.check = get_database_check_state(s, chain),
                                !.baseline = Latest]
<1>1. ProposalsOK(proposals) /\ chain \in Seq(Nat)
  BY Zenon DEF HistoryInv, ChainOK
<1>2. p.last_committed \in 1 .. Len(chain)
  BY <1>1 DEF Recoverable, StoreArrives, Sound, StoreType, ProcType
<1>3. chain[p.last_committed] \in Nat /\ Latest \in Nat
  BY <1>1, <1>2 DEF Latest
<1>4. get_database_check_state(s, chain) \in {"Ready", "NeedsRecovery", "Refused"}
  BY Zenon DEF get_database_check_state
<1>5. /\ entered \in ProcType /\ entered.pc = "catchup" /\ entered.tree = p.tree
      /\ entered.last_committed = p.last_committed
  BY <1>3, <1>4, Zenon DEF Recoverable, ProcType
<1>6. \/ RecoveryFailed(v, p, s)
      \/ RecoveryFailed(v, entered, s)
      \/ Loads(s, chain, p.last_committed) /\ SetProc(v, entered) /\ SetStore(v, s)
  BY DEF run_init_catchup
<1> HIDE DEF entered
<1>7. CASE RecoveryFailed(v, p, s)
  BY <1>1, <1>7, FailedMove, Zenon
<1>8. CASE RecoveryFailed(v, entered, s)
  <2>1. Recoverable(v, s, entered)
    BY <1>5, Zenon DEF Recoverable
  <2> QED BY <1>1, <1>8, <2>1, FailedMove
<1>9. CASE Loads(s, chain, p.last_committed) /\ SetProc(v, entered) /\ SetStore(v, s)
  <2>1. Fits(entered, s, chain, proposals)
    BY <1>5, <1>9 DEF Fits, Recoverable
  <2>2. Arrives(v, s, entered, proposals)
    BY <1>5, <2>1 DEF Arrives, Covered, Recoverable
  <2> QED BY <1>5, <1>9, <2>2, Zenon DEF LocalMove, Recoverable
<1> QED BY <1>6, <1>7, <1>8, <1>9

-----------------------------------------------------------------------------
(* Commits.                                                                *)

\* Where the marker is below a commit and everything below the commit is
\* applied, what the marker covers is.
LEMMA PreparedLoads ==
  ASSUME NEW v \in Validators, NEW s, NEW w, Prepared(v, s, w), NEW s2 \in StoreType,
         s.applied \subseteq s2.applied, s2.marker = s.marker
  PROVE  Loads(s2, chain, s2.marker)
<1>1. s.marker \in Nat /\ w.ck \in Nat
  BY DEF Prepared, StoreArrives, Sound, StoreType, WriteType
<1>2. \A t \in Transitions(chain) : t \in Int
  BY DEF Transitions
<1>3. \A t \in Transitions(chain) : t <= s.marker => t < w.ck
  BY <1>1, <1>2 DEF Prepared
<1> QED BY <1>3, Zenon DEF Loads, Prepared

\* A crash between the writes of a commit leaves a store that fits.
LEMMA CutMove ==
  ASSUME NEW v \in Validators, NEW s, NEW w, Prepared(v, s, w),
         ProposalsOK(proposals), CommitCut(v, s, w)
  PROVE  LocalMove(v)
<1>0. s \in StoreType /\ w \in WriteType /\ w.ck # 0
  BY DEF Prepared, StoreArrives, Sound, Transitions
<1>1. PICK cut \in {s, MappingWritten(s, w), FfsWritten(s, w)} : Exit(v, cut)
  BY DEF CommitCut
<1>2. /\ cut \in StoreType /\ cut.meta = s.meta /\ cut.marker = s.marker
      /\ cut.applied \in {s.applied, s.applied \cup {w.ck}} /\ cut.held = s.held
      /\ cut.link.ck \in {s.link.ck, w.ck}
  <2>1. CASE cut = s
    BY <1>0, <2>1
  <2>2. CASE cut = MappingWritten(s, w)
    BY <1>0, <2>2, MappingFields, Zenon
  <2>3. CASE cut = FfsWritten(s, w)
    BY <1>0, <2>3, FfsFields
  <2> QED BY <1>1, <2>1, <2>2, <2>3
<1>3. Sound(cut, chain, Len(proposals))
  BY <1>2 DEF Sound, Prepared, StoreArrives
<1>4. StoreArrives(v, cut)
  BY <1>2, <1>3, Zenon DEF StoreArrives, Prepared
<1>5. Loads(cut, chain, cut.marker)
  BY <1>2, PreparedLoads
<1> QED BY <1>1, <1>4, <1>5, ExitMove

\* A finished commit of checkpoint w.ck.
LEMMA DoneStore ==
  ASSUME NEW v \in Validators, NEW s, NEW w, Prepared(v, s, w), HistoryInv,
         NEW k, k = MarkerWritten(s, w)
  PROVE  /\ StoreArrives(v, k) /\ k.marker = w.ck /\ k.link.ck = 0
         /\ Loads(k, chain, w.ck)
<1>1. /\ s \in StoreType /\ w \in WriteType /\ w.ck \in Nat
      /\ s.marker \in Nat /\ s.meta \in Nat
  BY Zenon DEF Prepared, StoreArrives, Sound, StoreType, WriteType
<1>2. /\ k \in StoreType /\ k.meta = IF s.meta >= w.ck THEN s.meta ELSE w.ck
      /\ k.marker = IF s.marker >= w.ck THEN s.marker ELSE w.ck
      /\ k.applied = s.applied \cup {w.ck} /\ k.held = s.held /\ k.link.ck = 0
  BY <1>1, MarkerFields
<1>3. k.marker = w.ck
  BY <1>1, <1>2 DEF Prepared
<1>4. w.ck \in 2 .. Len(chain) /\ Len(chain) \in Nat
  BY DEF Prepared, Transitions, HistoryInv, ChainOK
<1>5. 1 <= k.marker /\ k.marker <= k.meta /\ k.meta <= Len(chain)
  BY <1>1, <1>2, <1>3, <1>4 DEF Prepared, StoreArrives, Sound
<1>6. Sound(k, chain, Len(proposals))
  BY <1>2, <1>5, Zenon DEF Sound, Prepared, StoreArrives
<1>7. StoreArrives(v, k)
  BY <1>2, <1>6, Zenon DEF StoreArrives, Prepared
<1>8. Loads(k, chain, w.ck)
  <2> SUFFICES ASSUME NEW t \in Transitions(chain), t <= w.ck PROVE t \in k.applied
    BY Zenon DEF Loads
  <2>1. t = w.ck \/ t < w.ck
    BY <1>1 DEF Transitions
  <2> QED BY <1>2, <2>1, Zenon DEF Prepared
<1> QED BY <1>2, <1>3, <1>7, <1>8

\* The invariant's facts about one validator.
LEMMA Here ==
  ASSUME HistoryInv, LocalInv, NEW v \in Validators
  PROVE  /\ chain \in Seq(Nat) /\ Latest \in Nat /\ Latest = Len(chain) /\ 1 <= Latest
         /\ ProposalsOK(proposals) /\ Len(proposals) \in Nat
         /\ Sound(store[v], chain, Len(proposals))
         /\ Fits(proc[v], store[v], chain, proposals)
         /\ v \notin gave_up => Covered(proc[v], store[v], chain)
         /\ store[v] \in StoreType /\ proc[v] \in ProcType
         /\ StoreArrives(v, store[v])
<1>1. Sound(store[v], chain, Len(proposals))
  BY DEF LocalInv
<1>2. StoreArrives(v, store[v])
  BY <1>1, Zenon DEF StoreArrives
<1>3. chain \in Seq(Nat) /\ Latest \in Nat /\ Latest = Len(chain) /\ 1 <= Latest
  BY DEF HistoryInv, ChainOK, Latest
<1>4. ProposalsOK(proposals) /\ Len(proposals) \in Nat
  BY DEF HistoryInv, ProposalsOK
<1> QED BY <1>1, <1>2, <1>3, <1>4, Zenon DEF LocalInv

\* A running process has committed at least what its marker says.
LEMMA Bounds ==
  ASSUME HistoryInv, LocalInv, NEW v \in Validators, Up(v)
  PROVE  /\ store[v].marker \in Nat /\ proc[v].last_committed \in 1 .. Len(chain)
         /\ store[v].marker <= proc[v].last_committed
<1>1. /\ store[v] \in StoreType /\ proc[v] \in ProcType /\ Len(chain) \in Nat
      /\ Sound(store[v], chain, Len(proposals))
      /\ Fits(proc[v], store[v], chain, proposals)
  BY Here
<1>2. store[v].marker \in Nat /\ proc[v].last_committed \in Nat
  BY <1>1, Zenon DEF StoreType, ProcType
<1>3. 1 <= store[v].marker
  BY <1>1 DEF Sound
<1>4. store[v].marker <= proc[v].last_committed /\ proc[v].last_committed <= Len(chain)
  BY <1>1, Zenon DEF Fits, Up, At
<1> QED BY <1>1, <1>2, <1>3, <1>4

\* Unchanged stores, in the form the operations write them.
LEMMA SameStore ==
  ASSUME LocalInv, NEW v \in Validators, UNCHANGED store PROVE SetStore(v, store[v])
BY Zenon DEF LocalInv, SetStore

\* The same for the memories.
LEMMA SameProc ==
  ASSUME LocalInv, NEW v \in Validators, UNCHANGED proc PROVE SetProc(v, proc[v])
BY Zenon DEF LocalInv, SetProc

\* A recovery's memory can be recovered from again.
LEMMA StillRecoverable ==
  ASSUME HistoryInv, LocalInv, NEW v \in Validators, Up(v), gave_up' = gave_up,
         NEW s, StoreArrives(v, s), s.marker = store[v].marker, s.link = store[v].link,
         s.applied = store[v].applied
  PROVE  Recoverable(v, s, proc[v])
<1>1. /\ Fits(proc[v], store[v], chain, proposals)
      /\ v \notin gave_up => Covered(proc[v], store[v], chain)
  BY Here, Zenon
<1> QED BY <1>1, Zenon DEF Recoverable, Fits, Covered, Loads, Up, At

\* A step that moves the baseline, and of the store at most the metadata.
LEMMA BaselineMove ==
  ASSUME HistoryInv, LocalInv, NEW v \in Validators, gave_up' = gave_up, NEW b \in Nat,
         NEW s, StoreArrives(v, s), s.marker = store[v].marker, s.link = store[v].link,
         s.applied = store[v].applied, s.held = store[v].held,
         SetStore(v, s), SetProc(v, [proc[v] EXCEPT !.baseline = b])
  PROVE  LocalMove(v)
<1> DEFINE q == [proc[v] EXCEPT !.baseline = b]
<1>1. /\ proc[v] \in ProcType /\ Fits(proc[v], store[v], chain, proposals)
      /\ v \notin gave_up => Covered(proc[v], store[v], chain)
  BY Here
<1>2. /\ q \in ProcType /\ q.pc = proc[v].pc /\ q.tree = proc[v].tree
      /\ q.sealed = proc[v].sealed /\ q.last_committed = proc[v].last_committed
  BY <1>1, BaselineFields, Zenon
<1>3. SetProc(v, q)
  OBVIOUS
<1> HIDE DEF q
<1>4. \A x \in Nat : Loads(store[v], chain, x) => Loads(s, chain, x)
  BY DEF Loads
<1>5. q.last_committed \in Nat
  BY <1>2, Zenon DEF ProcType
<1>6. s.marker \in Nat
  BY DEF StoreArrives, Sound, StoreType
<1>7. Fits(q, s, chain, proposals)
  BY <1>1, <1>2, <1>4, <1>5 DEF Fits
<1>8. Arrives(v, s, q, proposals)
  BY <1>1, <1>2, <1>4, <1>5, <1>6, <1>7 DEF Arrives, Covered
<1> QED BY <1>2, <1>3, <1>8 DEF LocalMove

\* Metadata of committed checkpoints may be stored at any time.
LEMMA MetadataArrives ==
  ASSUME HistoryInv, LocalInv, NEW v \in Validators, NEW c \in 0 .. Len(chain)
  PROVE  LET s == persist_checkpoint_metadata_range(store[v], c)
         IN  /\ StoreArrives(v, s) /\ s.marker = store[v].marker
             /\ s.link = store[v].link /\ s.applied = store[v].applied
             /\ s.held = store[v].held
<1> DEFINE s == persist_checkpoint_metadata_range(store[v], c)
<1>0. /\ Sound(store[v], chain, Len(proposals)) /\ store[v] \in StoreType
      /\ Len(chain) \in Nat
  BY Here
<1>1. /\ Sound(store[v], chain, Len(proposals)) /\ store[v] \in StoreType
      /\ store[v].meta \in Nat /\ store[v].marker \in Nat /\ Len(chain) \in Nat
  BY <1>0, Zenon DEF StoreType
<1>2. /\ s \in StoreType /\ s.meta = IF store[v].meta >= c THEN store[v].meta ELSE c
      /\ s.marker = store[v].marker /\ s.applied = store[v].applied
      /\ s.link = store[v].link /\ s.held = store[v].held
  <2>1. c \in Nat /\ store[v] \in StoreType
    BY <1>0
  <2> QED BY <2>1, MetadataFields
<1> HIDE DEF s
<1>3. s.marker <= s.meta /\ s.meta <= Len(chain)
  BY <1>1, <1>2 DEF Sound
<1>4. Sound(s, chain, Len(proposals))
  BY <1>1, <1>2, <1>3 DEF Sound
<1>5. StoreArrives(v, s)
  BY <1>2, <1>4 DEF StoreArrives
<1> QED BY <1>2, <1>5 DEF s

\* Without a root change above the last committed checkpoint there is no
\* interrupted commit, and the marker may move to the head.
LEMMA SyncArrives ==
  ASSUME HistoryInv, LocalInv, NEW v \in Validators, Up(v),
         \A t \in Transitions(chain) : t <= proc[v].last_committed
  PROVE  LET s == sync_to_coordinator_checkpoint_id(store[v], Latest)
         IN  /\ StoreArrives(v, s) /\ s.marker = Latest /\ s.meta = Latest
             /\ s.link.ck = 0 /\ s.held = store[v].held
             /\ Loads(store[v], chain, proc[v].last_committed) => Loads(s, chain, Latest)
<1> DEFINE s == sync_to_coordinator_checkpoint_id(store[v], Latest)
<1>0. store[v] \in StoreType /\ proc[v] \in ProcType
  BY Here, Zenon
<1>1. /\ Sound(store[v], chain, Len(proposals)) /\ store[v] \in StoreType
      /\ Fits(proc[v], store[v], chain, proposals)
      /\ Latest \in Nat /\ 1 <= Latest /\ Latest = Len(chain)
      /\ store[v].meta \in Nat /\ proc[v].last_committed \in Nat
  <2>1. store[v].meta \in Nat /\ proc[v].last_committed \in Nat
    BY <1>0 DEF StoreType, ProcType
  <2> QED BY <1>0, <2>1, Here
<1>2. /\ s \in StoreType
      /\ s.meta = IF store[v].meta >= Latest THEN store[v].meta ELSE Latest
      /\ s.marker = Latest /\ s.applied = store[v].applied
      /\ s.link = store[v].link /\ s.held = store[v].held
  <2>1. store[v] \in StoreType /\ Latest \in Nat
    BY <1>1
  <2> QED BY <2>1, SyncFields
<1> HIDE DEF s
<1>3. store[v].link.ck = 0
  <2>1. ASSUME store[v].link.ck # 0 PROVE FALSE
    <3>1. store[v].link.ck \in Transitions(chain) /\ store[v].link.ck \in Nat
      BY <1>1, <2>1 DEF Sound, StoreType
    <3>2. proc[v].last_committed < store[v].link.ck
      BY <1>1, <2>1, Zenon DEF Fits, Up, At
    <3> QED BY <1>1, <3>1, <3>2
  <2> QED BY <2>1, Zenon
<1>4. s.meta = Latest
  BY <1>1, <1>2 DEF Sound
<1>5. Sound(s, chain, Len(proposals))
  BY <1>1, <1>2, <1>3, <1>4 DEF Sound
<1>6. StoreArrives(v, s)
  BY <1>2, <1>5, Zenon DEF StoreArrives
<1>7. Loads(store[v], chain, proc[v].last_committed) => Loads(s, chain, Latest)
  BY <1>2 DEF Loads
<1> QED BY <1>2, <1>3, <1>4, <1>6, <1>7 DEF s

\* A process that ends outside a commit keeps its store.
LEMMA CrashMove ==
  ASSUME HistoryInv, LocalInv, NEW v \in Validators, Crash(v) PROVE LocalMove(v)
<1>1. Exit(v, store[v]) /\ gave_up' = gave_up
  BY Zenon DEF Crash
<1> QED BY <1>1, Here, ExitMove DEF Covered

\* A start takes the marker for the last committed checkpoint, and has loaded
\* its subtree.
LEMMA BootMove ==
  ASSUME HistoryInv, LocalInv, NEW v \in Validators, Boot(v) PROVE LocalMove(v)
<1> DEFINE p == [Stopped EXCEPT !.pc = "boot",
                                !.check = get_database_check_state(store[v], chain),
                                !.last_committed = store[v].marker,
                                !.start = chain[store[v].marker],
                                !.baseline = Latest]
<1>1. SetProc(v, p) /\ SetStore(v, store[v]) /\ gave_up' = gave_up
  BY SameStore DEF Boot
<1>2. /\ Sound(store[v], chain, Len(proposals)) /\ StoreArrives(v, store[v])
      /\ store[v].marker \in Nat /\ Latest \in Nat /\ Latest = Len(chain)
      /\ chain \in Seq(Nat) /\ Len(proposals) \in Nat
      /\ v \notin gave_up => Covered(proc[v], store[v], chain)
  BY Here, Zenon DEF StoreType
<1>3. store[v].meta \in Nat /\ store[v].marker \in 1 .. Len(chain)
  BY <1>2 DEF Sound, StoreType
<1>4. chain[store[v].marker] \in Nat
  BY <1>2, <1>3
<1>5. get_database_check_state(store[v], chain) \in {"Ready", "NeedsRecovery", "Refused"}
  BY Zenon DEF get_database_check_state
<1>6. p \in ProcType /\ p.pc = "boot" /\ p.last_committed = store[v].marker /\ p.tree = 0
  BY <1>2, <1>4, <1>5, Zenon DEF Stopped, ProcType
<1> HIDE DEF p
<1>7. Loads(store[v], chain, store[v].marker)
  BY DEF Boot, StartAccepted
<1>8. Fits(p, store[v], chain, proposals)
  BY <1>2, <1>3, <1>6, <1>7 DEF Fits, Sound
<1>9. Arrives(v, store[v], p, proposals)
  BY <1>6, <1>7, <1>8, Zenon DEF Arrives, Covered
<1> QED BY <1>1, <1>2, <1>6, <1>9 DEF LocalMove

\* In the loop the marker moves to the head where no root change is missing.
LEMMA SyncToHeadMove ==
  ASSUME HistoryInv, LocalInv, NEW v \in Validators, At(v, "loop"), SyncToHead(v),
         gave_up' = gave_up
  PROVE  LocalMove(v)
<1> DEFINE s == sync_to_coordinator_checkpoint_id(store[v], Latest)
           p == [proc[v] EXCEPT !.last_committed = Latest]
<1>1. SetStore(v, s) /\ SetProc(v, p)
  BY DEF SyncToHead
<1>2. /\ proc[v] \in ProcType /\ Latest \in Nat /\ Latest = Len(chain)
      /\ Fits(proc[v], store[v], chain, proposals)
      /\ v \notin gave_up => Covered(proc[v], store[v], chain)
      /\ chain \in Seq(Nat) /\ proc[v].last_committed \in Nat
  BY Here DEF ProcType
<1>3. \A t \in Transitions(chain) : t <= proc[v].last_committed
  BY <1>2, FirstChange, Zenon DEF SyncToHead
<1>4. /\ StoreArrives(v, s) /\ s.marker = Latest /\ s.link.ck = 0
      /\ Loads(store[v], chain, proc[v].last_committed) => Loads(s, chain, Latest)
  BY <1>3, SyncArrives DEF At, Up
<1>5. p \in ProcType /\ p.pc = "loop" /\ p.last_committed = Latest /\ p.tree = proc[v].tree
  BY <1>2, Zenon DEF ProcType, At
<1> HIDE DEF s, p
<1>6. p.tree <= Len(proposals) /\ p.last_committed <= Len(chain)
  BY <1>2, <1>5 DEF Fits
<1>7. v \notin gave_up' => Loads(s, chain, p.last_committed)
  BY <1>2, <1>4, <1>5 DEF Covered, At
<1> QED BY <1>1, <1>4, <1>5, <1>6, <1>7, MarkerMove, Zenon

\* A root change that is the oldest one above the last committed checkpoint
\* is above the marker.
LEMMA OldestMissing ==
  ASSUME HistoryInv, LocalInv, NEW v \in Validators, Up(v),
         NEW c, c = first_root_change(chain, proc[v].last_committed), c # 0
  PROVE  /\ c \in Transitions(chain) /\ c \in 2 .. Len(chain)
         /\ proc[v].last_committed < c /\ store[v].marker < c
         /\ \A t \in Transitions(chain) : t < c => t <= proc[v].last_committed
<1>1. /\ chain \in Seq(Nat) /\ proc[v] \in ProcType /\ store[v] \in StoreType
      /\ Fits(proc[v], store[v], chain, proposals)
  BY Here
<1>2. proc[v].last_committed \in Nat /\ store[v].marker \in Nat
  BY <1>1, Zenon DEF ProcType, StoreType
<1>3. /\ c \in Transitions(chain) /\ proc[v].last_committed < c
      /\ \A t \in Transitions(chain) : t < c => t <= proc[v].last_committed
  BY <1>2, FirstChange
<1>4. c \in 2 .. Len(chain)
  BY <1>3 DEF Transitions
<1>5. store[v].marker <= proc[v].last_committed
  BY <1>1, Zenon DEF Fits, Up, At
<1> QED BY <1>2, <1>3, <1>4, <1>5

\* A proposal verified on the subtree before its inclusion is ready to be
\* committed.
LEMMA HistoryPrepared ==
  ASSUME HistoryInv, LocalInv, NEW v \in Validators,
         NEW c \in Transitions(chain), store[v].marker < c,
         verify_history_transition(v, c),
         NEW m, StoreArrives(v, m), m.applied = store[v].applied,
         m.marker = store[v].marker
  PROVE  /\ Prepared(v, HistoryStore(m, HistoryWrite(v, c)), HistoryWrite(v, c))
         /\ HistoryWrite(v, c).ck = c
<1> DEFINE w == HistoryWrite(v, c)
<1>1. /\ chain \in Seq(Nat) /\ proc[v] \in ProcType /\ c \in 2 .. Len(chain)
      /\ Len(proposals) \in Nat /\ ChainOK(chain, proposals)
  BY Here DEF Transitions, HistoryInv
<1>2. w \in WriteType /\ w.ck = c
  <2>1. proc[v].sealed \in Nat /\ c \in Nat
    BY <1>1 DEF ProcType
  <2>2. (store[v].link.ck = c) \in BOOLEAN /\ (proc[v].ids = "free") \in BOOLEAN
    BY Zenon
  <2> QED BY <2>1, <2>2, Zenon DEF HistoryWrite, WriteType
<1> HIDE DEF w
<1>4. m \in StoreType
  BY Zenon DEF StoreArrives, Sound
<1>5. chain[c] \in 1 .. Len(proposals) /\ chain[c] \in Nat
  <2>1. chain[c] \in Nat
    BY <1>1
  <2> QED BY <1>1, <2>1 DEF ChainOK
<1> DEFINE kept == save_proposal(m, chain[c])
           s == HistoryStore(m, w)
<1>6. /\ kept \in StoreType /\ kept.meta = m.meta /\ kept.marker = m.marker
      /\ kept.applied = m.applied /\ kept.link = m.link
      /\ kept.held = m.held \cup {chain[c]}
  BY <1>4, <1>5, Zenon DEF save_proposal, StoreType
<1>7. s = kept \/ s = inc_unique_pending_id(kept)
  BY <1>2, Zenon DEF HistoryStore
<1> HIDE DEF kept, s
<1>8. /\ s \in StoreType /\ s.meta = m.meta /\ s.marker = m.marker
      /\ s.applied = m.applied /\ s.link = m.link
      /\ s.held = m.held \cup {chain[c]}
  BY <1>6, <1>7, AllocationFields
<1>9. Sound(s, chain, Len(proposals))
  BY <1>5, <1>8, Zenon DEF Sound, StoreArrives
<1>10. StoreArrives(v, s)
  BY <1>8, <1>9, Zenon DEF StoreArrives
<1>11. \A t \in Transitions(chain) : t < c => t \in s.applied
  <2> SUFFICES ASSUME NEW t \in Transitions(chain), t < c PROVE t \in store[v].applied
    BY <1>8
  <2>1. t <= c - 1
    BY <1>1 DEF Transitions
  <2> QED BY <2>1 DEF verify_history_transition, Loads
<1>12. Prepared(v, s, w)
  BY <1>2, <1>8, <1>10, <1>11 DEF Prepared
<1> QED BY <1>2, <1>12 DEF s, w
=============================================================================
