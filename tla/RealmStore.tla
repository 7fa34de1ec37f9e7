----------------------------- MODULE RealmStore -----------------------------
(* The durable record of one Realm validator, and what its start and its   *)
(* recovery read from it                                                   *)
(* (psy_node_common/src/realm/processor/db/{commit,sync,init}.rs).         *)
(*                                                                         *)
(* A chain is the Coordinator's history of the Realm: chain[c] is the      *)
(* Realm root committed at checkpoint c. A store is a record:              *)
(*   marker   latest_checkpoint_id                                         *)
(*   meta     the newest checkpoint whose metadata rows are stored; its    *)
(*            realm-root row is the Coordinator's root, whether or not the *)
(*            user subtree below it has been written                       *)
(*   applied  the checkpoints whose state updates (FFS) are written        *)
(*   link     the pending id mapped to a checkpoint above the marker:      *)
(*            its checkpoint (0: none), and whether the gatherer file of   *)
(*            that pending id replays to the checkpoint's root             *)
(*   tip      the checkpoint the newest allocated pending id is mapped to  *)
(*            (0: it is not mapped)                                        *)
(*   held     the proposals kept by the proposal backup, named by their    *)
(*            new root                                                     *)
EXTENDS Integers, Sequences, FiniteSetsExt

\* The checkpoints that changed the Realm root.
Transitions(chain) == {c \in 2 .. Len(chain) : chain[c] # chain[c - 1]}

\* rc_get_realm_root_and_last_modified_checkpoint at the Coordinator's head.
LastModified(chain) == Max(Transitions(chain) \cup {1})

\* The oldest root change above the last committed checkpoint; 0 is none.
first_root_change(chain, last_committed) ==
  LET later == {c \in Transitions(chain) : c > last_committed}
  IN  IF later = {} THEN 0 ELSE Min(later)

\* load_global_user_tree_from_db_with_sub_root accepts the subtree at
\* checkpoint c: its leaves hash to the realm-root row stored at c.
Loads(s, chain, c) == \A t \in Transitions(chain) : t <= c => t \in s.applied

NoLink == [ck |-> 0, file |-> FALSE]

GenesisStore ==
  [marker |-> 1, meta |-> 1, applied |-> {}, link |-> NoLink, tip |-> 0,
   held |-> {}]

(***************************************************************************)
(* Start and recovery.                                                     *)
(***************************************************************************)
ensure_latest_pending_within_target(s, target) == s.tip <= target

get_database_check_state(s, chain) ==
  IF LastModified(chain) > s.marker THEN "NeedsRecovery"
  ELSE IF ensure_latest_pending_within_target(s, s.marker) THEN "Ready"
  ELSE "Refused"

\* initial_realm_state, then the tree load of PsyRealmProcessor::new.
StartAccepted(s, chain) ==
  /\ ensure_latest_pending_within_target(s, s.marker)
  /\ Loads(s, chain, s.marker)

\* get_realm_root_from_db reads the newest row, not the one at c.
verify_recovered_root(s, chain, c) == chain[Max({s.meta, c})] = chain[c]

(***************************************************************************)
(* Writes. Metadata rows run ahead of the marker; a commit writes the      *)
(* pending-id mapping, then the state updates, then the marker.            *)
(***************************************************************************)
persist_checkpoint_metadata_range(s, c) == [s EXCEPT !.meta = Max({@, c})]

\* Mutant: the marker moves before the metadata is stored.
MarkerWithoutMetadata(s, c) == [s EXCEPT !.marker = c]

sync_to_coordinator_checkpoint_id(s, c) ==
  [persist_checkpoint_metadata_range(s, c) EXCEPT !.marker = c]

save_proposal(s, root) == [s EXCEPT !.held = @ \cup {root}]

\* The newest allocated pending id is unmapped after an allocation.
inc_unique_pending_id(s) == [s EXCEPT !.tip = 0]

\* newest: the committing pending id is the newest allocated one.
set_pending_id_mappings(s, c, newest, replays) ==
  [s EXCEPT !.link = [ck |-> c, file |-> replays],
            !.tip = IF newest THEN c ELSE @]

apply_realm_ffs_updates(s, c) == [s EXCEPT !.applied = @ \cup {c}]

set_latest_checkpoint_id(s, c) ==
  [persist_checkpoint_metadata_range(s, c) EXCEPT
     !.marker = Max({@, c}), !.link = NoLink]
=============================================================================
