-------------------------- MODULE RollbackContract --------------------------
(***************************************************************************)
(* What executing a rollback plan promises, whatever crashes and retries   *)
(* happen on the way: while the plan is in force the residue (the parts of *)
(* the store that still hold something newer than the target) only         *)
(* shrinks, the checkpoint marker moves once, to the target, when there is *)
(* no residue, and the node runs again only after that.                    *)
(***************************************************************************)
EXTENDS Integers

CONSTANT Parts

VARIABLES mode,      \* "free" while the node owns the store, else "plan"
          marker,    \* latest checkpoint id
          target,    \* checkpoint the plan in force goes back to
          residue    \* parts still to be cleaned

vars == <<mode, marker, target, residue>>

Init == mode = "free" /\ marker \in Nat /\ target = 0 /\ residue = {}

\* The node commits checkpoints one at a time.
Commit ==
  /\ mode = "free"
  /\ marker' = marker + 1
  /\ UNCHANGED <<mode, target, residue>>

Plan ==
  /\ mode = "free"
  /\ mode' = "plan"
  /\ target' \in 0 .. marker
  /\ residue' \in SUBSET Parts
  /\ UNCHANGED marker

Clean ==
  /\ mode = "plan"
  /\ residue' \subseteq residue
  /\ UNCHANGED <<mode, marker, target>>

MoveMarker ==
  /\ mode = "plan"
  /\ residue = {}
  /\ marker' = target
  /\ UNCHANGED <<mode, target, residue>>

Release ==
  /\ mode = "plan"
  /\ residue = {}
  /\ marker = target
  /\ mode' = "free"
  /\ UNCHANGED <<marker, target, residue>>

Next == Commit \/ Plan \/ Clean \/ MoveMarker \/ Release

Spec == Init /\ [][Next]_vars
=============================================================================
