--------------------------- MODULE CheckpointChain ---------------------------
(***************************************************************************)
(* What the Coordinator promises to everyone who reads committed           *)
(* checkpoints: the chain of non-genesis checkpoints only grows, by one    *)
(* checkpoint at a time, each committing a generation (pending id) newer   *)
(* than all before it; a committed entry is never replaced or removed.     *)
(***************************************************************************)
EXTENDS Naturals, Sequences

CONSTANT Id      \* pending ids, numbers

VARIABLE chain  \* chain[c] is the pending id committed as checkpoint c

Init == chain = << >>

Commit(p) ==
  /\ \A i \in 1 .. Len(chain) : chain[i] < p
  /\ chain' = Append(chain, p)

Next == \E p \in Id : Commit(p)

Spec == Init /\ [][Next]_chain
=============================================================================
