-------------------------- MODULE CheckpointBackup --------------------------
(***************************************************************************)
(* The checkpoint tree backup of a processor: a ring file of the last      *)
(* RingCapacity leaf hashes and the archive, bucket files that hold every  *)
(* leaf hash, BucketSize to a file.  The operators are what the manager    *)
(* computes from the files and the database; the state is in the modules   *)
(* that use it.  A file is the sequence of its records; a record never     *)
(* written reads as zero bytes, checkpoint 0 with the zero hash.  The      *)
(* database is the sequence of leaf hashes of the checkpoint tree, leaf c  *)
(* at position c + 1.                                                      *)
(***************************************************************************)
EXTENDS Integers, Sequences, FiniteSets

CONSTANTS RingCapacity,   \* max_checkpoints_to_keep
          StaleAge,       \* STALE_CHECKPOINT_AGE_REALM_TO_COORDINATOR_PROOF
          BucketSize      \* CHECKPOINTS_PER_BUCKET

ASSUME BackupAssumption ==
  RingCapacity \in Nat \ {0} /\ StaleAge \in Nat /\ BucketSize \in Nat \ {0}

ZeroHash == 0
ZeroRecord == [id |-> 0, hash |-> ZeroHash]

\* saturating_sub and the larger of two ids.
SatSub(a, b) == IF a < b THEN 0 ELSE a - b
Larger(a, b) == IF a < b THEN b ELSE a

\* Leaf c of the tree db, the zero hash where there is none.
LeafOf(db, c) == IF c + 1 \in DOMAIN db THEN db[c + 1] ELSE ZeroHash
LeavesBelow(db, c) == [i \in 1 .. c |-> LeafOf(db, i - 1)]

\* A write at record offset n, past the end too.
WriteAt(file, n, record) ==
  [i \in 1 .. Larger(Len(file), n + 1) |->
     IF i = n + 1 THEN record ELSE IF i <= Len(file) THEN file[i] ELSE ZeroRecord]

-----------------------------------------------------------------------------
(* Opening the ring file                                                   *)

\* The longest run of consecutive ids that ends with the largest one.
RingIds(file) == {file[i].id : i \in DOMAIN file}
RingEnd(file) == CHOOSE c \in RingIds(file) : \A d \in RingIds(file) : d <= c
RingStart(file) ==
  CHOOSE c \in RingIds(file) :
    /\ c .. RingEnd(file) \subseteq RingIds(file)
    /\ c - 1 \notin RingIds(file)
RingHash(file, c) == file[CHOOSE i \in DOMAIN file : file[i].id = c].hash

\* The manager over a file: the window [min, next) and the tree in memory, its
\* leaves before the window taken from the database's proof at the start.
NoManager == [min |-> 0, next |-> 0, tree |-> <<>>]
new_from_file_path(file, db) ==
  IF file = <<>> THEN NoManager
  ELSE [min  |-> RingStart(file),
        next |-> RingEnd(file) + 1,
        tree |-> [i \in 1 .. RingEnd(file) + 1 |->
                    IF i <= RingStart(file) THEN LeafOf(db, i - 1)
                                            ELSE RingHash(file, i - 1)]]

\* The integrity check of the first leaf against the database.
Opens(file, db) ==
  file # <<>> => LeafOf(db, RingStart(file)) = RingHash(file, RingStart(file))

-----------------------------------------------------------------------------
(* Appending one leaf: the ring record, then the bucket record             *)

\* Mutant: the ring does not wrap.
RingGrows(file, c, hash) == WriteAt(file, c, [id |-> c, hash |-> hash])

RingAppend(file, c, hash) == WriteAt(file, c % RingCapacity, [id |-> c, hash |-> hash])

BucketOf(c) == c \div BucketSize
BucketStart(b) == b * BucketSize
Slot(c) == c % BucketSize

\* A missing bucket gets the records before c from the tree in memory.
Backfilled(bucket, c, mgr) ==
  IF bucket = <<>>
    THEN [i \in 1 .. Slot(c) |->
            [id |-> BucketStart(BucketOf(c)) + i - 1,
             hash |-> LeafOf(mgr.tree, BucketStart(BucketOf(c)) + i - 1)]]
    ELSE bucket

CanBackfill(bucket, c, mgr) ==
  bucket = <<>> /\ Slot(c) > 0 =>
    /\ BucketStart(BucketOf(c)) >= mgr.min
    /\ \A d \in BucketStart(BucketOf(c)) .. c - 1 : LeafOf(mgr.tree, d) # ZeroHash

\* The bucket takes the record after its predecessor, or has it already.
append_bucket_record(bucket, c, hash, mgr) ==
  LET file == Backfilled(bucket, c, mgr)
  IN  IF Len(file) = Slot(c) THEN Append(file, [id |-> c, hash |-> hash]) ELSE file

BucketAccepts(bucket, c, hash, mgr) ==
  LET file == Backfilled(bucket, c, mgr)
  IN  /\ CanBackfill(bucket, c, mgr)
      /\ \/ Len(file) = Slot(c) + 1 /\ file[Len(file)] = [id |-> c, hash |-> hash]
         \/ Len(file) = Slot(c) /\ (Slot(c) > 0 => file[Slot(c)].id = c - 1)

\* The manager after the append; the window keeps RingCapacity leaves.
Appended(mgr, c, hash) ==
  [min  |-> IF c + 1 - mgr.min > RingCapacity THEN mgr.min + 1 ELSE mgr.min,
   next |-> c + 1,
   tree |-> [i \in 1 .. c + 1 |-> IF i = c + 1 THEN hash ELSE LeafOf(mgr.tree, i - 1)]]

-----------------------------------------------------------------------------
(* Starting from the database and rebuilding at a target                   *)

\* The window the protocol and the capacity ask for at checkpoint c.
HistoryStart(c) ==
  Larger(SatSub(c, StaleAge), IF c >= RingCapacity THEN c - RingCapacity + 1 ELSE 0)

NeedsReset(mgr, c) ==
  \/ mgr.next = 0 /\ mgr.min = 0
  \/ mgr.min > HistoryStart(c)
  \/ mgr.next < HistoryStart(c)
  \/ c > mgr.next + RingCapacity * 2

\* The manager that starts to append at c over the database's earlier leaves.
StartingAt(c, db) == [min |-> c, next |-> c, tree |-> LeavesBelow(db, c)]

\* hard_reset_and_truncate(c): the bucket of c keeps its first records (the
\* truncation pads a shorter file), the later ones up to the old head go.
hard_reset_and_truncate(buckets, c, mgr) ==
  [b \in DOMAIN buckets |->
     IF b = BucketOf(c) /\ buckets[b] # <<>>
       THEN [i \in 1 .. Slot(c) |->
               IF i <= Len(buckets[b]) THEN buckets[b][i] ELSE ZeroRecord]
     ELSE IF mgr.next > 0 /\ BucketOf(c) < b /\ b <= BucketOf(mgr.next - 1) THEN <<>>
     ELSE buckets[b]]

RecordsOf(db, from, to) ==
  [i \in 1 .. to - from + 1 |-> [id |-> from + i - 1, hash |-> LeafOf(db, from + i - 1)]]

\* rebuild_from_database_at_checkpoint(c): every leaf it reads exists and the
\* rebuilt root is the database's; the ring file is written afresh.
RebuildStart(c) == Larger(SatSub(c, StaleAge), SatSub(c + 1, RingCapacity))

CanRebuild(db, c) ==
  \A d \in (RebuildStart(c) .. c) \cup (BucketStart(BucketOf(c)) .. c) :
    LeafOf(db, d) # ZeroHash

RebuiltRing(db, c) ==
  LET in == RebuildStart(c) .. c
      slots == {d % RingCapacity : d \in in}
      last == CHOOSE s \in slots : \A t \in slots : t <= s
  IN  [i \in 1 .. last + 1 |->
         IF i - 1 \in slots
           THEN LET d == CHOOSE e \in in : e % RingCapacity = i - 1
                IN  [id |-> d, hash |-> LeafOf(db, d)]
           ELSE ZeroRecord]

RebuiltBucket(db, c) == RecordsOf(db, BucketStart(BucketOf(c)), c)

RebuiltManager(db, c) ==
  [min |-> RebuildStart(c), next |-> c + 1, tree |-> LeavesBelow(db, c + 1)]

\* Mutant: the bucket of the head is left.
LaterBucketsButLast(c, mgr) ==
  IF mgr.next = 0 THEN {} ELSE BucketOf(c) + 1 .. BucketOf(mgr.next - 1) - 1

\* The buckets after that of c, up to the one of the manager's head.
LaterBuckets(c, mgr) ==
  IF mgr.next = 0 THEN {} ELSE BucketOf(c) + 1 .. BucketOf(mgr.next - 1)
=============================================================================
