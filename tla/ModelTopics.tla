----------------------------- MODULE ModelTopics -----------------------------
(***************************************************************************)
(* The model-topic relation (db/plugins/rocksdb/src/modeltopics.cpp): how  *)
(* many objects of a model a topic holds.  Each call writes an operand,    *)
(* Add or Del; RocksDB keeps the operands and folds them, oldest first,    *)
(* over the stored value when it reads.  When it flushes its memtable it   *)
(* folds the operands there with each other (PartialMergeMulti, also a     *)
(* single one: AllowSingleOperand) into one operand, which is a relation   *)
(* with their net count.  In the fold such an operand is assigned.         *)
(*                                                                         *)
(* A query that names no topics visits the topics that have a relation,    *)
(* and a relation whose count is 0 carries a mark that has expired long    *)
(* ago, so that the next compaction drops it.                              *)
(***************************************************************************)
EXTENDS Naturals, Sequences, SequencesExt

AddOp == [op |-> "Add", count |-> 0]
DelOp == [op |-> "Del", count |-> 0]
RelationOp(count) == [op |-> "Relation", count |-> count]

\* What is known of the key: whether it exists, the count that a read folds,
\* whether the memtable holds operands, and what these amount to by
\* themselves.
NoRelation == [exists |-> FALSE, count |-> 0, unflushed |-> FALSE, recent |-> 0]

MergeRelOp(count, operand) ==
    CASE operand.op = "Add" -> count + 1
      [] operand.op = "Del" -> IF count > 0 THEN count - 1 ELSE 0
      [] operand.op = "Relation" -> operand.count

FullMergeV2(count, operands) == FoldLeft(MergeRelOp, count, operands)

\* ModelTopics::update writes operands, past any transaction.
TopicUpdate(rel, operands) ==
    IF operands = <<>> THEN rel
    ELSE [exists |-> TRUE, count |-> FullMergeV2(rel.count, operands),
          unflushed |-> TRUE, recent |-> FullMergeV2(rel.recent, operands)]

\* The memtable is flushed: one operand takes the place of those in it.  The
\* next ones start from nothing.
FlushRelation(rel) ==
    [exists |-> TRUE, count |-> FullMergeV2(rel.count, <<RelationOp(rel.recent)>>),
     unflushed |-> FALSE, recent |-> 0]

\* A compaction makes what was flushed the stored value; the filter drops it
\* when its count is 0 (TtlCompactionFilter).
CompactRelation(rel) == IF rel.count = 0 /\ ~rel.unflushed THEN NoRelation ELSE rel
=============================================================================
