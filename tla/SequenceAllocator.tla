------------------------- MODULE SequenceAllocator -------------------------
(***************************************************************************)
(* Block allocation of sequence numbers (common/src/sequence.rs and        *)
(* common/src/serde/seq_block.rs).  The allocator hands out consecutive    *)
(* numbers from a block [base, base + size) and, when the block runs out,  *)
(* opens the next one and returns the block record that its caller has to  *)
(* put into storage.  These are pure operators on the allocator's state;   *)
(* the modules that own an allocator keep the state and the storage.       *)
(***************************************************************************)
EXTENDS Naturals

CONSTANT BlockSize   \* DEFAULT_BLOCK_SIZE (4096 in the code)

ASSUME BlockSizeAssumption == BlockSize \in Nat \ {0}

SeqBlock == [base_sequence : Nat, block_size : Nat]

\* The absent record.  With next_base = 0 it behaves like Option::None in
\* every operation below: nothing remains and the next block starts at 0.
NoBlock == [base_sequence |-> 0, block_size |-> 0]

NextBase(b) == b.base_sequence + b.block_size

AllocatedSeqBlock == [current_block : SeqBlock, next_sequence : Nat]

\* Mutant: resume inside the recovered block instead of after it.
LoadInside(stored) ==
    [current_block |-> stored, next_sequence |-> stored.base_sequence]

\* The allocator after a restart, from the record found in storage.
LoadAllocated(stored) ==
    [current_block |-> stored, next_sequence |-> NextBase(stored)]

Remaining(a) ==
    IF NextBase(a.current_block) >= a.next_sequence
    THEN NextBase(a.current_block) - a.next_sequence ELSE 0

AtLeast(count, least) == IF count > least THEN count ELSE least

InitNextBlock(a, min_count) ==
    [base_sequence |-> NextBase(a.current_block),
     block_size    |-> AtLeast(min_count, BlockSize)]

\* allocate(count): the first number of the range, the block record to put
\* into storage (NoBlock when none is due) and the allocator afterwards.
Allocate(a, count) ==
    LET remaining == Remaining(a)
        from_new  == count - remaining
        block     == InitNextBlock(a, from_new)
    IN  IF remaining >= count
        THEN [base   |-> a.next_sequence,
              record |-> NoBlock,
              next   |-> [a EXCEPT !.next_sequence = @ + count]]
        ELSE [base   |-> IF remaining > 0 THEN a.next_sequence ELSE block.base_sequence,
              record |-> block,
              next   |-> [current_block |-> block,
                          next_sequence |-> block.base_sequence + from_new]]

=============================================================================
