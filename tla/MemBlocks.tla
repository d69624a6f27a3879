----------------------------- MODULE MemBlocks ------------------------------
(***************************************************************************)
(* Bytes and memory blocks, as memAccess() of pindist and of pintrace and  *)
(* Datastruct::datastruct_num() see them.  A byte address is a number; a   *)
(* block, which in the code is the address of its first byte, is the       *)
(* number of the block.  An access is a record [addr, size].               *)
(***************************************************************************)
EXTENDS Integers

CONSTANT MEMBLOCKLEN   \* the bytes of a block

ASSUME BlockLenAssumption == MEMBLOCKLEN \in Nat \ {0}

NULL_BLOCK == 0

\* addr & MEMBLOCK_MASK
BlockOf(addr) == addr \div MEMBLOCKLEN

\* The address a block has in the code.
StartOf(a) == a * MEMBLOCKLEN

Bytes(addr, size) == addr .. addr + size - 1

\* Mutant of LastBlock: the byte after the access.
LastBlockPastEnd(acc) == BlockOf(acc.addr + acc.size)

FirstBlock(acc) == BlockOf(acc.addr)
LastBlock(acc)  == BlockOf(acc.addr + acc.size - 1)

\* The blocks of an access that are simulated, or recorded.
Ends(acc) == {FirstBlock(acc), LastBlock(acc)}

\* The blocks the access touches.
Touched(acc) == {BlockOf(x) : x \in Bytes(acc.addr, acc.size)}
=============================================================================
