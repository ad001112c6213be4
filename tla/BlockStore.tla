----------------------------- MODULE BlockStore -----------------------------
(***************************************************************************)
(* The files of one node's BlockManager (block_manager.h), as pure         *)
(* operators.  A node keeps every block of BLOCK_SIZE bytes in a file of   *)
(* its own, under <root>/<dir>/<block>; a write is staged in the same      *)
(* place under <root>-tmp and a commit moves it over.  An address is a     *)
(* byte address: an access of BLOCK_SIZE bytes at an address that is not a *)
(* multiple of BLOCK_SIZE touches two blocks.                              *)
(***************************************************************************)
EXTENDS Integers, Sequences

CONSTANTS
    BLOCK_SIZE, \* bytes per block (4096 in the code)
    INT_MAX,    \* the largest value of the code's int, where a block ends
    Addr,       \* the byte addresses clients use
    Byte,       \* the values of a byte
    None        \* stands for a missing file, address, payload or caller

ASSUME BlockSizeAssumption == BLOCK_SIZE \in Nat \ {0}
ASSUME IntMaxAssumption == INT_MAX \in Nat
ASSUME IntMaxBlockAssumption == (INT_MAX + 1) % BLOCK_SIZE = 0
ASSUME AddrAssumption == Addr \subseteq 0..INT_MAX
ASSUME ByteAssumption == 0 \in Byte

IsAlligned(addr) == addr % BLOCK_SIZE = 0

GetBlockNumber(addr) == addr \div BLOCK_SIZE

\* The blocks lockAddress locks, which are those read, write and commit use.
BlocksOf(addr) ==
    LET n == GetBlockNumber(addr)
    IN  IF IsAlligned(addr) THEN {n} ELSE {n, n + 1}

Block == UNION {BlocksOf(addr) : addr \in Addr}

Offset == 0..(BLOCK_SIZE - 1)

Content == [Offset -> Byte]

Zeros == [i \in Offset |-> 0]

ASSUME NoneAssumption == None \notin Content /\ None \notin Addr

\* One directory of block files, and the pair of them a node keeps.
Files == [Block -> Content \cup {None}]
Store == [blk : Files, tmp : Files]

NoFiles == [n \in Block |-> None]
EmptyStore == [blk |-> NoFiles, tmp |-> NoFiles]

\* What a read of the whole of block n returns: a missing file reads as zeros.
AllignedRead(files, n) == IF files[n] = None THEN Zeros ELSE files[n]

\* The tail of one block followed by the head of the next.
UnallignedRead(files, addr) ==
    LET first == GetBlockNumber(addr)
        loc   == addr % BLOCK_SIZE
        size  == BLOCK_SIZE - loc
    IN  [i \in Offset |-> IF i < size
                          THEN AllignedRead(files, first)[loc + i]
                          ELSE AllignedRead(files, first + 1)[i - size]]

Read(files, addr) ==
    IF IsAlligned(addr) THEN AllignedRead(files, GetBlockNumber(addr))
                        ELSE UnallignedRead(files, addr)

AllignedWrite(store, addr, data) ==
    [store EXCEPT !.tmp[GetBlockNumber(addr)] = data]

\* unallignedWrite fetches the rest of the second block with
\* read(secondBlockNumber*BLOCK_SIZE): past INT_MAX the int product wraps to
\* a negative address, whose block never exists and reads as zeros.
SecondBase(files, second) ==
    IF second * BLOCK_SIZE > INT_MAX THEN Zeros ELSE AllignedRead(files, second)

\* Mutant: the first block is not read before it is rewritten.
UnallignedWriteBlind(store, addr, data) ==
    LET first == GetBlockNumber(addr)
        loc   == addr % BLOCK_SIZE
        size  == BLOCK_SIZE - loc
        tail  == SecondBase(store.blk, first + 1)
    IN  [store EXCEPT !.tmp = [@ EXCEPT
           ![first] = [i \in Offset |-> IF i < loc THEN 0 ELSE data[i - loc]],
           ![first + 1] =
             [i \in Offset |-> IF i < loc THEN data[size + i] ELSE tail[i]]]]

\* Both halves are merged into copies of the committed blocks.
UnallignedWrite(store, addr, data) ==
    LET first == GetBlockNumber(addr)
        loc   == addr % BLOCK_SIZE
        size  == BLOCK_SIZE - loc
        head  == AllignedRead(store.blk, first)
        tail  == SecondBase(store.blk, first + 1)
    IN  [store EXCEPT !.tmp = [@ EXCEPT
           ![first] =
             [i \in Offset |-> IF i < loc THEN head[i] ELSE data[i - loc]],
           ![first + 1] =
             [i \in Offset |-> IF i < loc THEN data[size + i] ELSE tail[i]]]]

\* Stage data in <root>-tmp; committed blocks are not touched.
Write(store, addr, data) ==
    IF IsAlligned(addr) THEN AllignedWrite(store, addr, data)
                        ELSE UnallignedWrite(store, addr, data)

\* A commit is a sequence of file operations, each atomic, none undone.
FileOp == {"remove", "rename"} \X Block

\* Mutants: the block file is removed last; the temporary path is that of the
\* next block.
CommitBlockOpsSwapped(n) == << <<"rename", n>>, <<"remove", n>> >>
CommitBlockOpsNext(n) == << <<"remove", n>>, <<"rename", n + 1>> >>

CommitBlockOps(n) == << <<"remove", n>>, <<"rename", n>> >>

\* Mutant: an unaligned commit forgets the second block.
CommitFirst(addr) == CommitBlockOps(GetBlockNumber(addr))

Commit(addr) ==
    LET n == GetBlockNumber(addr)
    IN  IF IsAlligned(addr) THEN CommitBlockOps(n)
                            ELSE CommitBlockOps(n) \o CommitBlockOps(n + 1)

Remove(store, n) == [store EXCEPT !.blk[n] = None]

\* rename fails, and changes nothing, when nothing is staged.
Rename(store, n) ==
    IF store.tmp[n] = None THEN store
    ELSE [store EXCEPT !.blk[n] = store.tmp[n], !.tmp[n] = None]

Apply(store, op) ==
    IF op[1] = "remove" THEN Remove(store, op[2]) ELSE Rename(store, op[2])
=============================================================================
