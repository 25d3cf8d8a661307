---------------------------- MODULE Minix3Read -----------------------------
(***************************************************************************)
(* Fs::read_file (fs/minix3/fs.rs) as system call 63 runs it: the walk     *)
(* over direct, single, double and triple indirect zones.                  *)
(*                                                                         *)
(* The disk is discovered as it is read: each zone number is read once, so *)
(* whether it is zero is chosen when it is.  A byte of the file is its     *)
(* position in the file, and `out' lists the bytes copied, in order.  A    *)
(* place in the tree of zones is `level' (0 for the direct zones) and the  *)
(* path of indices below it, which ends at a data zone or at a pointer     *)
(* that is about to be followed.                                           *)
(***************************************************************************)
EXTENDS Integers, Sequences

CONSTANTS
  BLOCK_SIZE,
  NUM_DIRECT_ZONES,
  INDIRECT_PTRS_PER_BLOCK,
  Sizes, Lens,    \* bounds: the files' sizes and the callers' buffers
  MaxZeros        \* bound: zero zone numbers met by one read

P == INDIRECT_PTRS_PER_BLOCK

VARIABLES
  len, size, offset,      \* out.len(), inode.size, offset
  level, path,            \* the loop variables
  logical, cur_offset,    \* the locals of these names
  out,                    \* the bytes copied; written is its length
  result,                 \* "none" until mount, then "running", and the outcome
  zeros,                  \* zero zone numbers met
  holes,                  \* history: data blocks whose zone number was zero
  missing                 \* history: data blocks below a zero pointer

args == <<len, size, offset>>
vars == <<len, size, offset, level, path, logical, cur_offset, out, result,
          zeros, holes, missing>>

-----------------------------------------------------------------------------
(* The tree of zones *)

(* The data blocks that k blocks of zone numbers, one above the other, lead to. *)
Blocks(k) ==
  CASE k = 0 -> 1
    [] k = 1 -> P
    [] k = 2 -> P * P
    [] k = 3 -> P * P * P

(* The first data block of each level. *)
Base(l) ==
  CASE l = 0 -> 0
    [] l = 1 -> NUM_DIRECT_ZONES
    [] l = 2 -> NUM_DIRECT_ZONES + Blocks(1)
    [] l = 3 -> NUM_DIRECT_ZONES + Blocks(1) + Blocks(2)
    [] l = 4 -> NUM_DIRECT_ZONES + Blocks(1) + Blocks(2) + Blocks(3)

FileCapacity == Base(4) * BLOCK_SIZE

(* inode.size is 32 bits wide, and with 1024-byte blocks, 7 direct zones   *)
(* and 256 pointers per block the four levels hold more than 2^34 bytes.   *)
ASSUME LayoutAssumption ==
  /\ BLOCK_SIZE \in Nat \ {0} /\ NUM_DIRECT_ZONES \in Nat \ {0} /\ P \in Nat \ {0}
  /\ Sizes \subseteq 0 .. FileCapacity /\ Lens \subseteq Nat /\ MaxZeros \in Nat

Height == IF level = 0 THEN 1 ELSE level        \* pointers from the root to data

AtData == Len(path) = Height

(* The data blocks that iteration path[d] of the loop at depth d has behind it. *)
Passed(d) == IF d <= Len(path) THEN path[d] * Blocks(Height - d) ELSE 0

(* The first data block below the current place in the tree: at a full     *)
(* path, the number in the file of the data block there.                   *)
Block == Base(level) + Passed(1) + Passed(2) + Passed(3)

(* The data blocks below the current place in the tree. *)
Below == Block .. Block + Blocks(Height - Len(path)) - 1

Width == IF level = 0 THEN NUM_DIRECT_ZONES ELSE P

(* Leave the loop of the current level. *)
NextLevel == level' = level + 1 /\ path' = <<>>

NextIndex_Outermost ==
  LET going == {d \in 1 .. Len(path) : path[d] + 1 < Width}
  IN  IF going = {} THEN NextLevel
      ELSE LET d == CHOOSE d \in going : \A e \in going : d <= e
           IN  /\ path' = Append(SubSeq(path, 1, d - 1), path[d] + 1)
               /\ UNCHANGED level

(* The next iteration of the innermost loop that has one. *)
NextIndex ==
  LET going == {d \in 1 .. Len(path) : path[d] + 1 < Width}
  IN  IF going = {} THEN NextLevel
      ELSE LET d == CHOOSE d \in going : \A e \in going : e <= d
           IN  /\ path' = Append(SubSeq(path, 1, d - 1), path[d] + 1)
               /\ UNCHANGED level

end == offset + (IF len < size - offset THEN len ELSE size - offset)

Return(r) ==
  result' = r /\ UNCHANGED <<args, level, path, logical, cur_offset, out, zeros, holes, missing>>

-----------------------------------------------------------------------------
(* mount, read_inode, the checks and the scratch buffers at the start.     *)

Start ==
  /\ result = "none"
  /\ IF offset >= size \/ len = 0 THEN Return("ok") ELSE Return("running")

(* A block cannot be read, the magic is wrong, the inode is out of range,  *)
(* or there is no page for a buffer.                                       *)
StartFails == result = "none" /\ Return("err")

-----------------------------------------------------------------------------
(* copy_zone and the loops around it *)

Zero == zeros < MaxZeros /\ zeros' = zeros + 1

SkipHole_Stays ==
  /\ Zero
  /\ holes' = holes \cup {Block}
  /\ UNCHANGED <<cur_offset, out>>

(* zone == 0 *)
SkipHole ==
  /\ Zero
  /\ cur_offset' = logical + BLOCK_SIZE
  /\ holes' = holes \cup {Block}
  /\ UNCHANGED out

(* block_end <= *cur_offset *)
BeforeWindow == logical + BLOCK_SIZE <= cur_offset

SkipZone == BeforeWindow /\ UNCHANGED <<cur_offset, out, zeros, holes>>

Chunk_WholeBlock(in_block) == BLOCK_SIZE - in_block

Chunk(in_block) ==
  IF BLOCK_SIZE - in_block < end - cur_offset THEN BLOCK_SIZE - in_block ELSE end - cur_offset

CopyChunk ==
  /\ ~BeforeWindow
  /\ logical <= cur_offset
  /\ LET in_block == cur_offset - logical
         chunk == Chunk(in_block)
     IN  /\ out' = out \o [k \in 1 .. chunk |-> Block * BLOCK_SIZE + in_block + k - 1]
         /\ cur_offset' = cur_offset + chunk
  /\ UNCHANGED <<zeros, holes>>

More_Inclusive(c) == c <= end

More(c) == c < end

copy_zone ==
  /\ result = "running"
  /\ level <= 3 /\ AtData
  /\ cur_offset < end
  /\ SkipZone \/ CopyChunk \/ SkipHole
  /\ IF More(cur_offset')
       THEN logical' = logical + BLOCK_SIZE /\ NextIndex /\ UNCHANGED result
       ELSE result' = "ok" /\ UNCHANGED <<logical, level, path>>
  /\ UNCHANGED <<args, missing>>

(* `*cur_offset - block_start' is negative: debug builds panic. *)
CopyUnderflows ==
  /\ result = "running"
  /\ level <= 3 /\ AtData
  /\ ~BeforeWindow
  /\ cur_offset < logical
  /\ Return("panic")

(* block_read fails, for data or for a block of zone numbers. *)
ReadFails ==
  /\ result = "running"
  /\ level <= 3
  /\ AtData => ~BeforeWindow
  /\ Return("err")

-----------------------------------------------------------------------------
(* Blocks of zone numbers *)

FollowPointer ==
  /\ result = "running"
  /\ level \in 1 .. 3 /\ ~AtData
  /\ path = <<>> => cur_offset < end
  /\ path' = Append(path, 0)
  /\ UNCHANGED <<args, level, logical, cur_offset, out, result, zeros, holes, missing>>

(* The inode has no block at this level: only the single indirect range is *)
(* added to `logical'.                                                     *)
NoRoot ==
  /\ result = "running"
  /\ level \in 1 .. 3 /\ path = <<>>
  /\ Zero /\ missing' = missing \cup Below
  /\ logical' = IF level = 1 THEN logical + Blocks(1) * BLOCK_SIZE ELSE logical
  /\ NextLevel
  /\ UNCHANGED <<args, cur_offset, out, result, holes>>

ZeroPointer ==
  /\ result = "running"
  /\ level \in 2 .. 3 /\ path # <<>> /\ ~AtData
  /\ Zero /\ missing' = missing \cup Below
  /\ logical' = logical + Blocks(level - Len(path)) * BLOCK_SIZE
  /\ NextIndex
  /\ UNCHANGED <<args, cur_offset, out, result, holes>>

(* Ok(written) at the end of the function *)
WalkEnds == result = "running" /\ level = 4 /\ Return("ok")

Returned == result \in {"ok", "err", "panic"} /\ UNCHANGED vars
-----------------------------------------------------------------------------
Init ==
  /\ len \in Lens /\ size \in Sizes /\ offset \in 0 .. FileCapacity
  /\ level = 0 /\ path = <<0>>
  /\ logical = 0 /\ cur_offset = offset
  /\ out = <<>> /\ result = "none"
  /\ zeros = 0 /\ holes = {} /\ missing = {}

Next ==
  \/ Start \/ StartFails
  \/ copy_zone \/ CopyUnderflows \/ ReadFails
  \/ FollowPointer \/ NoRoot \/ ZeroPointer
  \/ WalkEnds \/ Returned

Spec == Init /\ [][Next]_vars

-----------------------------------------------------------------------------
(* The walk stays inside the tree, and goes on only while bytes are wanted. *)
TypeOK ==
  /\ level \in 0 .. 4 /\ Len(path) <= Height
  /\ \A d \in 1 .. Len(path) : path[d] \in 0 .. Width - 1
  /\ logical \in 0 .. FileCapacity
  /\ result \in {"none", "running", "ok", "err", "panic"}
  /\ result = "running" => cur_offset < end

(* Some double indirect zone is there, so that `logical' counts them all. *)
DoublePresent == ~(Base(2) .. Base(3) - 1 \subseteq missing)

(* Every zero zone number that was met is a data block at or behind the    *)
(* start of the window, or lies wholly before it.                          *)
Benign ==
  /\ \A b \in holes : b >= offset \div BLOCK_SIZE
  /\ \A b \in missing : b < offset \div BLOCK_SIZE
  /\ DoublePresent

(* s lists the bytes of S, each once and in file order. *)
Lists(s, S) ==
  /\ \A j, k \in 1 .. Len(s) : j < k => s[j] < s[k]
  /\ \A n \in S : \E k \in 1 .. Len(s) : s[k] = n
  /\ \A k \in 1 .. Len(s) : s[k] \in S

(* read_file returns the bytes of the window in file order, leaving out    *)
(* those of freed blocks, across the borders between the four levels.      *)
ReadsWindow ==
  Benign => /\ result # "panic"
            /\ result = "ok" =>
                 Lists(out, {n \in offset .. end - 1 : n \div BLOCK_SIZE \notin holes})

(* The subtraction that panics in copy_zone does so for one reason: the    *)
(* byte it is at lies below a zero pointer to a block of zone numbers.     *)
PanicOnMissing ==
  result = "panic" /\ DoublePresent => cur_offset \div BLOCK_SIZE \in missing

(* The copies, raw writes from out.as_mut_ptr() + written on, stay inside  *)
(* the caller's buffer, whatever pointers are zero and however the read    *)
(* ends, if no freed data block before the window moves cur_offset back.   *)
StaysInBuffer ==
  (\A b \in holes : b >= offset \div BLOCK_SIZE) /\ DoublePresent => Len(out) <= len

(* The loops visit the data blocks of the file in order and each once:     *)
(* going from one level or iteration to the next they pass over no block   *)
(* but the one whose zone number was read and those below a zero pointer.  *)
VisitsInOrder ==
  [][result = "running" =>
       \/ Block' = Block /\ Len(path') >= Len(path)
       \/ Block' > Block /\ Block .. Block' - 1 \subseteq missing'
       \/ Block' = Block + 1 /\ AtData]_vars

(* "Copy up to `out.len()` bytes of file `inode`'s contents" (fs.rs:64).   *)
CopiesAtMostLen == Len(out) <= len
=============================================================================
