-------------------------- MODULE Minix3ReadProofs --------------------------
(***************************************************************************)
(* Proofs about Minix3Read: read_file's window of a file, for every block  *)
(* size, number of direct zones and of pointers per block.                 *)
(*                                                                         *)
(* The walk keeps `logical' at the first byte of the place it is at        *)
(* (Aligned), never leaves a byte it still wants behind unless a missing   *)
(* block of zone numbers lay there (NotBehind), and has listed what the    *)
(* window holds up to cur_offset (ListedSoFar).                            *)
(***************************************************************************)
EXTENDS Minix3Read, SequenceTheorems, TLAPS

-----------------------------------------------------------------------------
(* The inductive invariant *)

(* The place in the tree is one. *)
Placed ==
  /\ level \in 0 .. 4
  /\ path \in Seq(Nat) /\ Len(path) <= Height
  /\ \A d \in 1 .. Len(path) : path[d] < Width
  /\ level = 0 => Len(path) = 1
  /\ level = 4 => Len(path) = 0

Typed ==
  /\ len \in Lens /\ size \in Sizes /\ offset \in Nat
  /\ logical \in Nat /\ cur_offset \in Nat
  /\ out \in Seq(Nat)
  /\ result \in {"none", "running", "ok", "err", "panic"}
  /\ zeros \in Nat
  /\ holes \subseteq Nat /\ missing \subseteq Nat

(* `logical' is the first byte below the current place, unless it missed   *)
(* the double or the triple indirect range, the inode having no such block. *)
Aligned ==
  \/ logical = Block * BLOCK_SIZE
  \/ level >= 3 /\ ~DoublePresent /\ logical = (Block - Blocks(2)) * BLOCK_SIZE
  \/ level = 4 /\ Base(4) - 1 \in missing /\ logical <= FileCapacity

(* A running read wants more bytes; if the one it is at was passed, it is  *)
(* below a zero pointer.                                                   *)
NotBehind ==
  result = "running" =>
    /\ offset < size /\ len > 0 /\ cur_offset < end
    /\ DoublePresent /\ cur_offset < logical => cur_offset \div BLOCK_SIZE \in missing

(* What the window holds between offset and c. *)
Bytes(c) == {n \in offset .. c - 1 : n \div BLOCK_SIZE \notin holes}

(* The read is at the start of the window or at the start of a place, and  *)
(* lists the bytes before.                                                 *)
ListedSoFar ==
  /\ offset <= cur_offset
  /\ result = "running" => cur_offset = offset \/ cur_offset <= logical
  /\ result = "ok" => Lists(out, Bytes(end))
  /\ result \in {"none", "running"} => Lists(out, Bytes(cur_offset))

Untouched == result = "none" => cur_offset = offset /\ logical = 0

(* Every zero zone number of a data block that was met is behind. *)
HolesBehind == result \in {"none", "running"} => \A b \in holes : b < Block

Inv ==
  /\ Typed /\ Placed /\ Aligned /\ NotBehind /\ HolesBehind /\ Untouched /\ PanicOnMissing
  /\ Benign => ListedSoFar

-----------------------------------------------------------------------------
(* Arithmetic *)

(* A product grows with its factor. *)
LEMMA TimesMonotone ==
  ASSUME NEW a \in Nat, NEW b \in Nat, NEW k \in Nat, a <= b
  PROVE  a * k \in Nat /\ a * k <= b * k
  <1>1. PICK d \in Nat : b = a + d
    BY b - a \in Nat, b = a + (b - a)
  <1>2. b * k = a * k + d * k
    BY <1>1
  <1>3. d * k \in Nat /\ a * k \in Nat
    OBVIOUS
  <1> QED
    BY <1>2, <1>3

(* A byte belongs to the block its position falls in. *)
LEMMA BlockOfByte ==
  ASSUME NEW c \in Nat
  PROVE  /\ c \div BLOCK_SIZE \in Nat
         /\ (c \div BLOCK_SIZE) * BLOCK_SIZE <= c
         /\ c < (c \div BLOCK_SIZE + 1) * BLOCK_SIZE
  <1>1. /\ c \div BLOCK_SIZE \in Nat
        /\ c = BLOCK_SIZE * (c \div BLOCK_SIZE) + (c % BLOCK_SIZE)
        /\ c % BLOCK_SIZE \in 0 .. BLOCK_SIZE - 1
    BY LayoutAssumption
  <1> QED
    BY <1>1, LayoutAssumption

(* The bytes between two block borders belong to the blocks between them. *)
LEMMA BlocksOfBytes ==
  ASSUME NEW c \in Nat, NEW lo \in Nat, NEW hi \in Nat
  PROVE  /\ lo * BLOCK_SIZE <= c => lo <= c \div BLOCK_SIZE
         /\ c < hi * BLOCK_SIZE => c \div BLOCK_SIZE < hi
  <1> DEFINE q == c \div BLOCK_SIZE
  <1>1. q \in Nat /\ q * BLOCK_SIZE <= c /\ c < (q + 1) * BLOCK_SIZE
    BY BlockOfByte
  <1> HIDE DEF q
  <1>2. BLOCK_SIZE \in Nat
    BY LayoutAssumption
  <1>3. ASSUME lo * BLOCK_SIZE <= c PROVE lo <= q
    <2> SUFFICES ASSUME q + 1 <= lo PROVE FALSE
      BY <1>1
    <2>1. (q + 1) * BLOCK_SIZE <= lo * BLOCK_SIZE
      BY <1>1, <1>2, TimesMonotone
    <2> QED
      BY <2>1, <1>1, <1>2, <1>3
  <1>4. ASSUME c < hi * BLOCK_SIZE PROVE q < hi
    <2> SUFFICES ASSUME hi <= q PROVE FALSE
      BY <1>1
    <2>1. hi * BLOCK_SIZE <= q * BLOCK_SIZE
      BY <1>1, <1>2, TimesMonotone
    <2> QED
      BY <2>1, <1>1, <1>2, <1>4
  <1> QED
    BY <1>3, <1>4 DEF q

-----------------------------------------------------------------------------
(* The tree of zones *)

LEMMA LayoutFacts ==
  /\ BLOCK_SIZE \in Nat /\ BLOCK_SIZE > 0
  /\ NUM_DIRECT_ZONES \in Nat /\ NUM_DIRECT_ZONES > 0
  /\ P \in Nat /\ P > 0
  BY LayoutAssumption

(* A block of zone numbers leads to P times what each entry leads to. *)
LEMMA BlocksFacts ==
  /\ \A k \in 0 .. 3 : Blocks(k) \in Nat /\ Blocks(k) > 0
  /\ \A k \in 1 .. 3 : Blocks(k) = P * Blocks(k - 1)
  /\ Blocks(0) = 1 /\ Blocks(1) = P
  <1>1. Blocks(0) = 1 /\ Blocks(1) = P /\ Blocks(2) = P * P /\ Blocks(3) = P * P * P
    BY DEF Blocks
  <1>2. P * P \in Nat /\ P * P > 0
    BY LayoutFacts
  <1>3. P * P * P \in Nat /\ P * P * P > 0
    BY LayoutFacts, <1>2
  <1>4. \A k \in 0 .. 3 : k = 0 \/ k = 1 \/ k = 2 \/ k = 3
    OBVIOUS
  <1>5. \A k \in 0 .. 3 : Blocks(k) \in Nat /\ Blocks(k) > 0
    BY <1>1, <1>2, <1>3, <1>4, LayoutFacts
  <1>6. Blocks(1) = P * Blocks(1 - 1) /\ Blocks(2) = P * Blocks(2 - 1)
        /\ Blocks(3) = P * Blocks(3 - 1)
    BY <1>1, LayoutFacts
  <1>7. \A k \in 1 .. 3 : k = 1 \/ k = 2 \/ k = 3
    OBVIOUS
  <1> QED
    BY <1>1, <1>5, <1>6, <1>7

(* Each level begins where the one before it ends. *)
LEMMA BaseFacts ==
  /\ \A l \in 0 .. 4 : Base(l) \in Nat /\ Base(l) <= Base(4)
  /\ Base(0) = 0 /\ Base(1) = NUM_DIRECT_ZONES
  /\ \A l \in 1 .. 3 : Base(l + 1) = Base(l) + Blocks(l)
  /\ Base(3) = Base(2) + Blocks(2) /\ Base(4) = Base(3) + Blocks(3)
  <1>1. /\ Base(0) = 0 /\ Base(1) = NUM_DIRECT_ZONES
        /\ Base(2) = NUM_DIRECT_ZONES + Blocks(1)
        /\ Base(3) = NUM_DIRECT_ZONES + Blocks(1) + Blocks(2)
        /\ Base(4) = NUM_DIRECT_ZONES + Blocks(1) + Blocks(2) + Blocks(3)
    BY DEF Base
  <1>2. Blocks(1) \in Nat /\ Blocks(2) \in Nat /\ Blocks(3) \in Nat
    BY BlocksFacts
  <1>3. \A l \in 0 .. 4 : l = 0 \/ l = 1 \/ l = 2 \/ l = 3 \/ l = 4
    OBVIOUS
  <1>4. \A l \in 0 .. 4 : Base(l) \in Nat /\ Base(l) <= Base(4)
    BY <1>1, <1>2, <1>3, LayoutFacts
  <1>5. Base(1 + 1) = Base(1) + Blocks(1) /\ Base(2 + 1) = Base(2) + Blocks(2)
        /\ Base(3 + 1) = Base(3) + Blocks(3)
    BY <1>1, <1>2, LayoutFacts
  <1>6. \A l \in 1 .. 3 : l = 1 \/ l = 2 \/ l = 3
    OBVIOUS
  <1> QED
    BY <1>1, <1>2, <1>4, <1>5, <1>6

LEMMA CapacityFacts ==
  /\ FileCapacity = Base(4) * BLOCK_SIZE /\ FileCapacity \in Nat
  BY BaseFacts, LayoutFacts DEF FileCapacity

(* The loop at depth d has passed at most what all its iterations but the  *)
(* last lead to, and exactly that when it is in its last one.              *)
LEMMA PassedFacts ==
  ASSUME Placed, NEW d \in 1 .. 3
  PROVE  /\ Passed(d) \in Nat
         /\ d > Len(path) => Passed(d) = 0
         /\ d <= Len(path) => Passed(d) = path[d] * Blocks(Height - d)
         /\ level \in 1 .. 3 /\ d <= Len(path) =>
              /\ Passed(d) <= Blocks(Height - d + 1) - Blocks(Height - d)
              /\ path[d] + 1 = P => Passed(d) = Blocks(Height - d + 1) - Blocks(Height - d)
  <1>1. Len(path) \in Nat /\ \A e \in 1 .. Len(path) : path[e] \in Nat /\ path[e] < Width
    BY DEF Placed
  <1>2. CASE d > Len(path)
    BY <1>1, <1>2 DEF Passed
  <1>3. CASE d <= Len(path)
    <2> DEFINE B == Blocks(Height - d)
    <2>1. Passed(d) = path[d] * B /\ path[d] \in Nat /\ path[d] < Width
      BY <1>1, <1>3 DEF Passed
    <2>2. Height \in 1 .. 3 /\ d <= Height
      BY <1>1, <1>3 DEF Placed, Height
    <2>3. B \in Nat
      BY <2>2, BlocksFacts
    <2>4. ASSUME level \in 1 .. 3
          PROVE  path[d] <= P - 1 /\ Blocks(Height - d + 1) = P * B
      <3>1. Width = P /\ Height = level
        BY <2>4 DEF Width, Height
      <3>2. Height - d + 1 \in 1 .. 3 /\ (Height - d + 1) - 1 = Height - d
        BY <2>2
      <3> QED
        BY <3>1, <3>2, <2>1, BlocksFacts, LayoutFacts
    <2> HIDE DEF B
    <2>5. path[d] * B \in Nat
      BY <2>1, <2>3
    <2>6. ASSUME path[d] <= P - 1
          PROVE  path[d] * B <= P * B - B
      <3>1. P - 1 \in Nat /\ (P - 1) * B = P * B - B
        BY <2>3, LayoutFacts
      <3> QED
        BY <3>1, <2>1, <2>3, <2>6, TimesMonotone
    <2>7. ASSUME path[d] + 1 = P
          PROVE  path[d] * B = P * B - B
      BY <2>1, <2>3, <2>7
    <2>8. (path[d] * B = Passed(d)) /\ B = Blocks(Height - d)
      BY <2>1 DEF B
    <2> QED
      BY <2>1, <2>4, <2>5, <2>6, <2>7, <2>8, <1>1, <1>3
  <1> QED
    BY <1>1, <1>2, <1>3

(* The blocks below a place lie inside its level. *)
LEMMA PlaceRange ==
  ASSUME Placed
  PROVE  /\ Block \in Nat /\ Base(level) <= Block /\ Base(level) \in Nat
         /\ level \in 0 .. 3 =>
              /\ Height - Len(path) \in 0 .. 3
              /\ Block + Blocks(Height - Len(path)) <= Base(level + 1)
  <1>0. 1 \in 1 .. 3 /\ 2 \in 1 .. 3 /\ 3 \in 1 .. 3
    OBVIOUS
  <1>1. /\ Passed(1) \in Nat /\ Passed(2) \in Nat /\ Passed(3) \in Nat
        /\ Base(level) \in Nat /\ level \in 0 .. 4
    <2>1. Passed(1) \in Nat /\ Passed(2) \in Nat /\ Passed(3) \in Nat
      BY <1>0, PassedFacts
    <2> QED
      BY <2>1, BaseFacts, SMTT(20) DEF Placed
  <1>2. Block = Base(level) + Passed(1) + Passed(2) + Passed(3)
    BY DEF Block
  <1>3. Len(path) \in Nat /\ Len(path) <= Height
    BY DEF Placed
  <1>4. CASE level = 4
    BY <1>1, <1>2, <1>4
  <1>5. CASE level = 0
    <2>1. Len(path) = 1 /\ Height = 1 /\ path[1] < NUM_DIRECT_ZONES /\ path[1] \in Nat
      BY <1>5 DEF Placed, Height, Width
    <2>2. Passed(1) = path[1] * Blocks(0) /\ Passed(2) = 0 /\ Passed(3) = 0
      <3>1. /\ 1 <= Len(path) => Passed(1) = path[1] * Blocks(Height - 1)
            /\ 2 > Len(path) => Passed(2) = 0
            /\ 3 > Len(path) => Passed(3) = 0
        BY <1>0, PassedFacts
      <3> QED
        BY <3>1, <2>1
    <2>3. Blocks(Height - Len(path)) = 1 /\ Height - Len(path) = 0
      BY <2>1, BlocksFacts
    <2> QED
      <3>1. Base(level + 1) = NUM_DIRECT_ZONES /\ Base(level) = 0 /\ Blocks(0) = 1
        BY <1>5, BlocksFacts, BaseFacts
      <3>2. Block = path[1]
        BY <1>2, <2>1, <2>2, <3>1
      <3> QED
        BY <1>1, <2>1, <2>3, <3>1, <3>2, LayoutFacts
  <1>6. CASE level \in 1 .. 3
    <2>1. Height = level
      BY <1>6 DEF Height
    <2>2. \A k \in 0 .. 3 : Blocks(k) \in Nat
      BY BlocksFacts
    <2>3. Base(level + 1) = Base(level) + Blocks(level)
      BY <1>6, BaseFacts
    <2>4. \A d \in 1 .. 3 :
            IF d <= Len(path) THEN Passed(d) <= Blocks(level - d + 1) - Blocks(level - d)
                              ELSE Passed(d) = 0
      BY <1>3, <1>6, <2>1, PassedFacts
    <2>5. CASE Len(path) = 0
      <3>1. Passed(1) = 0 /\ Passed(2) = 0 /\ Passed(3) = 0
        BY <2>4, <2>5
      <3>2. Height - Len(path) = level /\ Blocks(level) \in Nat
        BY <1>6, <2>1, <2>2, <2>5
      <3> QED
        BY <1>1, <1>2, <1>6, <2>3, <3>1, <3>2
    <2>6. CASE Len(path) = 1
      BY <1>1, <1>2, <1>3, <1>6, <2>1, <2>2, <2>3, <2>4, <2>6
    <2>7. CASE Len(path) = 2
      BY <1>1, <1>2, <1>3, <1>6, <2>1, <2>2, <2>3, <2>4, <2>7
    <2>8. CASE Len(path) = 3
      BY <1>1, <1>2, <1>3, <1>6, <2>1, <2>2, <2>3, <2>4, <2>8
    <2> QED
      <3>1. Len(path) = 0 \/ Len(path) = 1 \/ Len(path) = 2 \/ Len(path) = 3
        <4>1. Len(path) <= 3
          BY <1>3, <1>6, <2>1
        <4>2. \A n \in Nat : n <= 3 => n \in {0, 1, 2, 3}
          OBVIOUS
        <4> QED
          BY <4>1, <4>2, <1>3, Zenon
      <3> QED
        BY <3>1, <2>5, <2>6, <2>7, <2>8
  <1> QED
    BY <1>1, <1>4, <1>5, <1>6

(* The loops of a level are left for the first block of the next one. *)
LEMMA LevelLeft ==
  ASSUME Placed, level \in 0 .. 3, NextLevel
  PROVE  Placed' /\ Block' = Base(level + 1) /\ level' = level + 1
  <1>1. level' = level + 1 /\ path' = <<>> /\ Len(path') = 0 /\ path' \in Seq(Nat)
    BY DEF NextLevel
  <1>2. level' \in 1 .. 4
    BY <1>1
  <1>3. Height' \in Nat
    BY <1>2 DEF Height
  <1>4. Placed'
    BY <1>1, <1>2, <1>3 DEF Placed
  <1>5. (Passed(1))' = 0 /\ (Passed(2))' = 0 /\ (Passed(3))' = 0
    BY <1>1 DEF Passed
  <1>6. Base(level + 1) \in Nat
    BY BaseFacts
  <1>7. Block' = Base(level + 1) + 0 + 0 + 0
    BY <1>1, <1>5 DEF Block
  <1> QED
    BY <1>1, <1>4, <1>6, <1>7

(* An iteration ends where the next one begins: the next place is behind   *)
(* exactly the blocks below this one.                                      *)
LEMMA IterationLeft ==
  ASSUME Placed, level \in 0 .. 3, Len(path) > 0, NextIndex
  PROVE  /\ Placed' /\ Block' = Block + Blocks(Height - Len(path))
         /\ level' \in {level, level + 1}
  <1> DEFINE going == {d \in 1 .. Len(path) : path[d] + 1 < Width}
  <1>1. /\ Len(path) \in Nat /\ Len(path) <= Height /\ Height \in 1 .. 3 /\ Len(path) \in 1 .. 3
        /\ \A e \in 1 .. Len(path) : path[e] \in Nat /\ path[e] < Width
        /\ path \in Seq(Nat)
        /\ Width \in Nat
    <2>1. /\ Len(path) \in Nat /\ Len(path) <= Height /\ path \in Seq(Nat)
          /\ \A e \in 1 .. Len(path) : path[e] \in Nat /\ path[e] < Width
      BY DEF Placed
    <2>2. Height \in 1 .. 3 /\ Width \in Nat
      BY LayoutFacts DEF Height, Width
    <2>3. \A n \in Nat, h \in 1 .. 3 : n > 0 /\ n <= h => n \in 1 .. 3
      OBVIOUS
    <2>4. Len(path) \in 1 .. 3
      BY <2>1, <2>2, <2>3, Zenon
    <2> QED
      BY <2>1, <2>2, <2>4
  <1>2. Block = Base(level) + Passed(1) + Passed(2) + Passed(3)
    BY DEF Block
  <1>3. 1 \in 1 .. 3 /\ 2 \in 1 .. 3 /\ 3 \in 1 .. 3
    OBVIOUS
  <1>4. /\ Passed(1) \in Nat /\ Passed(2) \in Nat /\ Passed(3) \in Nat
        /\ 1 > Len(path) => Passed(1) = 0
        /\ 2 > Len(path) => Passed(2) = 0
        /\ 3 > Len(path) => Passed(3) = 0
    <2>1. \A d \in 1 .. 3 : Passed(d) \in Nat /\ (d > Len(path) => Passed(d) = 0)
      BY PassedFacts
    <2> QED
      BY <1>3, <2>1
  <1>5. Base(level) \in Nat /\ \A k \in 0 .. 3 : Blocks(k) \in Nat
    <2>1. level \in 0 .. 4
      BY DEF Placed
    <2> QED
      BY <2>1, BaseFacts, BlocksFacts, Zenon
  <1>8. Base(level) \in Nat
    BY <1>5
  <1>6. CASE going = {}
    <2>1. NextLevel
      BY <1>6, Zenon DEF NextIndex
    <2>2. Placed' /\ Block' = Base(level + 1) /\ level' = level + 1
      BY <2>1, LevelLeft
    <2>3. \A e \in 1 .. Len(path) : path[e] + 1 = Width
      <3>1. \A e \in 1 .. Len(path) : ~(path[e] + 1 < Width)
        BY <1>6, Zenon
      <3>2. \A n, w \in Nat : n < w /\ ~(n + 1 < w) => n + 1 = w
        OBVIOUS
      <3> QED
        BY <1>1, <3>1, <3>2, Zenon
    <2>4. CASE level = 0
      <3>1. Len(path) = 1 /\ Height = 1 /\ Width = NUM_DIRECT_ZONES
        BY <2>4 DEF Placed, Height, Width
      <3>2. path[1] + 1 = NUM_DIRECT_ZONES /\ path[1] \in Nat
        BY <1>1, <2>3, <3>1
      <3>3. Passed(1) = path[1] * Blocks(0)
        BY <3>1 DEF Passed
      <3>4. Base(level + 1) = NUM_DIRECT_ZONES /\ Base(level) = 0 /\ Blocks(0) = 1
        BY <2>4, BaseFacts, BlocksFacts
      <3>5. Blocks(Height - Len(path)) = 1
        BY <3>1, <3>4
      <3> QED
        BY <1>2, <1>4, <2>2, <3>1, <3>2, <3>3, <3>4, <3>5
    <2>5. CASE level \in 1 .. 3
      <3>1. Width = P /\ Height = level
        BY <2>5 DEF Height, Width
      <3>2. \A d \in 1 .. 3 : d <= Len(path) => path[d] + 1 = P
        BY <1>1, <2>3, <3>1
      <3>3. \A d \in 1 .. 3 :
              d <= Len(path) => Passed(d) = Blocks(level - d + 1) - Blocks(level - d)
        BY <2>5, <3>1, <3>2, PassedFacts
      <3>4. Base(level + 1) = Base(level) + Blocks(level)
        BY <2>5, BaseFacts
      <3>5. CASE Len(path) = 1
        <4>1. level \in 1 .. 3 /\ Height - Len(path) = level - 1
          BY <1>1, <2>5, <3>1, <3>5
        <4>2. Blocks(level) \in Nat /\ Blocks(level - 1) \in Nat
          BY <4>1, <1>5
        <4>3. Passed(1) = Blocks(level) - Blocks(level - 1) /\ Passed(2) = 0 /\ Passed(3) = 0
          BY <1>3, <1>4, <2>5, <3>3, <3>5
        <4>4. Block' = Block + Blocks(Height - Len(path))
          <5>1. Blocks(Height - Len(path)) = Blocks(level - 1)
            BY <4>1, Zenon
          <5>2. Block' = Base(level) + Blocks(level) /\ Base(level) \in Nat
            BY <1>5, <2>2, <3>4, Zenon
          <5>3. PICK b, x, y \in Nat :
                  b = Base(level) /\ x = Blocks(level) /\ y = Blocks(level - 1)
            BY <4>2, <5>2, Zenon
          <5>4. Block = b + (x - y) + 0 + 0
            BY <1>2, <4>3, <5>3, Zenon
          <5>5. Block' = b + x /\ Blocks(Height - Len(path)) = y
            BY <5>1, <5>2, <5>3, Zenon
          <5> QED
            BY <5>4, <5>5
        <4> QED
          BY <2>2, <4>4, Zenon
      <3>6. CASE Len(path) = 2
        <4>1. level \in 2 .. 3 /\ Height - Len(path) = level - 2
          BY <1>1, <2>5, <3>1, <3>6
        <4>2. Blocks(level) \in Nat /\ Blocks(level - 1) \in Nat /\ Blocks(level - 2) \in Nat
          BY <4>1, <1>5
        <4>3. /\ Passed(1) = Blocks(level) - Blocks(level - 1)
              /\ Passed(2) = Blocks(level - 1) - Blocks(level - 2) /\ Passed(3) = 0
          BY <1>3, <1>4, <2>5, <3>3, <3>6
        <4>4. Block' = Block + Blocks(Height - Len(path))
          <5>1. Blocks(Height - Len(path)) = Blocks(level - 2)
            BY <4>1, Zenon
          <5>2. Block' = Base(level) + Blocks(level) /\ Base(level) \in Nat
            BY <1>5, <2>2, <3>4, Zenon
          <5>3. PICK b, x, y, z \in Nat :
                  /\ b = Base(level) /\ x = Blocks(level) /\ y = Blocks(level - 1)
                  /\ z = Blocks(level - 2)
            BY <4>2, <5>2, Zenon
          <5>4. Block = b + (x - y) + (y - z) + 0
            BY <1>2, <4>3, <5>3, Zenon
          <5>5. Block' = b + x /\ Blocks(Height - Len(path)) = z
            BY <5>1, <5>2, <5>3, Zenon
          <5> QED
            BY <5>4, <5>5
        <4> QED
          BY <2>2, <4>4, Zenon
      <3>7. CASE Len(path) = 3
        <4>1. level \in 3 .. 3 /\ Height - Len(path) = level - 3
          BY <1>1, <2>5, <3>1, <3>7
        <4>2. Blocks(level) \in Nat /\ Blocks(level - 1) \in Nat /\ Blocks(level - 2) \in Nat /\ Blocks(level - 3) \in Nat
          BY <4>1, <1>5
        <4>3. /\ Passed(1) = Blocks(level) - Blocks(level - 1)
              /\ Passed(2) = Blocks(level - 1) - Blocks(level - 2)
              /\ Passed(3) = Blocks(level - 2) - Blocks(level - 3)
          BY <1>3, <1>4, <2>5, <3>3, <3>7
        <4>4. Block' = Block + Blocks(Height - Len(path))
          <5>1. Blocks(Height - Len(path)) = Blocks(level - 3)
            BY <4>1, Zenon
          <5>2. Block' = Base(level) + Blocks(level) /\ Base(level) \in Nat
            BY <1>5, <2>2, <3>4, Zenon
          <5>3. PICK b, w, x, y, z \in Nat :
                  /\ b = Base(level) /\ x = Blocks(level) /\ y = Blocks(level - 1)
                  /\ z = Blocks(level - 2) /\ w = Blocks(level - 3)
            BY <4>2, <5>2, Zenon
          <5>4. Block = b + (x - y) + (y - z) + (z - w)
            BY <1>2, <4>3, <5>3, Zenon
          <5>5. Block' = b + x /\ Blocks(Height - Len(path)) = w
            BY <5>1, <5>2, <5>3, Zenon
          <5> QED
            BY <5>4, <5>5
        <4> QED
          BY <2>2, <4>4, Zenon
      <3> QED
        BY <1>1, <3>5, <3>6, <3>7
    <2> QED
      BY <2>4, <2>5
  <1>7. CASE going # {}
    <2>1. PICK d : /\ d \in going /\ \A e \in going : e <= d
                   /\ path' = Append(SubSeq(path, 1, d - 1), path[d] + 1) /\ level' = level
      <3> DEFINE m == CHOOSE d \in going : \A e \in going : e <= d
      <3>1. \E d \in going : \A e \in going : e <= d
        <4>1. \A k \in 1 .. 3 : k \in going => k <= Len(path)
          BY <1>1
        <4>2. going \subseteq 1 .. 3
          BY <1>1
        <4> HIDE DEF going
        <4>3. \A k \in going : k = 1 \/ k = 2 \/ k = 3
          BY <4>2
        <4>4. CASE 3 \in going
          BY <4>3, <4>4
        <4>5. CASE 3 \notin going /\ 2 \in going
          BY <4>3, <4>5
        <4>6. CASE 3 \notin going /\ 2 \notin going
          BY <1>7, <4>3, <4>6
        <4> QED
          BY <4>4, <4>5, <4>6
      <3>2. m \in going /\ \A e \in going : e <= m
        <4> HIDE DEF going
        <4> QED
          BY <3>1
      <3>3. path' = Append(SubSeq(path, 1, m - 1), path[m] + 1) /\ level' = level
        BY <1>7, Zenon DEF NextIndex
      <3> HIDE DEF m, going
      <3> QED
        BY <3>2, <3>3, Zenon
    <2>2. /\ d \in 1 .. Len(path) /\ d \in 1 .. 3 /\ path[d] \in Nat /\ path[d] + 1 < Width
          /\ Height - d \in 0 .. 3
      <3>1. d \in 1 .. Len(path) /\ path[d] \in Nat /\ path[d] + 1 < Width
        BY <1>1, <2>1
      <3>2. \A h \in 1 .. 3, n \in 1 .. 3 : d \in 1 .. n /\ n <= h => d \in 1 .. 3 /\ h - d \in 0 .. 3
        OBVIOUS
      <3> QED
        BY <1>1, <3>1, <3>2, Zenon
    <2>3. \A e \in 1 .. Len(path) : e > d => path[e] + 1 = Width
      <3>1. \A e \in 1 .. Len(path) : path[e] + 1 < Width => e <= d
        BY <2>1, Zenon
      <3>2. \A n, w \in Nat : n < w /\ ~(n + 1 < w) => n + 1 = w
        OBVIOUS
      <3>3. \A e \in 1 .. Len(path) : e > d => ~(e <= d)
        BY <2>2
      <3> QED
        BY <1>1, <3>1, <3>2, <3>3, Zenon
    <2>4. /\ Len(path') = d /\ path' \in Seq(Nat) /\ path'[d] = path[d] + 1
          /\ \A e \in 1 .. 3 : e < d => path'[e] = path[e]
      <3> DEFINE s == SubSeq(path, 1, d - 1)
      <3>1. \A i \in 1 .. d - 1 : path[i] \in Nat
        BY <1>1, <2>2
      <3>2. /\ s \in Seq(Nat) /\ Len(s) = (IF 1 <= d - 1 THEN d - 1 - 1 + 1 ELSE 0)
            /\ \A i \in 1 .. d - 1 - 1 + 1 : s[i] = path[1 + i - 1]
        BY <2>2, <3>1, SubSeqProperties
      <3>3. Len(s) = d - 1 /\ \A i \in 1 .. 3 : i < d => s[i] = path[i]
        BY <2>2, <3>2
      <3>4. path' = Append(s, path[d] + 1) /\ path[d] + 1 \in Nat
        BY <2>1, <2>2
      <3> HIDE DEF s
      <3>5. /\ Append(s, path[d] + 1) \in Seq(Nat) /\ Len(Append(s, path[d] + 1)) = Len(s) + 1
            /\ \A i \in 1 .. Len(s) : Append(s, path[d] + 1)[i] = s[i]
            /\ Append(s, path[d] + 1)[Len(s) + 1] = path[d] + 1
        BY <3>2, <3>4, AppendProperties
      <3> QED
        BY <2>2, <3>3, <3>4, <3>5
    <2>5. Height' = Height /\ Width' = Width
      BY <2>1 DEF Height, Width
    <2>6. Placed'
      <3>1. level' \in 0 .. 4 /\ level' # 4 /\ d <= Height
        BY <1>1, <2>1, <2>2
      <3>2. level' = 0 => Len(path') = 1
        <4>1. level' = 0 => Len(path) = 1
          BY <2>1 DEF Placed
        <4>2. \A n \in Nat : n = 1 /\ d \in 1 .. n => d = 1
          OBVIOUS
        <4> QED
          BY <1>1, <2>2, <2>4, <4>1, <4>2, Zenon
      <3>3. \A e \in 1 .. Len(path') : path'[e] < Width
        <4> SUFFICES ASSUME NEW e \in 1 .. d PROVE path'[e] < Width
          BY <2>4
        <4>1. e \in 1 .. 3 /\ e \in 1 .. Len(path) /\ (e = d \/ e < d)
          BY <1>1, <2>2
        <4>2. CASE e = d
          BY <2>2, <2>4, <4>2
        <4>3. CASE e < d
          BY <1>1, <2>4, <4>1, <4>3, Zenon
        <4> QED
          BY <4>1, <4>2, <4>3
      <3> QED
        BY <2>4, <2>5, <3>1, <3>2, <3>3 DEF Placed
    <2>7. \A e \in 1 .. 3 : (Passed(e))' = IF e < d THEN Passed(e)
                                           ELSE IF e = d THEN Passed(d) + Blocks(Height - d) ELSE 0
      <3> SUFFICES ASSUME NEW e \in 1 .. 3
                   PROVE  (Passed(e))' = IF e < d THEN Passed(e)
                                         ELSE IF e = d THEN Passed(d) + Blocks(Height - d) ELSE 0
        OBVIOUS
      <3>1. (Passed(e))' = IF e <= d THEN path'[e] * Blocks(Height - e) ELSE 0
        BY <2>4, <2>5 DEF Passed
      <3>2. e <= d => Passed(e) = path[e] * Blocks(Height - e)
        BY <2>2 DEF Passed
      <3>3. CASE e < d
        BY <2>2, <2>4, <3>1, <3>2, <3>3
      <3>4. CASE e = d
        <4>1. Blocks(Height - d) \in Nat
          BY <1>5, <2>2
        <4>2. (path[d] + 1) * Blocks(Height - d) = path[d] * Blocks(Height - d) + Blocks(Height - d)
          BY <2>2, <4>1
        <4> QED
          BY <2>2, <2>4, <3>1, <3>2, <3>4, <4>2
      <3>5. CASE e > d
        BY <2>2, <3>1, <3>5
      <3> QED
        BY <2>2, <3>3, <3>4, <3>5
    <2>8. Block' = Block + Blocks(Height - Len(path))
      <3>1. Block' = Base(level) + (Passed(1))' + (Passed(2))' + (Passed(3))'
        BY <2>1 DEF Block
      <3>2. Blocks(Height - d) \in Nat
        BY <1>5, <2>2, Zenon
      <3>3. CASE d = Len(path)
        <4>1. CASE d = 1
          BY <1>2, <1>3, <1>4, <1>5, <2>7, <3>1, <3>2, <3>3, <4>1
        <4>2. CASE d = 2
          BY <1>2, <1>3, <1>4, <1>5, <2>7, <3>1, <3>2, <3>3, <4>2
        <4>3. CASE d = 3
          BY <1>2, <1>3, <1>4, <1>5, <2>7, <3>1, <3>2, <3>3, <4>3
        <4> QED
          BY <2>2, <4>1, <4>2, <4>3
      <3>4. CASE d # Len(path)
        <4>1. level \in 1 .. 3
          <5>1. ASSUME level = 0 PROVE FALSE
            <6>1. Len(path) = 1
              BY <5>1 DEF Placed
            <6> QED
              BY <2>2, <3>4, <6>1
          <5> QED
            BY <5>1
        <4>2. Width = P /\ Height = level
          BY <4>1 DEF Height, Width
        <4>3. \A e \in 1 .. 3 :
                e <= Len(path) /\ e > d => Passed(e) = Blocks(level - e + 1) - Blocks(level - e)
          <5> SUFFICES ASSUME NEW e \in 1 .. 3, e <= Len(path), e > d
                       PROVE  Passed(e) = Blocks(level - e + 1) - Blocks(level - e)
            OBVIOUS
          <5>1. e \in 1 .. Len(path)
            BY <1>1
          <5>2. path[e] + 1 = P
            BY <2>3, <4>2, <5>1
          <5> QED
            BY <4>1, <4>2, <5>2, PassedFacts, SMTT(20)
        <4>4. \/ Len(path) = 2 /\ d = 1
              \/ Len(path) = 3 /\ d = 1
              \/ Len(path) = 3 /\ d = 2
          <5>1. \A n \in 1 .. 3 : d \in 1 .. n /\ d # n =>
                  (n = 2 /\ d = 1) \/ (n = 3 /\ d = 1) \/ (n = 3 /\ d = 2)
            BY <2>2
          <5> QED
            BY <1>1, <2>2, <3>4, <5>1, Zenon
        <4>5. CASE Len(path) = 2 /\ d = 1
          <5>1. /\ (Passed(1))' = Passed(1) + Blocks(level - 1)
                /\ (Passed(2))' = 0 /\ (Passed(3))' = 0 /\ Passed(3) = 0
                /\ Passed(2) = Blocks(level - 1) - Blocks(level - 2)
            BY <1>3, <1>4, <2>7, <4>1, <4>2, <4>3, <4>5
          <5>2. level - 1 \in 0 .. 3 /\ level - 2 \in 0 .. 3 /\ Height - Len(path) = level - 2
            BY <1>1, <4>1, <4>2, <4>5
          <5>3. Blocks(level - 1) \in Nat /\ Blocks(level - 2) \in Nat
            BY <1>5, <5>2, Zenon
          <5>4. Blocks(Height - Len(path)) = Blocks(level - 2)
            BY <5>2, Zenon
          <5>5. PICK b, p, x, y \in Nat :
                  /\ b = Base(level) /\ p = Passed(1)
                  /\ x = Blocks(level - 1) /\ y = Blocks(level - 2)
            BY <1>4, <1>8, <5>3, Zenon
          <5>6. Block = b + p + (x - y) + 0
            BY <1>2, <5>1, <5>5, Zenon
          <5>7. Block' = b + (p + x) + 0 + 0 /\ Blocks(Height - Len(path)) = y
            BY <3>1, <5>1, <5>4, <5>5, Zenon
          <5> QED
            BY <5>6, <5>7
        <4>6. CASE Len(path) = 3 /\ d = 1
          <5>1. /\ (Passed(1))' = Passed(1) + Blocks(level - 1)
                /\ (Passed(2))' = 0 /\ (Passed(3))' = 0
                /\ Passed(2) = Blocks(level - 1) - Blocks(level - 2)
                /\ Passed(3) = Blocks(level - 2) - Blocks(level - 3)
            BY <1>3, <2>7, <4>1, <4>2, <4>3, <4>6
          <5>2. level - 1 \in 0 .. 3 /\ level - 2 \in 0 .. 3 /\ level - 3 \in 0 .. 3
                /\ Height - Len(path) = level - 3
            BY <1>1, <4>1, <4>2, <4>6
          <5>3. Blocks(level - 1) \in Nat /\ Blocks(level - 2) \in Nat /\ Blocks(level - 3) \in Nat
            BY <1>5, <5>2, Zenon
          <5>4. Blocks(Height - Len(path)) = Blocks(level - 3)
            BY <5>2, Zenon
          <5>5. PICK b, p, x, y, z \in Nat :
                  /\ b = Base(level) /\ p = Passed(1)
                  /\ x = Blocks(level - 1) /\ y = Blocks(level - 2) /\ z = Blocks(level - 3)
            BY <1>4, <1>8, <5>3, Zenon
          <5>6. Block = b + p + (x - y) + (y - z)
            BY <1>2, <5>1, <5>5, Zenon
          <5>7. Block' = b + (p + x) + 0 + 0 /\ Blocks(Height - Len(path)) = z
            BY <3>1, <5>1, <5>4, <5>5, Zenon
          <5> QED
            BY <5>6, <5>7
        <4>7. CASE Len(path) = 3 /\ d = 2
          <5>1. /\ (Passed(1))' = Passed(1) /\ (Passed(2))' = Passed(2) + Blocks(level - 2)
                /\ (Passed(3))' = 0
                /\ Passed(3) = Blocks(level - 2) - Blocks(level - 3)
            BY <1>3, <2>7, <4>1, <4>2, <4>3, <4>7
          <5>2. level - 2 \in 0 .. 3 /\ level - 3 \in 0 .. 3 /\ Height - Len(path) = level - 3
            BY <1>1, <4>1, <4>2, <4>7
          <5>3. Blocks(level - 2) \in Nat /\ Blocks(level - 3) \in Nat
            BY <1>5, <5>2, Zenon
          <5>4. Blocks(Height - Len(path)) = Blocks(level - 3)
            BY <5>2, Zenon
          <5>5. PICK b, p, q, y, z \in Nat :
                  /\ b = Base(level) /\ p = Passed(1) /\ q = Passed(2)
                  /\ y = Blocks(level - 2) /\ z = Blocks(level - 3)
            BY <1>4, <1>8, <5>3, Zenon
          <5>6. Block = b + p + q + (y - z)
            BY <1>2, <5>1, <5>5, Zenon
          <5>7. Block' = b + p + (q + y) + 0 /\ Blocks(Height - Len(path)) = z
            BY <3>1, <5>1, <5>4, <5>5, Zenon
          <5> QED
            BY <5>6, <5>7
        <4> QED
          BY <4>4, <4>5, <4>6, <4>7
      <3> QED
        BY <3>3, <3>4
    <2> QED
      BY <2>1, <2>6, <2>8
  <1> QED
    BY <1>6, <1>7

-----------------------------------------------------------------------------
(* Bytes listed *)

(* The bytes one call of copy_zone copies: m of them, from a on. *)
Run(a, m) == [k \in 1 .. m |-> a + k - 1]

LEMMA RunFacts ==
  ASSUME NEW a \in Nat, NEW m \in Nat
  PROVE  /\ Run(a, m) \in Seq(Nat) /\ Len(Run(a, m)) = m
         /\ \A k \in 1 .. m : Run(a, m)[k] = a + k - 1
  <1>1. \A k \in 1 .. m : a + k - 1 \in Nat
    OBVIOUS
  <1> QED
    BY <1>1 DEF Run

(* A list followed by the run behind it lists both. *)
LEMMA ListsMore ==
  ASSUME NEW s \in Seq(Nat), NEW S, Lists(s, S), NEW T, NEW a \in Nat, NEW m \in Nat,
         \A n \in S : n \in Nat /\ n < a,
         \A n \in Nat : n \in T <=> n \in S \/ (a <= n /\ n < a + m),
         T \subseteq Nat
  PROVE  Lists(s \o Run(a, m), T)
  <1> DEFINE u == s \o Run(a, m)
  <1>1. Run(a, m) \in Seq(Nat) /\ Len(Run(a, m)) = m /\ Len(s) \in Nat
        /\ \A k \in 1 .. m : Run(a, m)[k] = a + k - 1
    BY RunFacts
  <1> DEFINE L == Len(s)
  <1>2. Len(u) = L + m /\ \A k \in 1 .. L + m : u[k] = IF k <= L THEN s[k] ELSE Run(a, m)[k - L]
    <2> DEFINE r == Run(a, m)
    <2>1. r \in Seq(Nat) /\ Len(r) = m
      BY <1>1
    <2> HIDE DEF r
    <2>2. /\ Len(s \o r) = Len(s) + Len(r)
          /\ \A k \in 1 .. Len(s) + Len(r) : (s \o r)[k] = IF k <= Len(s) THEN s[k] ELSE r[k - Len(s)]
      BY <2>1, ConcatProperties, Zenon
    <2>3. /\ Len(s \o r) = Len(s) + m
          /\ \A k \in 1 .. Len(s) + m : (s \o r)[k] = IF k <= Len(s) THEN s[k] ELSE r[k - Len(s)]
      BY <2>1, <2>2
    <2> QED
      BY <2>3 DEF r
  <1>3. /\ \A k \in 1 .. L : u[k] = s[k] /\ s[k] \in Nat /\ s[k] < a /\ s[k] \in S
        /\ \A k \in 1 .. L + m : k > L => u[k] = a + (k - L) - 1
    <2>1. ASSUME NEW k \in 1 .. L PROVE u[k] = s[k] /\ s[k] \in Nat /\ s[k] < a /\ s[k] \in S
      <3>1. s[k] \in S
        BY DEF Lists
      <3>2. k \in 1 .. L + m /\ k <= L
        BY <1>1
      <3> QED
        BY <1>2, <3>1, <3>2
    <2>2. ASSUME NEW k \in 1 .. L + m, k > L PROVE u[k] = a + (k - L) - 1
      <3>1. k - L \in 1 .. m /\ ~(k <= L)
        BY <1>1, <2>2
      <3> QED
        BY <1>1, <1>2, <3>1
    <2> QED
      BY <2>1, <2>2, Zenon
  <1>4. L \in Nat
    BY <1>1
  <1> HIDE DEF u, L
  <1>5. ASSUME NEW j \in 1 .. L + m, NEW k \in 1 .. L + m, j < k PROVE u[j] < u[k]
    <2>1. CASE k <= L
      <3>1. j \in 1 .. L /\ k \in 1 .. L
        BY <1>4, <1>5, <2>1
      <3>2. s[j] < s[k]
        BY <1>5, <3>1 DEF Lists, L
      <3> QED
        BY <1>3, <3>1, <3>2
    <2>2. CASE j <= L /\ k > L
      <3>1. j \in 1 .. L
        BY <1>4, <2>2
      <3> QED
        BY <1>3, <1>4, <2>2, <3>1
    <2>3. CASE j > L /\ k > L
      BY <1>3, <1>4, <1>5, <2>3
    <2> QED
      BY <1>4, <1>5, <2>1, <2>2, <2>3
  <1>6. ASSUME NEW n \in T PROVE \E k \in 1 .. L + m : u[k] = n
    <2>1. n \in Nat /\ (n \in S \/ (a <= n /\ n < a + m))
      OBVIOUS
    <2>2. CASE n \in S
      <3>1. PICK k \in 1 .. L : s[k] = n
        BY <2>2 DEF Lists, L
      <3> QED
        BY <1>3, <1>4, <3>1
    <2>3. CASE a <= n /\ n < a + m
      <3>1. L + (n - a) + 1 \in 1 .. L + m /\ L + (n - a) + 1 > L
        BY <1>4, <2>1, <2>3
      <3>2. u[L + (n - a) + 1] = a + ((L + (n - a) + 1) - L) - 1
        BY <1>3, <3>1
      <3>3. u[L + (n - a) + 1] = n
        BY <1>4, <2>1, <3>2
      <3> QED
        BY <3>1, <3>3
    <2> QED
      BY <2>1, <2>2, <2>3
  <1>7. ASSUME NEW k \in 1 .. L + m PROVE u[k] \in T
    <2>1. CASE k <= L
      <3>1. k \in 1 .. L
        BY <1>4, <2>1
      <3> QED
        BY <1>3, <3>1
    <2>2. CASE k > L
      <3>1. u[k] \in Nat /\ a <= u[k] /\ u[k] < a + m
        BY <1>3, <1>4, <2>2
      <3> QED
        BY <3>1
    <2> QED
      BY <1>4, <2>1, <2>2
  <1>8. Len(u) = L + m
    BY <1>2 DEF u, L
  <1>9. Lists(u, T)
    BY <1>5, <1>6, <1>7, <1>8 DEF Lists
  <1> QED
    BY <1>9 DEF u

-----------------------------------------------------------------------------
(* What the invariant says of one state *)

LEMMA Numbers ==
  ASSUME Typed
  PROVE  /\ len \in Nat /\ size \in Nat /\ offset \in Nat /\ logical \in Nat /\ cur_offset \in Nat
         /\ size <= FileCapacity /\ end \in Int
         /\ offset < size /\ len > 0 => offset < end /\ end <= size /\ end \in Nat
         /\ offset >= size \/ len = 0 => end <= offset
  <1>1. len \in Nat /\ size \in 0 .. FileCapacity
    BY LayoutAssumption DEF Typed
  <1>2. /\ size \in Nat /\ offset \in Nat /\ logical \in Nat /\ cur_offset \in Nat
        /\ size <= FileCapacity
    BY <1>1, CapacityFacts DEF Typed
  <1> QED
    BY <1>1, <1>2 DEF end

(* While the double indirect zones are not all missing, `logical' is the   *)
(* first byte below the place the walk is at.                              *)
LEMMA LogicalHere ==
  ASSUME Inv, DoublePresent, level \in 0 .. 3
  PROVE  logical = Block * BLOCK_SIZE
  BY DEF Inv, Aligned

(* In a file whose zero zone numbers are Benign, a running read is not     *)
(* before the place it is at.                                              *)
LEMMA NotBefore ==
  ASSUME Inv, Benign, DoublePresent /\ cur_offset < logical => cur_offset \div BLOCK_SIZE \in missing
  PROVE  logical <= cur_offset
  <1>1. offset <= cur_offset
    BY DEF Inv, ListedSoFar
  <1>2. offset \in Nat /\ logical \in Nat /\ cur_offset \in Nat
    BY DEF Inv, Typed
  <1> SUFFICES ASSUME cur_offset < logical PROVE FALSE
    BY <1>2
  <1> DEFINE q == offset \div BLOCK_SIZE
             r == cur_offset \div BLOCK_SIZE
  <1>3. q \in Nat /\ r \in Nat /\ q * BLOCK_SIZE <= offset
    BY <1>2, BlockOfByte
  <1>4. r < q
    BY DEF Benign
  <1>5. q * BLOCK_SIZE <= cur_offset
    BY <1>1, <1>2, <1>3, LayoutFacts
  <1>6. q <= r
    BY <1>2, <1>3, <1>5, BlocksOfBytes
  <1> HIDE DEF q, r
  <1> QED
    BY <1>3, <1>4, <1>6

(* Zero zone numbers are only added. *)
LEMMA BenignBefore ==
  ASSUME holes \subseteq holes', missing \subseteq missing', offset' = offset
  PROVE  (DoublePresent' => DoublePresent) /\ (Benign' => Benign)
  <1>1. DoublePresent' => DoublePresent
    BY DEF DoublePresent
  <1> QED
    BY <1>1 DEF Benign

-----------------------------------------------------------------------------
(* The invariant holds at first, and every step preserves it *)

LEMMA InitInv ==
  ASSUME Init
  PROVE  Inv
  <1>1. Typed
    BY CapacityFacts, LayoutFacts DEF Init, Typed
  <1>2. Placed
    BY LayoutFacts DEF Init, Placed, Height, Width
  <1>3. Block = 0
    <2>1. /\ level = 0 /\ Len(path) = 1 /\ path[1] = 0 /\ Height = 1
      BY DEF Init, Height
    <2>2. Passed(1) = 0 /\ Passed(2) = 0 /\ Passed(3) = 0
      BY <2>1, BlocksFacts DEF Passed
    <2> QED
      BY <2>1, <2>2, BaseFacts DEF Block
  <1>4. Aligned /\ NotBehind /\ HolesBehind /\ Untouched /\ PanicOnMissing
    BY <1>3, LayoutFacts DEF Init, Aligned, NotBehind, HolesBehind, Untouched, PanicOnMissing
  <1>5. Lists(out, Bytes(cur_offset))
    <2>1. out = <<>> /\ offset \in Nat /\ cur_offset = offset /\ Len(out) = 0
      BY CapacityFacts DEF Init
    <2>2. Bytes(cur_offset) = {}
      BY <2>1 DEF Bytes
    <2> QED
      BY <2>1, <2>2 DEF Lists
  <1>6. ListedSoFar
    <2>1. offset <= cur_offset /\ result = "none"
      BY CapacityFacts DEF Init
    <2> QED
      BY <1>5, <2>1 DEF ListedSoFar
  <1> QED
    BY <1>1, <1>2, <1>4, <1>6 DEF Inv

(* read_file returns: nothing moves but the result. *)
LEMMA ReturnInv ==
  ASSUME Inv, NEW r \in {"ok", "err", "panic"}, Return(r),
         r = "panic" => (DoublePresent => cur_offset \div BLOCK_SIZE \in missing),
         r = "ok" => (Benign => Lists(out, Bytes(end)))
  PROVE  Inv'
  <1>1. /\ result' = r /\ len' = len /\ size' = size /\ offset' = offset /\ level' = level
        /\ path' = path /\ logical' = logical /\ cur_offset' = cur_offset /\ out' = out
        /\ zeros' = zeros /\ holes' = holes /\ missing' = missing
    BY DEF Return, args
  <1>2. r # "none" /\ r # "running"
    OBVIOUS
  <1>3. Typed'
    BY <1>1 DEF Inv, Typed
  <1>4. Placed'
    BY <1>1 DEF Inv, Placed, Height, Width
  <1>5. Block' = Block /\ DoublePresent' = DoublePresent /\ Benign' = Benign /\ end' = end
    BY <1>1 DEF Block, Passed, Height, DoublePresent, Benign, end
  <1>6. Aligned'
    BY <1>1, <1>5 DEF Inv, Aligned
  <1>7. NotBehind' /\ HolesBehind' /\ Untouched'
    BY <1>1, <1>2 DEF NotBehind, HolesBehind, Untouched
  <1>8. PanicOnMissing'
    BY <1>1, <1>5 DEF PanicOnMissing
  <1>9. Bytes(end)' = Bytes(end)
    BY <1>1, <1>5 DEF Bytes
  <1>10. ASSUME Benign' PROVE ListedSoFar'
    <2>1. ListedSoFar /\ Benign
      BY <1>5, <1>10 DEF Inv
    <2>2. result' = "ok" => Lists(out, Bytes(end))'
      BY <1>1, <1>9, <2>1 DEF Lists
    <2> QED
      BY <1>1, <1>2, <2>1, <2>2 DEF ListedSoFar
  <1> QED
    BY <1>3, <1>4, <1>6, <1>7, <1>8, <1>10 DEF Inv

LEMMA StartInv ==
  ASSUME Inv, Start
  PROVE  Inv'
  <1>1. result = "none" /\ Typed /\ Untouched
    BY DEF Inv, Start
  <1>2. cur_offset = offset /\ logical = 0
    BY <1>1 DEF Untouched
  <1>3. CASE offset >= size \/ len = 0
    <2>1. Return("ok")
      BY <1>3 DEF Start
    <2>2. ASSUME Benign PROVE Lists(out, Bytes(end))
      <3>1. Lists(out, Bytes(cur_offset))
        BY <1>1, <2>2 DEF Inv, ListedSoFar
      <3>2. end <= offset /\ end \in Int /\ offset \in Nat
        BY <1>1, <1>3, Numbers
      <3>3. Bytes(end) = {} /\ Bytes(cur_offset) = {}
        BY <1>2, <3>2 DEF Bytes
      <3> QED
        BY <3>1, <3>3
    <2> QED
      BY <2>1, <2>2, ReturnInv
  <1>4. CASE ~(offset >= size \/ len = 0)
    <2>1. Return("running")
      BY <1>4 DEF Start
    <2>2. /\ result' = "running" /\ len' = len /\ size' = size /\ offset' = offset /\ level' = level
          /\ path' = path /\ logical' = logical /\ cur_offset' = cur_offset /\ out' = out
          /\ zeros' = zeros /\ holes' = holes /\ missing' = missing
      BY <2>1 DEF Return, args
    <2>3. Typed'
      BY <2>2 DEF Inv, Typed
    <2>4. Placed'
      BY <2>2 DEF Inv, Placed, Height, Width
    <2>5. Block' = Block /\ DoublePresent' = DoublePresent /\ Benign' = Benign /\ end' = end
      BY <2>2 DEF Block, Passed, Height, DoublePresent, Benign, end
    <2>6. Aligned'
      BY <2>2, <2>5 DEF Inv, Aligned
    <2>7. offset < size /\ len > 0 /\ offset < end /\ offset \in Nat
      BY <1>1, <1>4, Numbers
    <2>8. NotBehind'
      BY <1>2, <2>2, <2>5, <2>7 DEF NotBehind
    <2>9. HolesBehind' /\ Untouched' /\ PanicOnMissing'
      BY <1>1, <2>2, <2>5 DEF Inv, HolesBehind, Untouched, PanicOnMissing
    <2>10. ASSUME Benign' PROVE ListedSoFar'
      <3>1. ListedSoFar
        BY <2>5, <2>10 DEF Inv
      <3>2. (Bytes(cur_offset))' = Bytes(cur_offset)
        BY <2>2 DEF Bytes
      <3>3. (Lists(out, Bytes(cur_offset)))'
        BY <1>1, <2>2, <3>1, <3>2 DEF ListedSoFar, Lists
      <3> QED
        BY <1>2, <2>2, <3>1, <3>3 DEF ListedSoFar
    <2> QED
      BY <2>3, <2>4, <2>6, <2>8, <2>9, <2>10 DEF Inv
  <1> QED
    BY <1>3, <1>4

LEMMA FailInv ==
  ASSUME Inv, StartFails \/ ReadFails
  PROVE  Inv'
  <1>1. Return("err")
    BY DEF StartFails, ReadFails
  <1> QED
    BY <1>1, ReturnInv

LEMMA CopyUnderflowsInv ==
  ASSUME Inv, CopyUnderflows
  PROVE  Inv'
  <1>1. Return("panic") /\ result = "running" /\ cur_offset < logical
    BY DEF CopyUnderflows
  <1>2. DoublePresent => cur_offset \div BLOCK_SIZE \in missing
    BY <1>1 DEF Inv, NotBehind
  <1> QED
    BY <1>1, <1>2, ReturnInv

(* The walk ends inside the window only after a missing pointer. *)
LEMMA WalkEndsInv ==
  ASSUME Inv, WalkEnds
  PROVE  Inv'
  <1>1. Return("ok") /\ result = "running" /\ level = 4
    BY DEF WalkEnds
  <1>2. ASSUME Benign PROVE FALSE
    <2>1. /\ offset < size /\ cur_offset < end /\ end <= size /\ size <= FileCapacity
          /\ offset \in Nat /\ cur_offset \in Nat /\ end \in Nat /\ size \in Nat
      BY <1>1, Numbers DEF Inv, NotBehind
    <2>2. logical <= cur_offset
      BY <1>1, <1>2, NotBefore DEF Inv, NotBehind
    <2>3. Block = Base(4) /\ Base(4) \in Nat /\ Base(4) > 0
      <3>1. Len(path) = 0 /\ Placed
        BY <1>1 DEF Inv, Placed
      <3>2. Passed(1) = 0 /\ Passed(2) = 0 /\ Passed(3) = 0
        BY <3>1 DEF Passed
      <3>3. Base(4) \in Nat /\ Base(1) \in Nat /\ Base(4) >= Base(1) /\ Base(1) > 0
        <4>1. 1 \in 0 .. 4 /\ 4 \in 0 .. 4
          OBVIOUS
        <4>2. Base(1) \in Nat /\ Base(4) \in Nat /\ Base(1) <= Base(4) /\ Base(1) = NUM_DIRECT_ZONES
          BY <4>1, BaseFacts, Zenon
        <4> QED
          BY <4>2, LayoutFacts
      <3>4. Block = Base(4) + 0 + 0 + 0
        BY <1>1, <3>2, Zenon DEF Block
      <3> QED
        BY <3>3, <3>4
    <2>4. logical # Block * BLOCK_SIZE
      BY <2>1, <2>2, <2>3, CapacityFacts
    <2>5. Base(4) - 1 \in missing
      BY <1>2, <2>4 DEF Inv, Aligned, Benign
    <2>6. Base(4) - 1 < offset \div BLOCK_SIZE
      BY <1>2, <2>5 DEF Benign
    <2>7. offset \div BLOCK_SIZE < Base(4)
      BY <2>1, <2>3, BlocksOfBytes, CapacityFacts
    <2> QED
      BY <2>1, <2>3, <2>6, <2>7, BlockOfByte
  <1> QED
    BY <1>1, <1>2, ReturnInv

(* A read that has returned, and a stuttering step. *)
LEMMA StillInv ==
  ASSUME Inv, UNCHANGED vars
  PROVE  Inv'
  <1>1. /\ result' = result /\ len' = len /\ size' = size /\ offset' = offset /\ level' = level
        /\ path' = path /\ logical' = logical /\ cur_offset' = cur_offset /\ out' = out
        /\ zeros' = zeros /\ holes' = holes /\ missing' = missing
    BY DEF vars
  <1>2. Block' = Block /\ DoublePresent' = DoublePresent /\ Benign' = Benign /\ end' = end
    BY <1>1 DEF Block, Passed, Height, DoublePresent, Benign, end
  <1>3. Typed' /\ Placed'
    BY <1>1 DEF Inv, Typed, Placed, Height, Width
  <1>4. Aligned' /\ NotBehind' /\ HolesBehind' /\ Untouched' /\ PanicOnMissing'
    BY <1>1, <1>2 DEF Inv, Aligned, NotBehind, HolesBehind, Untouched, PanicOnMissing
  <1>5. (Bytes(end))' = Bytes(end) /\ (Bytes(cur_offset))' = Bytes(cur_offset)
    BY <1>1, <1>2 DEF Bytes
  <1>6. ListedSoFar => ListedSoFar'
    BY <1>1, <1>5 DEF ListedSoFar, Lists
  <1> QED
    BY <1>2, <1>3, <1>4, <1>6 DEF Inv

(* The place below a pointer begins where the pointer's does. *)
LEMMA FollowPointerPlace ==
  ASSUME Inv, FollowPointer
  PROVE  Placed' /\ Block' = Block
  <1>1. /\ result = "running" /\ level \in 1 .. 3 /\ Len(path) # Height
        /\ path' = Append(path, 0)
        /\ result' = result /\ len' = len /\ size' = size /\ offset' = offset /\ level' = level
        /\ logical' = logical /\ cur_offset' = cur_offset /\ out' = out
        /\ zeros' = zeros /\ holes' = holes /\ missing' = missing
    BY DEF FollowPointer, AtData, args
  <1>2. /\ path \in Seq(Nat) /\ Len(path) \in Nat /\ Len(path) <= Height
        /\ \A d \in 1 .. Len(path) : path[d] < Width
    BY DEF Inv, Placed
  <1>3. /\ path' \in Seq(Nat) /\ Len(path') = Len(path) + 1
        /\ \A d \in 1 .. Len(path) : path'[d] = path[d]
        /\ path'[Len(path) + 1] = 0
    BY <1>1, <1>2, AppendProperties
  <1>4. Height' = Height /\ Width' = Width /\ Height \in Nat /\ Width \in Nat /\ Width > 0
        /\ Height = level
    BY <1>1, LayoutFacts DEF Height, Width
  <1>5. Placed'
    <2>1. Len(path') <= Height'
      BY <1>1, <1>2, <1>3, <1>4
    <2>2. ASSUME NEW d \in 1 .. Len(path') PROVE path'[d] < Width
      <3>1. CASE d = Len(path) + 1
        BY <1>3, <1>4, <3>1
      <3>2. CASE d # Len(path) + 1
        <4>1. d \in 1 .. Len(path)
          BY <1>2, <1>3, <3>2
        <4> QED
          BY <1>2, <1>3, <4>1, Zenon
      <3> QED
        BY <3>1, <3>2
    <2>3. level' \in 0 .. 4 /\ level' # 0 /\ level' # 4
      BY <1>1
    <2> QED
      BY <1>3, <1>4, <2>1, <2>2, <2>3 DEF Placed
  <1>6. Block' = Block
    <2>1. ASSUME NEW d \in 1 .. 3 PROVE (Passed(d))' = Passed(d)
      <3>1. CASE d <= Len(path)
        <4>1. d \in 1 .. Len(path) /\ d <= Len(path')
          BY <1>2, <1>3, <3>1
        <4> QED
          BY <1>3, <1>4, <3>1, <4>1 DEF Passed
      <3>2. CASE d = Len(path) + 1
        <4>1. Blocks(Height - d) \in Nat
          <5>1. Height - d \in 0 .. 3
            BY <1>1, <1>2, <1>4, <3>2
          <5> QED
            BY <5>1, BlocksFacts
        <4>2. 0 * Blocks(Height - d) = 0
          BY <4>1
        <4>3. ~(d <= Len(path)) /\ d <= Len(path')
          BY <1>2, <1>3, <3>2
        <4>4. (Passed(d))' = path'[d] * Blocks(Height - d)
          BY <1>4, <4>3 DEF Passed
        <4>5. path'[d] = 0
          BY <1>3, <3>2
        <4> QED
          BY <4>2, <4>3, <4>4, <4>5 DEF Passed
      <3>3. CASE d > Len(path) + 1
        <4>1. ~(d <= Len(path)) /\ ~(d <= Len(path'))
          BY <1>2, <1>3, <3>3
        <4> QED
          BY <4>1 DEF Passed
      <3> QED
        BY <1>2, <3>1, <3>2, <3>3
    <2>2. (Passed(1))' = Passed(1) /\ (Passed(2))' = Passed(2) /\ (Passed(3))' = Passed(3)
      BY <2>1
    <2> QED
      BY <1>1, <2>2 DEF Block
  <1> QED
    BY <1>5, <1>6

(* A block of zone numbers is read. *)
LEMMA FollowPointerInv ==
  ASSUME Inv, FollowPointer
  PROVE  Inv'
  <1>1. /\ result = "running" /\ level \in 1 .. 3 /\ Len(path) # Height
        /\ path' = Append(path, 0)
        /\ result' = result /\ len' = len /\ size' = size /\ offset' = offset /\ level' = level
        /\ logical' = logical /\ cur_offset' = cur_offset /\ out' = out
        /\ zeros' = zeros /\ holes' = holes /\ missing' = missing
    BY DEF FollowPointer, AtData, args
  <1>6. Placed' /\ Block' = Block
    BY FollowPointerPlace
  <1>7. DoublePresent' = DoublePresent /\ Benign' = Benign /\ end' = end
    BY <1>1 DEF DoublePresent, Benign, end
  <1>8. Typed'
    BY <1>1 DEF Inv, Typed
  <1>9. Aligned' /\ NotBehind' /\ HolesBehind' /\ Untouched' /\ PanicOnMissing'
    BY <1>1, <1>6, <1>7 DEF Inv, Aligned, NotBehind, HolesBehind, Untouched, PanicOnMissing
  <1>10. (Bytes(end))' = Bytes(end) /\ (Bytes(cur_offset))' = Bytes(cur_offset)
    BY <1>1, <1>7 DEF Bytes
  <1>11. ListedSoFar => ListedSoFar'
    BY <1>1, <1>10 DEF ListedSoFar, Lists
  <1> QED
    BY <1>6, <1>7, <1>8, <1>9, <1>11 DEF Inv

(* The n blocks from b on end before block b + n. *)
LEMMA LastOfRange ==
  ASSUME NEW b \in Nat, NEW n \in Nat, n > 0, NEW c \in Nat, c = b + n
  PROVE  /\ c - 1 \in b .. b + n - 1
         /\ b * BLOCK_SIZE <= c * BLOCK_SIZE
         /\ \A d \in Nat : d <= b => (b - d) * BLOCK_SIZE <= c * BLOCK_SIZE
  <1>1. c - 1 \in b .. b + n - 1
    OBVIOUS
  <1>2. ASSUME NEW a \in Nat, a <= b PROVE a * BLOCK_SIZE <= c * BLOCK_SIZE
    <2>1. a <= c
      BY <1>2
    <2> QED
      BY <2>1, TimesMonotone, LayoutFacts
  <1>3. b <= b /\ \A d \in Nat : d <= b => b - d \in Nat /\ b - d <= b
    OBVIOUS
  <1> QED
    BY <1>1, <1>2, <1>3, Zenon

(* The walk passes a place whose pointer is zero: the blocks below it are  *)
(* missing, and `logical' moves over them, except at a missing double or   *)
(* triple indirect block of the inode.                                     *)
LEMMA PlacePassed ==
  ASSUME Inv, result = "running", level \in 1 .. 3,
         result' = result, len' = len, size' = size, offset' = offset,
         cur_offset' = cur_offset, out' = out, holes' = holes,
         zeros' \in Nat, missing' = missing \cup Below,
         Placed', level' \in {level, level + 1},
         NEW n \in Nat, n = Blocks(Height - Len(path)), n > 0, Block' = Block + n,
         \/ logical' = logical + n * BLOCK_SIZE
         \/ /\ logical' = logical /\ level \in 2 .. 3 /\ level' = level + 1
            /\ n = Blocks(level) /\ Block = Base(level)
  PROVE  Inv'
  <1>1. /\ Typed /\ Placed /\ Aligned /\ NotBehind /\ HolesBehind
        /\ Block \in Nat /\ logical \in Nat /\ cur_offset \in Nat /\ offset \in Nat
    BY PlaceRange, SMTT(20) DEF Inv, Typed
  <1>2. Below = Block .. Block + n - 1
    BY DEF Below
  <1>3. (DoublePresent' => DoublePresent) /\ (Benign' => Benign) /\ end' = end
    BY BenignBefore DEF end
  <1>4. logical' \in Nat /\ logical <= logical'
    <2>1. n * BLOCK_SIZE \in Nat
      BY LayoutFacts
    <2> QED
      BY <1>1, <2>1
  <1>5. Typed'
    <2>1. missing' \subseteq Nat
      <3>1. \A b \in Block .. Block + n - 1 : b \in Nat
        BY <1>1
      <3>2. missing \subseteq Nat
        BY <1>1 DEF Typed
      <3> QED
        BY <1>2, <3>1, <3>2, Zenon
    <2> QED
      BY <1>1, <1>4, <2>1 DEF Typed
  <1> DEFINE Kept == Aligned' /\ (DoublePresent' /\ cur_offset < logical'
                                  => cur_offset \div BLOCK_SIZE \in missing')
  <1>6. ASSUME logical' = logical + n * BLOCK_SIZE
        PROVE  Kept
    <2>1. Aligned'
      <3>1. CASE logical = Block * BLOCK_SIZE
        <4>1. Block * BLOCK_SIZE + n * BLOCK_SIZE = (Block + n) * BLOCK_SIZE
          BY <1>1, LayoutFacts
        <4> QED
          BY <1>6, <3>1, <4>1 DEF Aligned
      <3>2. CASE ~DoublePresent /\ level >= 3 /\ logical = (Block - Blocks(2)) * BLOCK_SIZE
        <4>1. Blocks(2) \in Nat
          BY BlocksFacts
        <4>2. (Block - Blocks(2)) * BLOCK_SIZE + n * BLOCK_SIZE = (Block + n - Blocks(2)) * BLOCK_SIZE
          BY <1>1, <4>1, LayoutFacts, SMTT(20)
        <4>3. level' >= 3 /\ ~DoublePresent'
          BY <1>3, <3>2
        <4>4. logical' = (Block' - Blocks(2)) * BLOCK_SIZE
          <5>1. logical' = (Block + n - Blocks(2)) * BLOCK_SIZE
            BY <1>6, <3>2, <4>2
          <5>2. Block' - Blocks(2) = Block + n - Blocks(2)
            BY <1>1, <4>1
          <5> QED
            BY <5>1, <5>2, Zenon
        <4> QED
          BY <4>3, <4>4 DEF Aligned
      <3> QED
        BY <1>1, <3>1, <3>2 DEF Aligned
    <2>2. ASSUME DoublePresent', cur_offset < logical'
          PROVE  cur_offset \div BLOCK_SIZE \in missing'
      <3>1. DoublePresent /\ logical = Block * BLOCK_SIZE
        BY <1>3, <2>2, LogicalHere
      <3>2. CASE cur_offset < logical
        BY <1>1, <3>1, <3>2 DEF NotBehind
      <3>3. CASE logical <= cur_offset
        <4>1. Block * BLOCK_SIZE + n * BLOCK_SIZE = (Block + n) * BLOCK_SIZE /\ Block + n \in Nat
          BY <1>1, LayoutFacts
        <4>2. Block * BLOCK_SIZE <= cur_offset /\ cur_offset < (Block + n) * BLOCK_SIZE
          BY <1>6, <2>2, <3>1, <3>3, <4>1
        <4>3. Block <= cur_offset \div BLOCK_SIZE /\ cur_offset \div BLOCK_SIZE < Block + n
          BY <1>1, <4>1, <4>2, BlocksOfBytes
        <4>4. cur_offset \div BLOCK_SIZE \in Below
          <5>1. cur_offset \div BLOCK_SIZE \in Nat
            BY <1>1, BlockOfByte, Zenon
          <5>2. \A q \in Nat : Block <= q /\ q < Block + n => q \in Block .. Block + n - 1
            BY <1>1
          <5> QED
            BY <1>2, <4>3, <5>1, <5>2, Zenon
        <4> QED
          BY <4>4
      <3> QED
        BY <1>1, <3>2, <3>3
    <2> QED
      BY <2>1, <2>2
  <1>7. ASSUME logical' = logical, level \in 2 .. 3, level' = level + 1,
               n = Blocks(level), Block = Base(level)
        PROVE  Kept
    <2>1. Aligned'
      <3>1. CASE level = 2
        <4>1. logical = Block * BLOCK_SIZE
          BY <1>1, <3>1 DEF Aligned
        <4>2. Base(3) = Block + n /\ Block = Base(2) /\ n = Blocks(2)
          BY <1>7, <3>1, BaseFacts
        <4>3. ~DoublePresent'
          <5>1. Base(2) .. Base(3) - 1 = Below
            <6>1. Base(3) - 1 = Block + n - 1
              BY <1>1, <4>2
            <6> QED
              BY <1>2, <4>2, <6>1, Zenon
          <5>2. Base(2) .. Base(3) - 1 \subseteq missing'
            BY <5>1, Zenon
          <5> QED
            BY <5>2, Zenon DEF DoublePresent
        <4>4. Block' - Blocks(2) = Block
          BY <1>1, <4>2
        <4> QED
          BY <1>7, <3>1, <4>1, <4>3, <4>4 DEF Aligned
      <3>2. CASE level = 3
        <4>1. Base(4) = Block + n /\ Base(4) \in Nat
          BY <1>7, <3>2, BaseFacts
        <4>2. Base(4) - 1 \in missing'
          <5>1. Base(4) - 1 \in Block .. Block + n - 1
            BY <1>1, <4>1, LastOfRange, Zenon
          <5> QED
            BY <1>2, <5>1, Zenon
        <4>3. Block * BLOCK_SIZE <= FileCapacity
          BY <1>1, <4>1, LastOfRange, Zenon DEF FileCapacity
        <4>4. ASSUME logical = (Block - Blocks(2)) * BLOCK_SIZE PROVE logical <= FileCapacity
          <5>1. Blocks(2) \in Nat /\ Base(2) \in Nat /\ Base(3) = Base(2) + Blocks(2)
            BY BlocksFacts, BaseFacts
          <5>2. Blocks(2) <= Block
            BY <1>7, <3>2, <5>1
          <5> QED
            BY <1>1, <4>1, <4>4, <5>1, <5>2, LastOfRange, Zenon DEF FileCapacity
        <4>5. logical <= FileCapacity
          BY <1>1, <3>2, <4>3, <4>4 DEF Aligned
        <4> QED
          BY <1>7, <3>2, <4>2, <4>5 DEF Aligned
      <3> QED
        BY <1>7, <3>1, <3>2
    <2>2. ASSUME DoublePresent', cur_offset < logical'
          PROVE  cur_offset \div BLOCK_SIZE \in missing'
      BY <1>1, <1>3, <1>7, <2>2 DEF NotBehind
    <2> QED
      BY <2>1, <2>2
  <1>8. Kept
    BY <1>6, <1>7
  <1>9. NotBehind'
    BY <1>1, <1>3, <1>8 DEF NotBehind
  <1>10. HolesBehind'
    BY <1>1 DEF HolesBehind, Typed
  <1>11. Untouched' /\ PanicOnMissing'
    BY DEF Untouched, PanicOnMissing
  <1>12. ASSUME Benign' PROVE ListedSoFar'
    <2>1. ListedSoFar
      BY <1>3, <1>12 DEF Inv
    <2>2. (Bytes(cur_offset))' = Bytes(cur_offset)
      BY DEF Bytes
    <2>3. (Lists(out, Bytes(cur_offset)))'
      BY <2>1, <2>2 DEF ListedSoFar, Lists
    <2>4. cur_offset' = offset' \/ cur_offset' <= logical'
      BY <1>1, <1>4, <2>1 DEF ListedSoFar
    <2> QED
      BY <2>1, <2>3, <2>4 DEF ListedSoFar
  <1> QED
    BY <1>5, <1>8, <1>9, <1>10, <1>11, <1>12 DEF Inv

LEMMA NoRootInv ==
  ASSUME Inv, NoRoot
  PROVE  Inv'
  <1>1. /\ result = "running" /\ level \in 1 .. 3 /\ Len(path) = 0 /\ NextLevel
        /\ missing' = missing \cup Below
        /\ logical' = (IF level = 1 THEN logical + Blocks(1) * BLOCK_SIZE ELSE logical)
        /\ result' = result /\ len' = len /\ size' = size /\ offset' = offset
        /\ cur_offset' = cur_offset /\ out' = out /\ holes' = holes
    BY DEF NoRoot, args
  <1>2. zeros' \in Nat
    BY DEF Inv, Typed, NoRoot, Zero
  <1>3. Placed' /\ Block' = Base(level + 1) /\ level' = level + 1
    BY <1>1, LevelLeft DEF Inv
  <1>4. Height - Len(path) = level
    BY <1>1 DEF Height
  <1>5. /\ Blocks(level) \in Nat /\ Blocks(level) > 0 /\ Base(level) \in Nat
        /\ Base(level + 1) = Base(level) + Blocks(level)
    <2>1. level \in 0 .. 3 /\ level \in 0 .. 4
      BY <1>1
    <2> QED
      BY <1>1, <2>1, BlocksFacts, BaseFacts, Zenon
  <1>6. Block = Base(level)
    <2>1. Passed(1) = 0 /\ Passed(2) = 0 /\ Passed(3) = 0
      BY <1>1 DEF Passed
    <2>2. Block = Base(level) + 0 + 0 + 0
      BY <2>1, Zenon DEF Block
    <2> QED
      BY <1>5, <2>2
  <1>7. Blocks(level) = Blocks(Height - Len(path)) /\ Block' = Block + Blocks(level)
    BY <1>3, <1>4, <1>5, <1>6, Zenon
  <1>8. CASE level = 1
    <2>1. logical' = logical + Blocks(level) * BLOCK_SIZE
      BY <1>1, <1>8
    <2> QED
      BY <1>1, <1>2, <1>3, <1>5, <1>7, <2>1, PlacePassed
  <1>9. CASE level \in 2 .. 3
    <2>1. logical' = logical
      BY <1>1, <1>9
    <2> QED
      BY <1>1, <1>2, <1>3, <1>5, <1>6, <1>7, <1>9, <2>1, PlacePassed
  <1> QED
    BY <1>1, <1>8, <1>9

LEMMA ZeroPointerInv ==
  ASSUME Inv, ZeroPointer
  PROVE  Inv'
  <1>1. /\ result = "running" /\ level \in 2 .. 3 /\ path # <<>> /\ Len(path) # Height /\ NextIndex
        /\ missing' = missing \cup Below
        /\ logical' = logical + Blocks(level - Len(path)) * BLOCK_SIZE
        /\ result' = result /\ len' = len /\ size' = size /\ offset' = offset
        /\ cur_offset' = cur_offset /\ out' = out /\ holes' = holes
    BY DEF ZeroPointer, AtData, args
  <1>2. zeros' \in Nat
    BY DEF Inv, Typed, ZeroPointer, Zero
  <1>3. Placed /\ Height = level /\ level \in 0 .. 3 /\ level \in 1 .. 3
    BY <1>1 DEF Inv, Height
  <1>4. Len(path) \in Nat /\ Len(path) > 0
    BY <1>1, <1>3, EmptySeq DEF Placed
  <1> DEFINE n == Blocks(Height - Len(path))
  <1>5. Placed' /\ Block' = Block + n /\ level' \in {level, level + 1}
    BY <1>1, <1>3, <1>4, IterationLeft
  <1>6. n \in Nat /\ n > 0
    BY <1>3, BlocksFacts, PlaceRange, SMTT(20)
  <1>7. logical' = logical + n * BLOCK_SIZE
    BY <1>1, <1>3, Zenon
  <1> HIDE DEF n
  <1>8. n = Blocks(Height - Len(path))
    BY DEF n
  <1> QED
    BY <1>1, <1>2, <1>3, <1>5, <1>6, <1>7, <1>8, PlacePassed

-----------------------------------------------------------------------------
(* copy_zone *)

LEMMA AtDataFacts ==
  ASSUME Inv, copy_zone
  PROVE  /\ result = "running" /\ level \in 0 .. 3 /\ Placed /\ Len(path) > 0
         /\ Block \in Nat /\ Blocks(Height - Len(path)) = 1
         /\ offset \in Nat /\ logical \in Nat /\ cur_offset \in Nat /\ end \in Nat
         /\ offset < end /\ cur_offset < end
  <1>1. result = "running" /\ level <= 3 /\ Len(path) = Height /\ cur_offset < end
    BY DEF copy_zone, AtData
  <1>2. Typed /\ Placed /\ NotBehind
    BY DEF Inv
  <1>3. level \in 0 .. 3
    BY <1>1, <1>2 DEF Placed
  <1>4. Height \in Nat /\ Height > 0
    BY <1>3 DEF Height
  <1>5. Height - Len(path) = 0
    BY <1>1, <1>4
  <1>6. Blocks(Height - Len(path)) = 1
    BY <1>5, BlocksFacts, Zenon
  <1> QED
    BY <1>1, <1>2, <1>3, <1>4, <1>6, Numbers, PlaceRange DEF NotBehind

(* What a call of copy_zone copies. *)
LEMMA ChunkFacts ==
  ASSUME Inv, copy_zone, CopyChunk
  PROVE  \E m \in Nat :
           /\ logical <= cur_offset /\ cur_offset < logical + BLOCK_SIZE
           /\ cur_offset' = cur_offset + m
           /\ cur_offset + m <= logical + BLOCK_SIZE /\ cur_offset + m <= end
           /\ cur_offset + m < end => cur_offset + m = logical + BLOCK_SIZE
           /\ out' = out \o Run(Block * BLOCK_SIZE + (cur_offset - logical), m)
           /\ holes' = holes /\ zeros' = zeros
  <1> DEFINE m == Chunk(cur_offset - logical)
  <1>1. /\ logical <= cur_offset /\ ~(logical + BLOCK_SIZE <= cur_offset)
        /\ out' = out \o Run(Block * BLOCK_SIZE + (cur_offset - logical), m)
        /\ cur_offset' = cur_offset + m /\ holes' = holes /\ zeros' = zeros
    BY DEF CopyChunk, BeforeWindow, Run
  <1>2. /\ logical \in Nat /\ cur_offset \in Nat /\ end \in Nat /\ cur_offset < end
    BY AtDataFacts
  <1>3. m = IF BLOCK_SIZE - (cur_offset - logical) < end - cur_offset
              THEN BLOCK_SIZE - (cur_offset - logical) ELSE end - cur_offset
    BY DEF Chunk
  <1> HIDE DEF m
  <1>4. /\ m \in Nat
        /\ cur_offset + m <= logical + BLOCK_SIZE /\ cur_offset + m <= end
        /\ cur_offset + m < end => cur_offset + m = logical + BLOCK_SIZE
    BY <1>1, <1>2, <1>3, LayoutFacts
  <1>5. cur_offset < logical + BLOCK_SIZE
    BY <1>1, <1>2, LayoutFacts
  <1> QED
    BY <1>1, <1>4, <1>5, Zenon

(* Whichever way it goes, the next zone is wanted only if this one is behind. *)
LEMMA CopyMoves ==
  ASSUME Inv, copy_zone
  PROVE  /\ cur_offset' \in Nat /\ out' \in Seq(Nat) /\ zeros' \in Nat
         /\ holes' \in {holes, holes \cup {Block}}
         /\ cur_offset' < end => logical + BLOCK_SIZE <= cur_offset'
  <1>1. /\ logical \in Nat /\ cur_offset \in Nat /\ end \in Nat /\ Block \in Nat
        /\ out \in Seq(Nat) /\ zeros \in Nat
    BY AtDataFacts DEF Inv, Typed
  <1>2. CASE SkipZone
    BY <1>1, <1>2, LayoutFacts DEF SkipZone, BeforeWindow
  <1>3. CASE CopyChunk
    <2>1. PICK m \in Nat :
            /\ logical <= cur_offset
            /\ cur_offset' = cur_offset + m
            /\ cur_offset + m < end => cur_offset + m = logical + BLOCK_SIZE
            /\ out' = out \o Run(Block * BLOCK_SIZE + (cur_offset - logical), m)
            /\ holes' = holes /\ zeros' = zeros
      BY <1>3, ChunkFacts
    <2> DEFINE a == Block * BLOCK_SIZE + (cur_offset - logical)
    <2>2. a \in Nat
      <3>1. Block * BLOCK_SIZE \in Nat
        BY <1>1, LayoutFacts
      <3> QED
        BY <1>1, <2>1, <3>1
    <2>3. Run(a, m) \in Seq(Nat) /\ out' = out \o Run(a, m)
      BY <2>1, <2>2, RunFacts
    <2> HIDE DEF a
    <2>4. out' \in Seq(Nat)
      BY <1>1, <2>3, ConcatProperties
    <2>5. cur_offset' \in Nat /\ (cur_offset' < end => logical + BLOCK_SIZE <= cur_offset')
      BY <1>1, <2>1, LayoutFacts
    <2> QED
      BY <1>1, <2>1, <2>4, <2>5
  <1>4. CASE SkipHole
    BY <1>1, <1>4, LayoutFacts DEF SkipHole, Zero
  <1> QED
    BY <1>2, <1>3, <1>4 DEF copy_zone

(* In a Benign file the window is listed up to where the call leaves off. *)
LEMMA CopyLists ==
  ASSUME Inv, copy_zone, Benign'
  PROVE  /\ offset <= cur_offset'
         /\ cur_offset' < end => /\ cur_offset' = offset \/ cur_offset' <= logical + BLOCK_SIZE
                                 /\ Lists(out', {n \in offset .. cur_offset' - 1 :
                                                   n \div BLOCK_SIZE \notin holes'})
         /\ ~(cur_offset' < end) => Lists(out', {n \in offset .. end - 1 :
                                                   n \div BLOCK_SIZE \notin holes'})
  <1>1. /\ logical \in Nat /\ cur_offset \in Nat /\ end \in Nat /\ Block \in Nat /\ offset \in Nat
        /\ result = "running" /\ level \in 0 .. 3 /\ cur_offset < end
        /\ out \in Seq(Nat) /\ missing' = missing /\ offset' = offset
    BY AtDataFacts DEF Inv, Typed, copy_zone, args
  <1>2. Benign /\ DoublePresent
    <2>1. holes \subseteq holes'
      BY CopyMoves
    <2>2. Benign
      BY <1>1, <2>1, BenignBefore
    <2> QED
      BY <2>2 DEF Benign
  <1>3. /\ offset <= cur_offset /\ (cur_offset = offset \/ cur_offset <= logical)
        /\ Lists(out, Bytes(cur_offset))
    BY <1>1, <1>2 DEF Inv, ListedSoFar
  <1>4. logical = Block * BLOCK_SIZE /\ logical <= cur_offset
    BY <1>1, <1>2, LogicalHere, NotBefore DEF Inv, NotBehind
  <1>5. logical + BLOCK_SIZE = (Block + 1) * BLOCK_SIZE /\ Block + 1 \in Nat
    BY <1>1, <1>4, LayoutFacts
  <1>6. \A n \in Nat : /\ logical <= n /\ n < logical + BLOCK_SIZE => n \div BLOCK_SIZE = Block
                       /\ n < logical => n \div BLOCK_SIZE < Block
    <2> SUFFICES ASSUME NEW n \in Nat
                 PROVE  /\ logical <= n /\ n < logical + BLOCK_SIZE => n \div BLOCK_SIZE = Block
                        /\ n < logical => n \div BLOCK_SIZE < Block
      OBVIOUS
    <2>1. /\ logical <= n => Block <= n \div BLOCK_SIZE
          /\ n < logical => n \div BLOCK_SIZE < Block
          /\ n < logical + BLOCK_SIZE => n \div BLOCK_SIZE < Block + 1
      BY <1>1, <1>4, <1>5, BlocksOfBytes
    <2>2. n \div BLOCK_SIZE \in Nat
      BY BlockOfByte
    <2> QED
      BY <1>1, <2>1, <2>2
  <1>7. Block \notin holes
    BY <1>1 DEF Inv, HolesBehind
  <1>8. CASE SkipZone
    <2>1. cur_offset' = cur_offset /\ out' = out /\ holes' = holes
      BY <1>8 DEF SkipZone
    <2>2. Lists(out', {n \in offset .. cur_offset' - 1 : n \div BLOCK_SIZE \notin holes'})
      BY <1>3, <2>1 DEF Bytes
    <2>3. cur_offset' = offset \/ cur_offset' <= logical + BLOCK_SIZE
      BY <1>1, <1>3, <2>1, LayoutFacts
    <2> QED
      BY <1>1, <1>3, <2>1, <2>2, <2>3
  <1>9. CASE CopyChunk
    <2>1. PICK m \in Nat :
            /\ cur_offset' = cur_offset + m
            /\ cur_offset + m <= logical + BLOCK_SIZE /\ cur_offset + m <= end
            /\ out' = out \o Run(Block * BLOCK_SIZE + (cur_offset - logical), m)
            /\ holes' = holes
      BY <1>9, ChunkFacts
    <2> DEFINE T == {n \in offset .. cur_offset + m - 1 : n \div BLOCK_SIZE \notin holes}
    <2>2. Block * BLOCK_SIZE + (cur_offset - logical) = cur_offset
      BY <1>1, <1>4
    <2>3. out' = out \o Run(cur_offset, m)
      BY <2>1, <2>2, Zenon
    <2>4. \A n \in Bytes(cur_offset) : n \in Nat /\ n < cur_offset
      BY <1>1 DEF Bytes
    <2>5. T \subseteq Nat
      BY <1>1
    <2>6. ASSUME NEW n \in Nat
          PROVE  n \in T <=> n \in Bytes(cur_offset) \/ (cur_offset <= n /\ n < cur_offset + m)
      <3>1. n \in T <=> offset <= n /\ n < cur_offset + m /\ n \div BLOCK_SIZE \notin holes
        BY <1>1
      <3>2. n \in Bytes(cur_offset) <=> offset <= n /\ n < cur_offset /\ n \div BLOCK_SIZE \notin holes
        BY <1>1 DEF Bytes
      <3>3. cur_offset <= n /\ n < cur_offset + m =>
              offset <= n /\ n \div BLOCK_SIZE \notin holes
        <4> SUFFICES ASSUME cur_offset <= n, n < cur_offset + m
                     PROVE  offset <= n /\ n \div BLOCK_SIZE \notin holes
          OBVIOUS
        <4>1. logical <= n /\ n < logical + BLOCK_SIZE /\ offset <= n
          BY <1>1, <1>3, <1>4, <2>1, LayoutFacts
        <4>2. n \div BLOCK_SIZE = Block
          BY <1>6, <4>1
        <4> QED
          BY <1>7, <4>1, <4>2
      <3> HIDE DEF T
      <3>4. n < cur_offset => n < cur_offset + m
        BY <1>1
      <3>5. n < cur_offset \/ cur_offset <= n
        BY <1>1
      <3> QED
        BY <3>1, <3>2, <3>3, <3>4, <3>5
    <2> HIDE DEF T
    <2>7. Lists(out', T)
      BY <1>1, <1>3, <2>3, <2>4, <2>5, <2>6, ListsMore, Zenon
    <2>8. T = {n \in offset .. cur_offset' - 1 : n \div BLOCK_SIZE \notin holes'}
      <3>1. cur_offset + m - 1 = cur_offset' - 1 /\ holes' = holes
        BY <1>1, <2>1
      <3> QED
        BY <3>1, Zenon DEF T
    <2>9. ~(cur_offset' < end) => cur_offset' = end
      BY <1>1, <2>1
    <2>10. offset <= cur_offset' /\ cur_offset' <= logical + BLOCK_SIZE
      BY <1>1, <1>3, <2>1
    <2> QED
      BY <2>7, <2>8, <2>9, <2>10, Zenon
  <1>10. CASE SkipHole
    <2>1. cur_offset' = logical + BLOCK_SIZE /\ out' = out /\ holes' = holes \cup {Block}
      BY <1>10 DEF SkipHole
    <2>2. offset < logical + BLOCK_SIZE
      <3>1. Block >= offset \div BLOCK_SIZE
        BY <1>1, <2>1 DEF Benign
      <3> SUFFICES ASSUME logical + BLOCK_SIZE <= offset PROVE FALSE
        BY <1>1, LayoutFacts
      <3>2. Block + 1 <= offset \div BLOCK_SIZE
        BY <1>1, <1>5, BlocksOfBytes
      <3> QED
        BY <1>1, <3>1, <3>2, BlockOfByte
    <2>3. ASSUME NEW c \in Nat, c <= logical + BLOCK_SIZE, cur_offset < c \/ c = logical + BLOCK_SIZE
          PROVE  Lists(out', {n \in offset .. c - 1 : n \div BLOCK_SIZE \notin holes'})
      <3> DEFINE T == {n \in offset .. c - 1 : n \div BLOCK_SIZE \notin holes'}
      <3>1. ASSUME NEW n \in Nat PROVE n \in T <=> n \in Bytes(cur_offset)
        <4>1. n \in T <=> offset <= n /\ n < c /\ n \div BLOCK_SIZE \notin holes
                            /\ n \div BLOCK_SIZE # Block
          BY <1>1, <2>1
        <4>2. n \in Bytes(cur_offset) <=> offset <= n /\ n < cur_offset /\ n \div BLOCK_SIZE \notin holes
          BY <1>1 DEF Bytes
        <4> HIDE DEF T
        <4>3. /\ logical <= n /\ n < logical + BLOCK_SIZE => n \div BLOCK_SIZE = Block
              /\ n < logical => n \div BLOCK_SIZE < Block
          BY <1>6
        <4>4. n \div BLOCK_SIZE \in Nat
          BY BlockOfByte
        <4>5. ASSUME n \in T PROVE n \in Bytes(cur_offset)
          <5>1. n < logical
            BY <1>1, <2>3, <4>1, <4>3, <4>5, LayoutFacts
          <5> QED
            BY <1>1, <1>4, <4>1, <4>2, <4>5, <5>1
        <4>6. ASSUME n \in Bytes(cur_offset) PROVE n \in T
          <5>1. offset <= n /\ n < cur_offset /\ n \div BLOCK_SIZE \notin holes
            BY <4>2, <4>6
          <5>2. n < logical
            BY <1>1, <1>3, <5>1
          <5>3. n \div BLOCK_SIZE # Block
            BY <1>1, <4>3, <4>4, <5>2
          <5>4. n < c
            BY <1>1, <2>3, <5>1, <5>2, LayoutFacts
          <5> QED
            BY <4>1, <5>1, <5>3, <5>4
        <4> QED
          BY <4>5, <4>6
      <3>2. T \subseteq Nat /\ Bytes(cur_offset) \subseteq Nat
        BY <1>1 DEF Bytes
      <3> HIDE DEF T
      <3>3. T = Bytes(cur_offset)
        BY <3>1, <3>2, Zenon
      <3>4. Lists(out', T)
        BY <1>3, <2>1, <3>3
      <3> QED
        BY <3>4 DEF T
    <2>4. Lists(out', {n \in offset .. cur_offset' - 1 : n \div BLOCK_SIZE \notin holes'})
      <3>1. cur_offset' \in Nat /\ cur_offset' <= logical + BLOCK_SIZE
        BY <1>1, <2>1, LayoutFacts
      <3> QED
        BY <2>1, <2>3, <3>1
    <2>5. ~(cur_offset' < end) =>
            Lists(out', {n \in offset .. end - 1 : n \div BLOCK_SIZE \notin holes'})
      <3>1. ~(cur_offset' < end) => end <= logical + BLOCK_SIZE
        BY <1>1, <2>1, LayoutFacts
      <3> QED
        BY <1>1, <2>3, <3>1
    <2>6. offset <= cur_offset' /\ cur_offset' <= logical + BLOCK_SIZE
      BY <1>1, <2>1, <2>2, LayoutFacts
    <2> QED
      BY <2>4, <2>5, <2>6
  <1> QED
    BY <1>8, <1>9, <1>10 DEF copy_zone

LEMMA CopyZoneInv ==
  ASSUME Inv, copy_zone
  PROVE  Inv'
  <1>1. /\ result = "running" /\ level \in 0 .. 3 /\ Placed /\ Len(path) > 0
        /\ Block \in Nat /\ Blocks(Height - Len(path)) = 1
        /\ offset \in Nat /\ logical \in Nat /\ cur_offset \in Nat /\ end \in Nat
    BY AtDataFacts
  <1>2. /\ cur_offset' \in Nat /\ out' \in Seq(Nat) /\ zeros' \in Nat
        /\ holes' \in {holes, holes \cup {Block}}
        /\ cur_offset' < end => logical + BLOCK_SIZE <= cur_offset'
    BY CopyMoves
  <1>3. /\ len' = len /\ size' = size /\ offset' = offset /\ missing' = missing
        /\ DoublePresent' = DoublePresent /\ end' = end
    BY DEF copy_zone, args, DoublePresent, end
  <1>4. holes' \subseteq Nat /\ missing' \subseteq Nat /\ len' \in Lens /\ size' \in Sizes
        /\ offset' \in Nat
    BY <1>1, <1>2, <1>3 DEF Inv, Typed
  <1>5. (Bytes(cur_offset))' = {n \in offset .. cur_offset' - 1 : n \div BLOCK_SIZE \notin holes'}
        /\ (Bytes(end))' = {n \in offset .. end - 1 : n \div BLOCK_SIZE \notin holes'}
    BY <1>3 DEF Bytes
  <1>6. CASE cur_offset' < end
    <2>1. logical' = logical + BLOCK_SIZE /\ NextIndex /\ result' = "running"
      BY <1>1, <1>6 DEF copy_zone, More
    <2>2. Placed' /\ Block' = Block + 1 /\ level' \in {level, level + 1}
      BY <1>1, <2>1, IterationLeft
    <2>3. logical' \in Nat /\ logical <= logical'
      BY <1>1, <2>1, LayoutFacts
    <2>4. Typed'
      BY <1>2, <1>4, <2>1, <2>3 DEF Typed
    <2>5. Aligned'
      <3>1. CASE logical = Block * BLOCK_SIZE
        <4>1. logical' = (Block + 1) * BLOCK_SIZE
          BY <1>1, <2>1, <3>1, LayoutFacts
        <4> QED
          BY <2>2, <4>1 DEF Aligned
      <3>2. CASE ~DoublePresent /\ level >= 3 /\ logical = (Block - Blocks(2)) * BLOCK_SIZE
        <4>1. Blocks(2) \in Nat
          BY BlocksFacts
        <4>2. (Block - Blocks(2)) * BLOCK_SIZE + BLOCK_SIZE = (Block + 1 - Blocks(2)) * BLOCK_SIZE
          BY <1>1, <4>1, LayoutFacts
        <4>3. level' >= 3
          BY <1>1, <2>2, <3>2
        <4>4. logical' = (Block' - Blocks(2)) * BLOCK_SIZE
          <5>1. logical' = (Block + 1 - Blocks(2)) * BLOCK_SIZE
            BY <2>1, <3>2, <4>2
          <5>2. Block' - Blocks(2) = Block + 1 - Blocks(2)
            BY <1>1, <2>2, <4>1
          <5> QED
            BY <5>1, <5>2, Zenon
        <4> QED
          BY <1>3, <3>2, <4>3, <4>4 DEF Aligned
      <3> QED
        BY <1>1, <3>1, <3>2 DEF Inv, Aligned
    <2>6. NotBehind'
      <3>1. ~(cur_offset' < logical')
        BY <1>1, <1>2, <1>6, <2>1, LayoutFacts
      <3>2. offset < size /\ len > 0
        BY <1>1 DEF Inv, NotBehind
      <3> QED
        BY <1>3, <1>6, <3>1, <3>2 DEF NotBehind
    <2>7. HolesBehind'
      <3>1. \A b \in holes : b \in Nat /\ b < Block
        BY <1>1 DEF Inv, Typed, HolesBehind
      <3>2. \A b \in holes' : b < Block + 1
        BY <1>1, <1>2, <3>1
      <3> QED
        BY <2>2, <3>2 DEF HolesBehind
    <2>8. Untouched' /\ PanicOnMissing'
      BY <2>1 DEF Untouched, PanicOnMissing
    <2>9. ASSUME Benign' PROVE ListedSoFar'
      <3>1. /\ offset <= cur_offset'
            /\ cur_offset' = offset \/ cur_offset' <= logical + BLOCK_SIZE
            /\ (Lists(out, Bytes(cur_offset)))'
        BY <1>5, <1>6, <2>9, CopyLists DEF Lists
      <3> QED
        BY <1>3, <2>1, <3>1 DEF ListedSoFar
    <2> QED
      BY <2>2, <2>4, <2>5, <2>6, <2>7, <2>8, <2>9 DEF Inv
  <1>7. CASE ~(cur_offset' < end)
    <2>1. result' = "ok" /\ logical' = logical /\ level' = level /\ path' = path
      BY <1>7 DEF copy_zone, More
    <2>2. Block' = Block /\ Placed'
      BY <1>1, <2>1 DEF Block, Passed, Placed, Height, Width
    <2>3. Typed'
      BY <1>1, <1>2, <1>4, <2>1 DEF Typed
    <2>4. Aligned'
      BY <1>3, <2>1, <2>2 DEF Inv, Aligned
    <2>5. NotBehind' /\ HolesBehind' /\ Untouched' /\ PanicOnMissing'
      BY <2>1 DEF NotBehind, HolesBehind, Untouched, PanicOnMissing
    <2>6. ASSUME Benign' PROVE ListedSoFar'
      <3>1. offset <= cur_offset' /\ (Lists(out, Bytes(end)))'
        BY <1>5, <1>7, <2>6, CopyLists DEF Lists
      <3> QED
        BY <1>3, <2>1, <3>1 DEF ListedSoFar
    <2> QED
      BY <2>2, <2>3, <2>4, <2>5, <2>6 DEF Inv
  <1> QED
    BY <1>6, <1>7

LEMMA NextInv ==
  ASSUME Inv, [Next]_vars
  PROVE  Inv'
  BY StartInv, FailInv, CopyZoneInv, CopyUnderflowsInv, FollowPointerInv, NoRootInv,
     ZeroPointerInv, WalkEndsInv, StillInv, Zenon DEF Next, Returned

LEMMA Invariance == Spec => []Inv
  <1>1. Init => Inv
    BY InitInv
  <1>2. Inv /\ [Next]_vars => Inv'
    BY NextInv
  <1> QED
    BY <1>1, <1>2, PTL DEF Spec

-----------------------------------------------------------------------------
(* Where the walk goes, and how far into the buffer *)

(* A zero pointer takes the walk past the blocks below it. *)
LEMMA MissingPassed ==
  ASSUME Inv, NoRoot \/ ZeroPointer
  PROVE  /\ \E n \in Nat : n > 0 /\ Block' = Block + n /\ missing' = missing \cup Block .. Block + n - 1
         /\ Block \in Nat /\ logical <= logical'
  <1>1. /\ Placed /\ Block \in Nat /\ logical \in Nat /\ level \in 1 .. 3 /\ level \in 0 .. 3
        /\ Height = level /\ Height - Len(path) \in 0 .. 3
    BY PlaceRange DEF Inv, Typed, NoRoot, ZeroPointer, Height
  <1> DEFINE n == Blocks(Height - Len(path))
  <1>2. n \in Nat /\ n > 0
    BY <1>1, BlocksFacts, Zenon
  <1>3. Block' = Block + n
    <2>1. CASE NoRoot
      <3>1. Len(path) = 0 /\ NextLevel
        BY <2>1 DEF NoRoot
      <3>2. Block' = Base(level + 1)
        BY <1>1, <3>1, LevelLeft
      <3>3. /\ Base(level) \in Nat /\ Blocks(level) \in Nat
            /\ Base(level + 1) = Base(level) + Blocks(level)
        <4>1. level \in 0 .. 4
          BY <1>1
        <4> QED
          BY <1>1, <4>1, BaseFacts, BlocksFacts, Zenon
      <3>4. Passed(1) = 0 /\ Passed(2) = 0 /\ Passed(3) = 0
        BY <3>1 DEF Passed
      <3>5. Block = Base(level) + 0 + 0 + 0
        BY <3>4, Zenon DEF Block
      <3>6. Block = Base(level)
        BY <3>3, <3>5
      <3>7. Height - Len(path) = level
        BY <1>1, <3>1
      <3> QED
        BY <3>2, <3>3, <3>6, <3>7, Zenon
    <2>2. CASE ZeroPointer
      <3>1. path # <<>> /\ NextIndex
        BY <2>2 DEF ZeroPointer
      <3>2. Len(path) > 0
        BY <1>1, <3>1, EmptySeq DEF Placed
      <3> QED
        BY <1>1, <3>1, <3>2, IterationLeft
    <2> QED
      BY <2>1, <2>2
  <1>4. missing' = missing \cup Block .. Block + n - 1
    BY Zenon DEF NoRoot, ZeroPointer, Below
  <1>5. logical <= logical'
    <2>1. \A m \in Nat : m * BLOCK_SIZE \in Nat
      BY LayoutFacts
    <2>2. /\ logical' = logical \/ logical' = logical + Blocks(1) * BLOCK_SIZE
             \/ logical' = logical + n * BLOCK_SIZE
      BY <1>1, Zenon DEF NoRoot, ZeroPointer
    <2>3. Blocks(1) \in Nat
      BY BlocksFacts
    <2>4. Blocks(1) * BLOCK_SIZE \in Nat /\ n * BLOCK_SIZE \in Nat
      BY <1>2, <2>1, <2>3, Zenon
    <2> HIDE DEF n
    <2> QED
      BY <1>1, <2>2, <2>4
  <1> HIDE DEF n
  <1> QED
    BY <1>1, <1>2, <1>3, <1>4, <1>5

(* What the other steps leave alone. *)
LEMMA ElseSamePlace ==
  ASSUME Inv, [Next]_vars, ~copy_zone
  PROVE  /\ cur_offset' = cur_offset /\ out' = out /\ holes' = holes /\ args' = args
         /\ \/ NoRoot \/ ZeroPointer
            \/ Block' = Block /\ Len(path') >= Len(path) /\ logical' = logical /\ missing' = missing
         /\ result' \in {"none", "running"} => result \in {"none", "running"}
  <1>1. Block \in Nat /\ path \in Seq(Nat)
    BY PlaceRange DEF Inv, Placed
  <1>2. ASSUME UNCHANGED <<args, level, path, logical, cur_offset, out, holes, missing>>
        PROVE  /\ cur_offset' = cur_offset /\ out' = out /\ holes' = holes /\ args' = args
               /\ Block' = Block /\ Len(path') >= Len(path) /\ logical' = logical /\ missing' = missing
    BY <1>1, <1>2 DEF Block, Passed, Height
  <1>3. CASE FollowPointer
    <2>1. Len(path') = Len(path) + 1
      BY <1>1, <1>3 DEF FollowPointer
    <2>2. Block' = Block
      BY <1>3, FollowPointerPlace DEF Inv
    <2> QED
      BY <1>1, <1>3, <2>1, <2>2 DEF FollowPointer
  <1>4. CASE Start
    BY <1>2, <1>4 DEF Start, Return
  <1>5. CASE StartFails \/ CopyUnderflows \/ ReadFails \/ WalkEnds
    BY <1>2, <1>5 DEF StartFails, CopyUnderflows, ReadFails, WalkEnds, Return
  <1>6. CASE Returned \/ UNCHANGED vars
    BY <1>2, <1>6 DEF Returned, vars, args
  <1>7. CASE NoRoot
    BY <1>7 DEF NoRoot
  <1>8. CASE ZeroPointer
    BY <1>8 DEF ZeroPointer
  <1> QED
    BY <1>3, <1>4, <1>5, <1>6, <1>7, <1>8 DEF Next

(* A call of copy_zone that goes on leaves one data block behind. *)
LEMMA BlockDone ==
  ASSUME Inv, copy_zone
  PROVE  \/ /\ cur_offset' < end /\ result' = "running"
            /\ Block' = Block + 1 /\ logical' = logical + BLOCK_SIZE
         \/ /\ ~(cur_offset' < end) /\ result' = "ok"
            /\ Block' = Block /\ path' = path /\ logical' = logical
  <1>1. /\ level \in 0 .. 3 /\ Placed /\ Len(path) > 0 /\ result = "running"
        /\ Blocks(Height - Len(path)) = 1
    BY AtDataFacts
  <1>2. CASE cur_offset' < end
    <2>1. logical' = logical + BLOCK_SIZE /\ NextIndex /\ result' = "running"
      BY <1>1, <1>2 DEF copy_zone, More
    <2>2. Block' = Block + Blocks(Height - Len(path))
      BY <1>1, <2>1, IterationLeft
    <2> QED
      BY <1>1, <1>2, <2>1, <2>2, Zenon
  <1>3. CASE ~(cur_offset' < end)
    <2>1. result' = "ok" /\ logical' = logical /\ level' = level /\ path' = path
      BY <1>3 DEF copy_zone, More
    <2>2. Block' = Block
      BY <2>1 DEF Block, Passed, Height
    <2> QED
      BY <1>3, <2>1, <2>2
  <1> QED
    BY <1>2, <1>3

HolesAhead == \A b \in holes : b >= offset \div BLOCK_SIZE

(* What was copied fits between the start of the window and cur_offset.    *)
Fits ==
  /\ result \in {"none", "running"} => cur_offset = offset \/ cur_offset <= logical
  /\ HolesAhead /\ DoublePresent =>
       /\ Len(out) <= len
       /\ result \in {"none", "running"} => offset <= cur_offset /\ Len(out) <= cur_offset - offset

LEMMA CopyZoneFits ==
  ASSUME Inv, Fits, copy_zone
  PROVE  Fits'
  <1>1. /\ logical \in Nat /\ cur_offset \in Nat /\ end \in Nat /\ Block \in Nat /\ offset \in Nat
        /\ len \in Nat /\ Len(out) \in Nat /\ end <= offset + len
        /\ result = "running" /\ level \in 0 .. 3 /\ cur_offset < end
        /\ out \in Seq(Nat)
    <2>1. Typed /\ len \in Nat /\ size \in Nat /\ offset \in Nat /\ out \in Seq(Nat)
      BY Numbers DEF Inv, Typed
    <2>2. end <= offset + len
      BY <2>1 DEF end
    <2>3. Len(out) \in Nat
      BY <2>1
    <2> QED
      BY <2>1, <2>2, <2>3, AtDataFacts
  <1>2. len' = len /\ offset' = offset /\ (DoublePresent' => DoublePresent) /\ (HolesAhead' => HolesAhead)
    <2>1. len' = len /\ offset' = offset /\ missing' = missing
      BY DEF copy_zone, args
    <2>2. holes \subseteq holes'
      BY CopyMoves
    <2> QED
      BY <2>1, <2>2 DEF DoublePresent, HolesAhead
  <1>3. cur_offset = offset \/ cur_offset <= logical
    BY <1>1 DEF Fits
  <1>4. result' = "running" => logical' = logical + BLOCK_SIZE
    BY BlockDone
  <1>5. result' \in {"running", "ok"}
    BY BlockDone
  <1>6. ASSUME cur_offset' = offset \/ cur_offset' <= logical + BLOCK_SIZE,
               HolesAhead' /\ DoublePresent' =>
                 Len(out') <= len /\ offset <= cur_offset' /\ Len(out') <= cur_offset' - offset
        PROVE  Fits'
    BY <1>2, <1>4, <1>5, <1>6, Zenon DEF Fits
  <1>7. HolesAhead /\ DoublePresent =>
          Len(out) <= len /\ offset <= cur_offset /\ Len(out) <= cur_offset - offset
    BY <1>1 DEF Fits
  <1>8. CASE SkipZone
    <2>1. cur_offset' = cur_offset /\ out' = out
      BY <1>8 DEF SkipZone
    <2>2. cur_offset' = offset \/ cur_offset' <= logical + BLOCK_SIZE
      BY <1>1, <1>3, <2>1, LayoutFacts
    <2> QED
      BY <1>2, <1>6, <1>7, <2>1, <2>2, Zenon
  <1>9. CASE CopyChunk
    <2>1. PICK m \in Nat :
            /\ logical <= cur_offset /\ cur_offset' = cur_offset + m
            /\ cur_offset + m <= logical + BLOCK_SIZE /\ cur_offset + m <= end
            /\ out' = out \o Run(Block * BLOCK_SIZE + (cur_offset - logical), m)
      BY <1>9, ChunkFacts
    <2> DEFINE a == Block * BLOCK_SIZE + (cur_offset - logical)
    <2>2. a \in Nat
      <3>1. Block * BLOCK_SIZE \in Nat
        BY <1>1, LayoutFacts
      <3> QED
        BY <1>1, <2>1, <3>1
    <2>3. Run(a, m) \in Seq(Nat) /\ Len(Run(a, m)) = m /\ out' = out \o Run(a, m)
      BY <2>1, <2>2, RunFacts
    <2> HIDE DEF a
    <2>4. Len(out') = Len(out) + m
      BY <1>1, <2>3, ConcatProperties
    <2>5. cur_offset' <= logical + BLOCK_SIZE
      BY <2>1
    <2>6. HolesAhead /\ DoublePresent =>
            Len(out') <= len /\ offset <= cur_offset' /\ Len(out') <= cur_offset' - offset
      BY <1>1, <1>7, <2>1, <2>4
    <2> QED
      BY <1>2, <1>6, <2>5, <2>6, Zenon
  <1>10. CASE SkipHole
    <2>1. cur_offset' = logical + BLOCK_SIZE /\ out' = out /\ holes' = holes \cup {Block}
      BY <1>10 DEF SkipHole
    <2>2. cur_offset' <= logical + BLOCK_SIZE
      BY <1>1, <2>1, LayoutFacts
    <2>3. ASSUME HolesAhead', DoublePresent'
          PROVE  offset < logical + BLOCK_SIZE
      <3>1. Block >= offset \div BLOCK_SIZE
        BY <1>2, <2>1, <2>3 DEF HolesAhead
      <3>2. logical + BLOCK_SIZE = (Block + 1) * BLOCK_SIZE /\ Block + 1 \in Nat
        BY <1>1, <1>2, <2>3, LogicalHere, LayoutFacts
      <3> SUFFICES ASSUME logical + BLOCK_SIZE <= offset PROVE FALSE
        BY <1>1, LayoutFacts
      <3>3. Block + 1 <= offset \div BLOCK_SIZE
        BY <1>1, <3>2, BlocksOfBytes
      <3> QED
        BY <1>1, <3>1, <3>3, BlockOfByte
    <2>4. ASSUME HolesAhead', DoublePresent'
          PROVE  Len(out') <= len /\ offset <= cur_offset' /\ Len(out') <= cur_offset' - offset
      BY <1>1, <1>2, <1>3, <1>7, <2>1, <2>3, <2>4, LayoutFacts
    <2> QED
      BY <1>6, <2>2, <2>4
  <1> QED
    BY <1>8, <1>9, <1>10 DEF copy_zone

LEMMA NextFits ==
  ASSUME Inv, Fits, [Next]_vars
  PROVE  Fits'
  <1>1. CASE copy_zone
    BY <1>1, CopyZoneFits
  <1>2. CASE ~copy_zone
    <2>1. /\ cur_offset' = cur_offset /\ out' = out /\ holes' = holes /\ len' = len /\ offset' = offset
          /\ result' \in {"none", "running"} => result \in {"none", "running"}
      BY <1>2, ElseSamePlace DEF args
    <2>2. logical <= logical' /\ missing \subseteq missing'
      <3>1. CASE NoRoot \/ ZeroPointer
        BY <3>1, MissingPassed
      <3>2. CASE logical' = logical /\ missing' = missing
        BY <3>2 DEF Inv, Typed
      <3> QED
        BY <1>2, <3>1, <3>2, ElseSamePlace
    <2>3. logical \in Nat /\ logical' \in Nat /\ cur_offset \in Nat
      BY NextInv DEF Inv, Typed
    <2>4. (HolesAhead /\ DoublePresent)' => HolesAhead /\ DoublePresent
      BY <2>1, <2>2 DEF HolesAhead, DoublePresent
    <2>5. cur_offset <= logical => cur_offset' <= logical'
      BY <2>1, <2>2, <2>3
    <2> QED
      BY <2>1, <2>4, <2>5, Zenon DEF Fits
  <1> QED
    BY <1>1, <1>2

-----------------------------------------------------------------------------
(* The theorems *)

(* The walk of read_file stays inside the tree of zones and inside the     *)
(* capacity of a file, and goes on only while bytes of the window are      *)
(* wanted, for every layout of the file system.                            *)
THEOREM WalkTypes == Spec => []TypeOK
  <1>1. Inv => TypeOK
    <2> SUFFICES ASSUME Inv PROVE TypeOK
      OBVIOUS
    <2>1. Typed /\ Placed /\ Aligned /\ NotBehind
      BY DEF Inv
    <2>2. \A d \in 1 .. Len(path) : path[d] \in 0 .. Width - 1
      <3>1. \A d \in 1 .. Len(path) : path[d] \in Nat /\ path[d] < Width
        BY <2>1 DEF Placed
      <3>2. Width \in Nat
        BY LayoutFacts DEF Width
      <3>3. \A n \in Nat : n < Width => n \in 0 .. Width - 1
        BY <3>2
      <3> QED
        BY <3>1, <3>3, Zenon
    <2>3. logical <= FileCapacity
      <3>1. Block \in Nat /\ Base(4) \in Nat /\ Base(level) \in Nat /\ Base(level) <= Block
            /\ level \in 0 .. 4
        BY <2>1, PlaceRange, BaseFacts DEF Placed
      <3>2. Block <= Base(4)
        <4>1. CASE level = 4
          <5>1. Passed(1) = 0 /\ Passed(2) = 0 /\ Passed(3) = 0
            BY <2>1, <4>1 DEF Placed, Passed
          <5>2. Block = Base(4) + 0 + 0 + 0
            BY <4>1, <5>1, Zenon DEF Block
          <5> QED
            BY <3>1, <5>2
        <4>2. CASE level \in 0 .. 3
          <5>1. /\ Block + Blocks(Height - Len(path)) <= Base(level + 1)
                /\ Height - Len(path) \in 0 .. 3
            BY <2>1, <4>2, PlaceRange
          <5>2. level + 1 \in 0 .. 4
            BY <4>2
          <5>3. Base(level + 1) \in Nat /\ Base(level + 1) <= Base(4)
            BY <5>2, BaseFacts, Zenon
          <5>4. Blocks(Height - Len(path)) \in Nat
            BY <5>1, BlocksFacts, Zenon
          <5> QED
            BY <3>1, <5>1, <5>3, <5>4
        <4> QED
          BY <3>1, <4>1, <4>2
      <3>3. Block * BLOCK_SIZE <= FileCapacity /\ Block * BLOCK_SIZE \in Nat
        BY <3>1, <3>2, TimesMonotone, LayoutFacts, CapacityFacts
      <3>4. ASSUME level >= 3, logical = (Block - Blocks(2)) * BLOCK_SIZE
            PROVE  logical <= FileCapacity
        <4>1. /\ Blocks(2) \in Nat /\ Blocks(3) \in Nat /\ Base(2) \in Nat
              /\ Base(3) = Base(2) + Blocks(2) /\ Base(4) = Base(3) + Blocks(3)
          <5>1. 2 \in 0 .. 3 /\ 3 \in 0 .. 3 /\ 2 \in 0 .. 4
            OBVIOUS
          <5> QED
            BY <5>1, BlocksFacts, BaseFacts, Zenon
        <4>2. level = 3 \/ level = 4
          BY <3>1, <3>4
        <4>3. Blocks(2) <= Base(level)
          BY <4>1, <4>2
        <4>4. Block - Blocks(2) \in Nat /\ Block - Blocks(2) <= Block
          BY <3>1, <4>1, <4>3
        <4>5. (Block - Blocks(2)) * BLOCK_SIZE <= Block * BLOCK_SIZE
          BY <3>1, <4>4, TimesMonotone, LayoutFacts
        <4>6. logical \in Nat
          BY <2>1 DEF Typed
        <4> QED
          BY <3>3, <3>4, <4>5, <4>6, CapacityFacts
      <3> QED
        BY <2>1, <3>3, <3>4 DEF Aligned
    <2>4. logical \in 0 .. FileCapacity
      BY <2>1, <2>3, CapacityFacts DEF Typed
    <2> QED
      BY <2>1, <2>2, <2>4 DEF TypeOK, Typed, Placed, NotBehind
  <1> QED
    BY <1>1, Invariance, PTL

(* When the subtraction in copy_zone panics, the byte it is at lies below  *)
(* a zero pointer to a block of zone numbers, for every layout and every   *)
(* disk whose double indirect zones are not all missing.                   *)
THEOREM PanicExplained == Spec => []PanicOnMissing
  <1>1. Inv => PanicOnMissing
    BY DEF Inv
  <1> QED
    BY <1>1, Invariance, PTL

(* read_file returns the window it was asked for, across the borders of    *)
(* blocks and of the four levels, for every layout, size, offset and       *)
(* buffer, when no zero zone number lies where it mishandles it (Benign).  *)
THEOREM WindowRead == Spec => []ReadsWindow
  <1>1. Inv => ReadsWindow
    <2> SUFFICES ASSUME Inv, Benign
                 PROVE  /\ result # "panic"
                        /\ result = "ok" => Lists(out, Bytes(end))
      BY DEF ReadsWindow, Bytes
    <2>1. ListedSoFar
      BY DEF Inv
    <2>2. ASSUME result = "panic" PROVE FALSE
      <3>1. cur_offset \div BLOCK_SIZE \in missing
        BY <2>2 DEF Inv, PanicOnMissing, Benign
      <3>2. cur_offset \div BLOCK_SIZE < offset \div BLOCK_SIZE
        BY <3>1 DEF Benign
      <3>3. offset \in Nat /\ cur_offset \in Nat /\ offset <= cur_offset
        BY <2>1 DEF Inv, Typed, ListedSoFar
      <3>4. /\ offset \div BLOCK_SIZE \in Nat /\ cur_offset \div BLOCK_SIZE \in Nat
            /\ (offset \div BLOCK_SIZE) * BLOCK_SIZE <= offset
        BY <3>3, BlockOfByte
      <3>5. (offset \div BLOCK_SIZE) * BLOCK_SIZE <= cur_offset
        BY <3>3, <3>4, LayoutFacts
      <3>6. offset \div BLOCK_SIZE <= cur_offset \div BLOCK_SIZE
        BY <3>3, <3>4, <3>5, BlocksOfBytes
      <3> QED
        BY <3>2, <3>4, <3>6
    <2> QED
      BY <2>1, <2>2 DEF ListedSoFar
  <1> QED
    BY <1>1, Invariance, PTL

(* read_file's raw writes stay inside the caller's buffer, for every       *)
(* layout, size, offset and length, whichever pointers are zero and        *)
(* however the read ends, if no freed data block lies before the window    *)
(* and the double indirect zones are not all missing.                      *)
THEOREM BufferKept == Spec => []StaysInBuffer
  <1>1. Init => Fits
    <2> SUFFICES ASSUME Init PROVE Fits
      OBVIOUS
    <2>1. Inv /\ out = <<>> /\ cur_offset = offset
      BY InitInv DEF Init
    <2>2. len \in Nat /\ offset \in Nat /\ Len(out) = 0
      BY <2>1, Numbers DEF Inv
    <2> QED
      BY <2>1, <2>2 DEF Fits
  <1>2. Inv /\ Fits /\ [Next]_vars => Fits'
    BY NextFits
  <1>3. Fits => StaysInBuffer
    BY DEF Fits, StaysInBuffer, HolesAhead
  <1> QED
    BY <1>1, <1>2, <1>3, Invariance, PTL DEF Spec

(* The loops of read_file visit the data blocks of the file in order and   *)
(* each once, and pass over no block but those below a zero pointer, for   *)
(* every number of direct zones and of pointers per block.                 *)
THEOREM WalkInOrder == Spec => VisitsInOrder
  <1>1. ASSUME Inv, [Next]_vars, result = "running"
        PROVE  \/ Block' = Block /\ Len(path') >= Len(path)
               \/ Block' > Block /\ Block .. Block' - 1 \subseteq missing'
               \/ Block' = Block + 1 /\ AtData
    <2>1. CASE copy_zone
      <3>1. AtData /\ Len(path) \in Nat
        BY <2>1 DEF copy_zone, Inv, Placed
      <3>2. Block' = Block + 1 \/ (Block' = Block /\ path' = path)
        BY <1>1, <2>1, BlockDone, Zenon
      <3> QED
        BY <3>1, <3>2
    <2>2. CASE NoRoot \/ ZeroPointer
      <3>1. Block \in Nat
        BY <2>2, <1>1, MissingPassed
      <3>2. PICK n \in Nat : n > 0 /\ Block' = Block + n
                             /\ missing' = missing \cup Block .. Block + n - 1
        BY <2>2, <1>1, MissingPassed
      <3> QED
        BY <3>1, <3>2
    <2>3. CASE ~copy_zone /\ ~NoRoot /\ ~ZeroPointer
      BY <1>1, <2>3, ElseSamePlace
    <2> QED
      BY <2>1, <2>2, <2>3
  <1>2. Inv /\ [Next]_vars =>
          [result = "running" =>
             \/ Block' = Block /\ Len(path') >= Len(path)
             \/ Block' > Block /\ Block .. Block' - 1 \subseteq missing'
             \/ Block' = Block + 1 /\ AtData]_vars
    BY <1>1
  <1> QED
    BY <1>2, Invariance, PTL DEF Spec, VisitsInOrder
=============================================================================
