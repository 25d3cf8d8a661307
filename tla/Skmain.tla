------------------------------- MODULE Skmain -------------------------------
(***************************************************************************)
(* skmain (boot/entry.rs) after Boot: the test read of the first disk, the *)
(* probing for a Minix 3 file system, list_dir, test_elf, and the spawning *)
(* of the first thread, on whatever disks the set-up left behind.          *)
(*                                                                         *)
(* An operation of the file system waits for the disk once here, however   *)
(* many blocks it reads; its walk is in Minix3Read.tla, block_op is in     *)
(* VirtioBlk.tla.  What follows the first thread's start is in Threads.tla.*)
(***************************************************************************)
EXTENDS Boot

CONSTANT ELF_TEST_INODE         \* 0: there is no ELF file to look at

ASSUME ElfAssumption == ELF_TEST_INODE \in Nat

VARIABLES
  at,             \* the step of skmain, or of the function it is in
  waiting,        \* block_op has given its request to the disk
  held            \* the page runs taken and not given back, by their owner

skmainVars == <<at, waiting, held>>

kernelVars == <<bootVars, skmainVars>>

first_block_device == CHOOSE s \in BLOCK_DEVICES : \A t \in BLOCK_DEVICES : s <= t

(* The device serves its queue once DRIVER_OK is set. *)
DiskAnswers == "DRIVER_OK" \in status[first_block_device]

Here(place) == stage = "skmain" /\ ~trapped /\ at = place

Goes(place, pages) == at' = place /\ held' = pages /\ waiting' = FALSE /\ UNCHANGED bootVars

(* abort loops in S-mode, and is still interrupted. *)
Panics == Goes("panic", held)

-----------------------------------------------------------------------------
(* Buffer::new and Drop: what an operation takes, it gives back however it *)
(* ends.                                                                   *)

Asks ==
  /\ ~waiting
  /\ waiting' = TRUE
  /\ held' = held \cup {"Buffer"}
  /\ UNCHANGED <<at, bootVars>>

(* The operation at a step of skmain: it asks the disk, or fails without   *)
(* doing so, and ends once the disk has answered.                          *)
Operation(place, ok, err, pages) ==
  /\ Here(place)
  /\ \/ Asks
     \/ ~waiting /\ Goes(err, pages)
     \/ waiting /\ DiskAnswers /\ \E next \in {ok, err} : Goes(next, pages)

(* What is held once the operation of this step has dropped its buffers. *)
Kept == held \ {"Buffer"}

-----------------------------------------------------------------------------
NoDisk == Here("skmain") /\ BLOCK_DEVICES = {} /\ Goes("spawn", held)

(* No page for the test: it is left out. *)
TestBuffer ==
  /\ Here("skmain")
  /\ BLOCK_DEVICES # {}
  /\ Goes("block_read", held \cup {"test"}) \/ Goes("mount", held)

(* The request page of block_op, and then the test's, go back. *)
TestRead == Operation("block_read", "mount", "mount", Kept \ {"test"})

mount == Operation("mount", "read_inode", "spawn", Kept)

(* The root inode may be no directory. *)
ReadRoot == Operation("read_inode", "list_dir", "spawn", Kept)

ListDirBuffer == Here("list_dir") /\ Goes("list_dir: read_file", held \cup {"dir"})

ListDirOutOfMemory == Here("list_dir") /\ Panics

AfterList == IF ELF_TEST_INODE = 0 THEN "spawn" ELSE "test_elf"

ListDir_KeepsPage == Operation("list_dir: read_file", AfterList, AfterList, Kept)

(* Its entries are printed, or the error; the buffer goes back. *)
ListDir == Operation("list_dir: read_file", AfterList, AfterList, Kept \ {"dir"})

(* read_file may panic on a file without some of its zones. *)
ReadFilePanics ==
  /\ \E f \in {"list_dir: read_file", "test_elf: read_file"} : Here(f)
  /\ waiting /\ DiskAnswers
  /\ Panics

ReadElfInode == Operation("test_elf", "test_elf: zallocate", "spawn", Kept)

ElfBuffer ==
  /\ Here("test_elf: zallocate")
  /\ Goes("test_elf: read_file", held \cup {"elf"}) \/ Goes("spawn", held)

(* A file of no bytes takes no pages, which allocate asserts against. *)
ElfEmpty == Here("test_elf: zallocate") /\ Panics

(* An error, a short read, or the headers: the buffer goes back each time. *)
ElfRead == Operation("test_elf: read_file", "spawn", "spawn", Kept \ {"elf"})

(* spawn_kernel(init_process): the next timer tick starts the thread. *)
SpawnInit == Here("spawn") /\ Goes("idle", held)

SpawnFails == Here("spawn") /\ Panics

-----------------------------------------------------------------------------
KernelInit == Init /\ at = "skmain" /\ waiting = FALSE /\ held = {}

SkmainStep ==
  \/ NoDisk \/ TestBuffer \/ TestRead \/ mount \/ ReadRoot
  \/ ListDirBuffer \/ ListDirOutOfMemory \/ ListDir \/ ReadFilePanics
  \/ ReadElfInode \/ ElfBuffer \/ ElfEmpty \/ ElfRead
  \/ SpawnInit \/ SpawnFails

KernelNext ==
  \/ Next /\ at # "idle" /\ UNCHANGED skmainVars
  \/ SkmainStep
  \/ at = "idle" /\ UNCHANGED kernelVars

(* The hart executes instruction after instruction, in and out of m_trap,  *)
(* and a disk that was told DRIVER_OK answers (block_op waits for it).     *)
KernelSpec ==
  /\ KernelInit
  /\ [][KernelNext]_kernelVars
  /\ WF_kernelVars(Kinit /\ at # "idle" /\ UNCHANGED skmainVars)
  /\ WF_kernelVars(TrapReturn /\ UNCHANGED skmainVars)
  /\ WF_kernelVars(SkmainStep)

-----------------------------------------------------------------------------
(* When skmain is done with its tests, by whichever of their returns, all  *)
(* pages they took are back (skmain, list_dir, test_elf, Buffer::drop).    *)
PagesReturned == at \in {"spawn", "idle"} => held = {}

(* From reset the kernel gets to skmain's loop with its first thread       *)
(* spawned, or panics.  It may also wait for ever in block_op: then the    *)
(* disk is one whose set-up faulted at its very last write, which leaves   *)
(* it registered (setup_block_device, first_block_device).                 *)
KernelComesUp ==
  <>(at \in {"idle", "panic"} \/ stage = "panic" \/ (waiting /\ first_block_device \in cutShort))
=============================================================================
