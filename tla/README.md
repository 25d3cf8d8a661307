# A TLA+ model of vesper

vesper is a RISC-V 64 kernel that runs on one hart. Machine mode (M-mode)
handles every trap with interrupts off; `skmain` and the kernel threads run in
supervisor mode (S-mode) and can be interrupted anywhere. Paths below are
relative to the repository's `src/`.

## The system

| Part | State | Operations | Interacts with |
|---|---|---|---|
| Page-frame allocator, `mm/alloc/page_frame.rs` | descriptor table | `init`, `allocate`, `zallocate`, `deallocate` | everything that needs memory |
| Process table, `process/table.rs` | `slots`, `current`, `NEXT_PID` | `spawn_kernel`, `schedule`, `exit_current` | timer, exit system call, allocator |
| Traps, `asm/trap.S`, `arch/riscv64/trap.rs`, `process/syscall.rs` | frames, `mscratch`, `mepc` | vector, `m_trap`, `do_syscall` | process table, devices |
| virtio block, `drivers/virtio/device.rs` | descriptors, rings, `ack_used_idx` | `block_op`, `pending`, `pending_by_irq` | device, PLIC, allocator |
| virtio probing, `drivers/virtio/bus.rs` | device tables | `probe`, `setup_block_device` | allocator, access-fault handler |
| Console, `trap.rs`, `drivers/plic`, `drivers/uart`, `console` | FIFOs, PLIC, `ESC_STATE` | `handle_external`, `echo_uart`, `Uart::put` | traps, whoever prints |
| Minix 3, `fs/minix3` | none between calls | `mount`, `read_inode`, `read_file` | block driver |
| Sv39, `mm/paging/sv39` | page tables | `map`, `unmap`, `v2p` | allocator |
| Boot, `asm/boot.S`, `boot/entry.rs` | CSRs | `kinit`, `enter_sv39`, `skmain` | everything |
| ELF, `exec/elf.rs` | none | `parse`, `program_headers` | Minix 3 |

What makes it hard: S-mode code is interrupted between any two instructions;
the block driver's `pending` runs both in `block_op` and, nested in it, in the
interrupt handler; the device answers, publishes and interrupts at times of its
own; a trap may leave with another thread's frame; one byte per interrupt has
to be put together into keys; any register access of set-up may fault; boot
switches interrupts, paging and the mode one after the other; resources are
never given back on some paths.
`PROJECT.json` lists each of these hazards with its line.

## The modules

| Module | Models | State and actions |
|---|---|---|
| `PageFrame` | the allocator | `desc` is the table, each descriptor a set of flags; one action per call and per assertion that can fail. `held` (history) is what callers own. |
| `PageHeap` | its promise | a set of disjoint runs. |
| `ProcessTable` | the table and scheduler | `Tick` is a timer interrupt with `schedule`, `Exit` is system call 93 (`exit_current` and `schedule`, or parking), three actions are the outcomes of `spawn_kernel`. `bypass`, `exits` are history. |
| `Threads` | trap vector, `m_trap`, `do_syscall`, `skmain`'s spawn, over `ProcessTable` | a trap is `TrapEnter`, a handler, `TrapLeave`; `spawn_kernel` is two steps that traps can separate. |
| `VirtualCpus` | what a thread is promised | a processor per thread, started at its entry; entering and leaving a trap changes no thread's context, and inside one only the running thread's call or fault does. |
| `VirtioBlk` | the block driver | `block_op` in steps, the handler in steps, the device in three steps: fetch, answer, publish. |
| `BlockTransfer` | what `block_op` promises | the caller waits for one page; its request is answered once, between the call and the return, and no page is written otherwise. |
| `VirtioSetup` | `probe`, `setup_block_device` | one guarded register access per step, each of which may fault; `cutShort` (history) is the slots that faulted late. |
| `Boot` | `boot.S`, `kinit`, `enter_sv39`, over `VirtioSetup` | `stage` is what the hart executes next: calls in `kinit`, instructions in `enter_sv39`, with interrupts between them. `space` is the permissions of each page. |
| `Skmain` | `skmain`, `test_minix3`, `list_dir`, `test_elf`, over `Boot` | the tests on the disks that set-up left; `held` is the page runs they borrow. |
| `Sv39` | the page tables | frames of entries, tables among them; one action per call of `map`, `id_map_range`, `unmap`, with the walk as an operator. |
| `AddressSpace` | their promise | a function from virtual pages to translations. |
| `Console` | input and output | device lines, PLIC latch, claim and complete, the escape decoder; `put` as a poll and a write, by the handler and by S-mode code. |
| `Minix3Read` | `read_file` | one zone, or one block of zone numbers, per step. |
| `Elf` | `parse`, `program_headers` | two operators; there is no state and no run, only theorems. |
| `PageFrameProofs`, `ThreadsProofs`, `VirtioBlkProofs`, `BootProofs`, `ConsoleProofs`, `Sv39ForestProofs`, `Sv39TranslationProofs`, `Minix3ReadProofs` | | the theorems; those on `ProcessTable` are in `ThreadsProofs`, those on `Skmain` and `Elf` in `BootProofs`. |
| `MCConsole`, `MCSv39` | | constants that a `.cfg` cannot write. |

Abstractions that matter:

- Allocator calls and table operations are single steps in `PageFrame` and
  `ProcessTable`. `Threads` separates taking a PID from writing the slot, but
  the copy into the slot is one step.
- `VirtioBlk` takes a request's descriptors in one step and posts them in
  another. `ack_used_idx` is a data race between `block_op` and the handler:
  each read in `block_op` yields either memory or the value the code last saw, as a compiler may reload or not.
  The status byte is always read from memory. `req_head` has no effect and is
  left out. The device, the UART and the PLIC are modelled from how the code
  uses them.
- `Threads` counts instructions, so `epc + 4` is one instruction. Faults occur
  in S-mode only.
- `VirtioSetup` leaves the read-only feature bit out. A read of a register
  either lets the code go on or not; which, is a choice.
- `Boot` has interrupts from `enable_interrupts` on, as the code does, and no
  thread yet: `m_trap` resumes what it interrupted. `mstatus`, `mret` and traps
  follow the privileged architecture.
- `Skmain`: an operation of the file system waits for the disk once, however
  many blocks it reads, and its scratch buffers are one token. It stops where
  the first thread is spawned; `Threads` begins there.
- `Sv39` has page numbers for addresses, since no operation looks at offsets,
  and two entries per table. Bits A, D, U and G play no part. Callers map frames
  that are not the allocator's, as `kinit` does, and frame 0 holds no table: an
  entry that a walk finds in a caller's page is one that the walk may follow.
- `Console` has one writer in S-mode, since kernel threads do not print. Its
  bytes are told apart from the echo. The line that reports an interrupt
  nobody handles is left out.
- `Minix3Read` chooses whether a zone number is zero when it is read, and a
  byte is its position in the file. A negative `cur_offset - block_start`
  panics, as in a debug build; a release build wraps instead. A file is no larger
  than its zones can hold: `inode.size` has 32 bits, and the four levels hold more
  than 2^34 bytes.

## The runs

Passing runs:

| Run | Instance | Shows |
|---|---|---|
| `page_frame` | 7 descriptors, runs of up to 3 pages, unaligned heap | the table denotes exactly the held runs, so that none share a page and freeing one finds its end; refinement of `PageHeap` |
| `process_table` | 3 slots, 6 stacks, PIDs modulo 8 | unique PIDs, bounded bypassing, every process runs again |
| `threads` | 3 slots, 4 stacks, 2 register files, 2 PCs | the next trap saves into the right frame; refinement of `VirtualCpus` |
| `virtio_blk` | ring of 6, 2 boot operations, devices that do and do not answer before publishing the last request | the device only writes to the request in progress, even with the handler inside `block_op`, and `block_op` returns; refinement of `BlockTransfer`; without that race no descriptor is lost and the queue does not get stuck |
| `console` | 4 bytes typed, FIFOs of 2, a line of 2 bytes from S-mode, a disk interrupt | the echo is exactly the input decoded left to right and the line is whole, however they mix; the transmitter always has room for a polled byte; all input is read unless the hart is parked |
| `minix3_read` | 2-byte blocks, 2 direct zones, 2 pointers per block, up to 2 zero zone numbers | the loops visit the data blocks in file order and pass over none but those below zero pointers; every window over all four levels is read exactly, for the files described by `Benign`; the copies stay in the buffer unless a freed block lies before the window; `copy_zone` panics only at a byte below a missing block of zone numbers, as long as the double indirect zones are not all missing |
| `sv39` | 2 entries per table, 4 pages for tables, calls on 2 of the 8 virtual pages, all levels, 3 calls | refinement of `AddressSpace`; `unmap` frees each table it reaches once, and reaches all of them unless leaves of different sizes were mixed; frames of callers are not written, except by a `map` beneath a larger leaf |
| `skmain` | 2 slots, 2 faults, 2 interrupts, a small image with unaligned sections, `ELF_TEST_INODE` = 1 | set-up is all or nothing, up to a fault in its last two accesses; sections keep their permissions; no trap before its vector; S-mode is entered in `skmain` except through one window; the tests give their pages back; the kernel comes up, panics, or waits for a disk whose `DRIVER_OK` faulted |

Runs that end in a counterexample, each against a statement in the repository:

| Run | The repository says | The code |
|---|---|---|
| `page_frame_oom` | `page_frame.rs:83`: a run "or `None` on OOM" | has more descriptors than data pages and hands out pages past the end of memory |
| `virtio_wedged` | `device.rs:367`: synchronous calls with "interrupt-driven completion" | can skip a used element and lose its descriptors, until `block_op` always fails |
| `minix3_copies` | `fs.rs:64`: "Copy up to `out.len()` bytes" | moves backwards at a hole before the window and copies more |
| `enters_skmain` | `entry.rs:43`: `kinit` "then `mret`s into [`skmain`] in S-mode" | takes an interrupt between `csrw mepc` and `csrw mstatus`, after which `mret` goes to `csrw mstatus` in S-mode and the kernel panics |

`ReadsWindow` is conditional: it excludes files with a hole before the window,
a missing block of zone numbers that is not wholly before it, and a missing
double indirect block. On those the code copies other bytes or panics.

Bounds. Three slots are the fewest for which one process can be overtaken by
another while a third exits. Seven descriptors allow three neighbouring runs
of different lengths. Eight descriptors are two chains and a remainder too
small for a third. Four bytes hold an arrow key and one byte more. Two
pointers per block make every loop of the walk iterate and end. PIDs modulo 8
with 6 stacks keep the ratio that matters: fewer stacks than PIDs. Six
descriptors are two chains, the fewest for which one can be lost and the next
request still go through; `virtio_wedged` uses the code's ring of 8. A FIFO of
2 is the least that `ThrHasRoom` needs, the real one has 16. Three calls can
map a page, a superpage over it, and a page beneath that. Two slots let one
disk's failure be seen from the other's. `ELF_TEST_INODE` is 0 in the source, which leaves `test_elf` out; the
run has 1 so that it is explored, and `enters_skmain` has 0.

Fairness. `ProcessTable`: another tick always comes, since `m_trap` rearms
`mtimecmp` on each one. `VirtioBlk`: the hart runs, takes pending interrupts,
and the device serves what is posted; `block_op` has no timeout, so nothing
weaker would do. `Console`: the hart takes pending interrupts, and handlers and
system calls end. The transmitter drains. Nothing is assumed of who
types or of the code that prints. `Skmain`: the hart executes the next
instruction, traps return, and a disk that was told `DRIVER_OK` answers.

Deadlock is checked in every run; parked and aborted harts stutter explicitly.

## What is proved

For every value of the constants that satisfies the modules' assumptions:

- `AllocatorSafety` (`PageFrameProofs`), with `AllocatorTypes`, `PagesNotShared` and
  `RunsNeverPanic` as its parts: types, `NoSharedPage`, `TableMatchesRuns`, `NoRunPanic`. The inductive invariant says that
  descriptors of a held run carry exactly its flags, that all others are
  empty, and that runs are disjoint. It is needed because "the table denotes
  the held runs" alone does not say that a page outside them is free.
- `AllocatorRefinesHeap`: the allocator implements `PageHeap`, with the runs
  read off the table as the refinement mapping.
- `TableSafety` (`ThreadsProofs`), with `ProcessTypes` and `PidsAreUnique` as its
  parts: types, `PidsUnique`, `BypassBounded`.
  The invariant bounds every live PID by `NEXT_PID`, ties `NEXT_PID` to the
  stacks taken, and refines the bypass bound with a credit that depends on
  which of two processes the scan meets first.
- `PidsNeverWrap`: `PidsMonotonic`. It assumes fewer stacks than PIDs, which
  holds for 128 MiB, and it rests on stacks never being freed: code that frees
  them has to deal with PIDs too.
- `HartTypes`, `FramesFollow` and `ThreadsImplement`: types, `FrameOfCurrent`, and
  that `Threads` implements `VirtualCpus`. The invariant adds what holds between
  the vector's save and its restore: where the frame of the running process is,
  and that a call or a fault has a next instruction. The refinement goes action
  by action and compares each thread's context before and after.
- `DmaSafety` (`VirtioBlkProofs`): `DmaTargetHeld`. The invariant is that the
  device has one unanswered request at most, which is the one `block_op` waits
  for, and that its three descriptors stand. It says nothing of the free list,
  so the race on `ack_used_idx` cannot break it.
- `TransfersRefine`: `VirtioBlk` implements `BlockTransfer`, with a call that waits as
  long as `block_op` is in progress. From the same invariant: an answer of the device
  is to the one request in flight, and `block_op` leaves its loop only on an answered
  status. So a caller never sees a late write, although the used elements and the
  interrupt of a finished request arrive during later ones, and although the race
  frees chains early or never.
- `QueueTypes`: types of the queue, with chains that run upwards, whatever the race
  frees; this is why `free_desc_chain` ends.
- `DescriptorsKept`: `NoDescriptorLost`. The invariant (`Queue`) shares out the
  descriptor table, until the race, between the free descriptors and the chains of
  the requests in flight: chains are disjoint, and each head is in one place only,
  the avail ring, the device, the used ring or the hands of `pending`. The property
  alone is not inductive: it does not say that two requests have different chains,
  nor that a used element is not yet to be answered again. `ack_used_idx` and the
  device's index are 16-bit and wrap: the invariant speaks of the elements between
  them, which are distinct.
- `OnlyRacesWedge`: `WedgeNeedsRace`, for a ring of six descriptors or more (the
  code has 8). The invariant (`LeftBehind`) says that, without the race and on a
  device that publishes in order, one used element at most is left that no one will
  look at; so one chain at most is out when nothing runs, and three descriptors
  are free. A smaller ring has fewer than three left.
- `OnlyOneWindow`, `SupervisorIsReady`, `TrapsAreVectored` (`BootProofs`): from an
  invariant that says what each stage has prepared, and which values `mepc` and
  `mstatus` may have around `enter_sv39`.
- `KernelIsMapped`: for every page size and every image that fits. Each range's
  pages are disjoint from the pages of ranges with other permissions, by the
  alignment in `virt.lds`, so the order of mapping does not matter.
- `DisksLive`, `DisksWhole`: for every number of slots and faults, from an
  invariant that says, register by register, what was written before.
- `BootTyped`: types of `kinit`'s and set-up's state.
- `SkmainKeepsBoot`: every step of `Skmain` is a step of `Boot`
  or leaves its state alone, so the theorems above hold of `Skmain` as well.
- `TestsReturnPages`: `PagesReturned`, from the page runs held at each step.
- `ConsoleTypes`, `ThrNeverFull` (`ConsoleProofs`): one put at most is between its
  test and its write, the handler writes only to an empty FIFO, and `init` made
  the FIFO deeper than one byte.
- `LineKept`, `EchoKept`: `LineWhole` and `EchoExact`, for any line and any bytes
  typed. The invariant (`Told`) ties three things: what was put by S-mode code is
  what is not left of its line, what the handler put and still holds is what the
  bytes read so far show, and `ESC_STATE` is the state they leave. The last is
  needed because `EchoExact` decodes the whole input while `echo_uart` sees one byte
  and a state: `ShownAppend` shows that the two agree at every byte, an escape
  sequence cut short included. The assumption `EchoAssumption` is what "told apart"
  means above: no byte of the line is one the echo prints.
- `HeadersInside`, `GoodImageAccepted` (`BootProofs`): the program headers of an accepted
  file are inside the buffer when `phentsize` is at least 56, and a well-formed
  file is accepted. `parse` does not check `phentsize`, while `program_headers`
  steps by 56.
- `ForestSound`, `TableTypes`, `UnmapNeverPanics`, `FramesKept`
  (`Sv39ForestProofs`): for any frames, any number of entries per table and any
  calls, the tables are a forest: a pointer leads to an allocated table, no two
  entries point to the same one, and a leaf names a frame of the caller. This
  invariant (`SInv`) holds at every level of a walk, also of one that works inside a
  caller's frame beneath a superpage. From it follow the types, `UnmapFreesOnce`
  and, as an action property, `CallerFramesKept`.
- `TablesFound` (`Sv39TranslationProofs`): `NoTableLost`. The invariant (`TInv`)
  adds that every allocated table is in the tree below the root until leaves of
  different sizes are mixed. That a frame is not in the tree (`Out`) is stable
  under every write of a walk, which is what makes the induction go through.
- `TranslationsRefine`: `Sv39` implements `AddressSpace`. `v2p` is unrolled into the
  entries it reads at the three levels, and the path of a page meets each table once. A table hung by a walk then changes no translation,
  and the leaf a walk stores changes those of its own block of pages and no other.
- `WalkTypes`, `WalkInOrder` (`Minix3ReadProofs`): types and, as an action property,
  `VisitsInOrder`, for every block size, number of direct zones and of pointers per
  block. A place in the tree is a level and the indices of its loops. `IterationLeft`
  is the heart: when the innermost loops are in their last iteration, what all of them
  have passed adds up to what one iteration of the loop outside them, or the level,
  leads to; so the next place begins where the last one ended.
- `PanicExplained`, `WindowRead`: `PanicOnMissing` and `ReadsWindow`, for every layout,
  size, offset and buffer. Neither is inductive. The invariant (`Inv`) adds that
  `logical` is the first byte of the current place, short of the double indirect range
  if the inode has none (`Aligned`); that a byte still wanted is behind the walk only
  below a zero pointer (`NotBehind`); that freed blocks met are behind (`HolesBehind`);
  and, for `Benign` files, that `out` lists the window up to `cur_offset`, which is at
  its start or no further than the current place (`ListedSoFar`).
- `BufferKept`: `StaysInBuffer`, for every disk and however the read ends, failing and
  panicking ones included. The invariant (`Fits`) is that what was copied fits between
  `offset` and `cur_offset`. A freed block before the window breaks it, since it sets
  `cur_offset` back (`minix3_copies`).

Induction. The prover cannot instantiate the library's induction theorems. Where a
proof goes along a loop of the code (`id_map_range`, a first-fit scan, the chains of
a queue) it uses a first-order lemma instead: a nonempty set of naturals has a least
element (`LeastElement`, `NatSetInduction` in `Sv39ForestProofs`), or a bounded one a
greatest (`Greatest` in `VirtioBlkProofs`), or an induction from the end of a
sequence (`DownInduction` in `ConsoleProofs`). A recursive function is handled by
giving the function that satisfies its equation (`V2PUnrolled`, `RangeUnrolled`,
`Unwound`).

Every safety property of the passing runs has a theorem. `NoSharedPage`,
`NoRunPanic` and `PidsMonotonic` are proved and in no run: the first two follow
from `TableMatchesRuns`. Only model-checked:
`RunsInsideHeap`, `NeverWedged`, `CopiesAtMostLen` and `EntersSkmain`, which do not
hold; and all liveness (`EventuallyRuns`, `BlockOpReturns`, `EverythingRead`,
`KernelComesUp`), which is out of the prover's reach, as is `ENABLED`.

## Seen in the code, without a run

- `exit_current` clears `current`, so the next scan starts at slot 0: the
  scheduler is not strictly round robin. `BypassBounded` is what holds.
- `block_op` returns on the status byte, possibly before the interrupt;
  `fs/minix3/mod.rs:16` says it returns "once the device IRQ fires".
- A double free after the run was handed out again is not caught, although
  `page_frame.rs:115` says it trips an assertion.
- ESC and a byte other than `[` drop both, although `trap.rs:231` speaks of
  the ESC.
- `read_file` leaves holes out instead of filling them with zeros.
- `exit_current` and the `TableFull` path of `spawn_kernel` give no stack back,
  although `process/mod.rs:3` says a process "owns its own stack".
- The timer's `schedule` may run while `skmain` is inside `spawn_kernel`;
  `table.rs:37` speaks of no concurrent access. `OwnProcessor` holds all the
  same, up to a tick in the middle of the copy into the slot.
- `boot.S:49` and `paging.rs:31` say MIE stays 0; `mret` sets it from MPIE, which
  is what opens the window of `enters_skmain`.
- A disk whose `DRIVER_OK` write faults stays registered; `first_block_device`
  may return it, and `skmain` then spins in `block_op` (`KernelComesUp`).
- A superpage mapped over a table loses that table (`NoTableLost` excludes it).
- `test_elf` of an empty file panics in `allocate`; it is not called today.

## Not modelled

- Traps taken inside `m_trap`: only `pending_by_irq` touches a device there that
  could fault. Panics in handlers are halted states.
- A tick in the middle of the copy in `spawn_kernel`: whether the slot reads as
  occupied by then depends on the layout the compiler chooses.
- Instruction lengths: `epc + 4` after a fault in a compressed instruction.
- Whether an optimising build reads the status byte once in `block_op`.
- Secondary harts, which park for good; `get_blocking`, which has no caller.
- Formatting, the contents of directory entries, inodes and the superblock,
  which are read and passed on.
- Larger instances than the ones above for `virtio_blk` and `sv39`, whose state
  spaces fill the time that is reasonable for a run.
