---------------------------- MODULE VirtioSetup ----------------------------
(***************************************************************************)
(* Finding the virtio devices and setting up the disks: bus.rs probe,      *)
(* device.rs setup_block_device and the two register functions.            *)
(*                                                                         *)
(* Every access to a device register is guarded: it may fault, the trap    *)
(* handler then skips it and sets ACCESS_FAULT_SEEN, and the caller, which *)
(* looks at that flag next, gives the slot up where it stands.  One action *)
(* is one guarded access with the computation up to the next one.          *)
(***************************************************************************)
EXTENDS Integers

CONSTANTS
  NumSlots,       \* MMIO slots that probe visits (8)
  MaxFaults,      \* bound: accesses that fault
  None

ASSUME SlotAssumption == NumSlots \in Nat /\ MaxFaults \in Nat

VARIABLES
  slot,           \* the slot probe is at; NumSlots once it has returned
  step,           \* the access it makes next
  status,         \* each device's Status register
  written,        \* each device's other registers that were programmed
  BLOCK_DEVICES,  \* slots whose disk was registered (dev is not null)
  VIRTIO_DEVICES, \* None or the kind of device that was registered
  queues,         \* slots that queue pages were allocated for
  faults,         \* history: accesses that faulted
  cutShort        \* history: slots that faulted with their queue allocated

devices == <<status, written>>

tables == <<BLOCK_DEVICES, VIRTIO_DEVICES, queues>>

history == <<faults, cutShort>>

setupVars == <<slot, step, devices, tables, history>>

Slots == 0 .. NumSlots - 1

After_LiveFirst ==
  [Magic |-> "DeviceId", DeviceId |-> "Reset", Reset |-> "Acknowledge",
   Acknowledge |-> "Driver", Driver |-> "HostFeatures", HostFeatures |-> "GuestFeatures",
   GuestFeatures |-> "FeaturesOk", FeaturesOk |-> "ReadStatus", ReadStatus |-> "QueueSel",
   QueueSel |-> "QueueNumMax", QueueNumMax |-> "QueueNum", QueueNum |-> "QueueAlign",
   QueueAlign |-> "GuestPageSize", GuestPageSize |-> "DriverOk", QueuePfn |-> "DriverOk"]

After_AllocFirst ==
  [Magic |-> "DeviceId", DeviceId |-> "Reset", Reset |-> "Acknowledge",
   Acknowledge |-> "Driver", Driver |-> "HostFeatures", HostFeatures |-> "GuestFeatures",
   GuestFeatures |-> "FeaturesOk", FeaturesOk |-> "ReadStatus", ReadStatus |-> "QueueSel",
   QueueSel |-> "GuestPageSize", GuestPageSize |-> "QueueNumMax", QueueNumMax |-> "QueueNum",
   QueueNum |-> "QueueAlign", QueueAlign |-> "QueuePfn", QueuePfn |-> "DriverOk"]

(* The register accessed after each one, Status named by the value that is *)
(* written; nothing comes after DriverOk.                                  *)
After ==
  [Magic |-> "DeviceId", DeviceId |-> "Reset", Reset |-> "Acknowledge",
   Acknowledge |-> "Driver", Driver |-> "HostFeatures", HostFeatures |-> "GuestFeatures",
   GuestFeatures |-> "FeaturesOk", FeaturesOk |-> "ReadStatus", ReadStatus |-> "QueueSel",
   QueueSel |-> "QueueNumMax", QueueNumMax |-> "QueueNum", QueueNum |-> "QueueAlign",
   QueueAlign |-> "GuestPageSize", GuestPageSize |-> "QueuePfn", QueuePfn |-> "DriverOk"]

StatusAt ==
  [Reset       |-> {},
   Acknowledge |-> {"ACKNOWLEDGE"},
   Driver      |-> {"ACKNOWLEDGE", "DRIVER"},
   FeaturesOk  |-> {"ACKNOWLEDGE", "DRIVER", "FEATURES_OK"},
   DriverOk    |-> {"ACKNOWLEDGE", "DRIVER", "FEATURES_OK", "DRIVER_OK"}]

ProgramSet ==
  {"GuestFeatures", "QueueSel", "QueueNum", "QueueAlign", "GuestPageSize", "QueuePfn"}

irq(s) == s + 1                                   \* VIRTIO_IRQ_BASE + slot

-----------------------------------------------------------------------------
Probing == slot < NumSlots

NextSlot == slot' = slot + 1 /\ step' = "Magic"

(* The access at reg succeeds, and the code goes on to the next one. *)
Access(reg) ==
  /\ Probing /\ step = reg
  /\ IF reg = "DriverOk" THEN NextSlot ELSE step' = After[reg] /\ UNCHANGED slot
  /\ UNCHANGED history

(* The access faults: None from mmio_read32, false from mmio_write32. *)
AccessFaults ==
  /\ Probing
  /\ faults < MaxFaults
  /\ faults' = faults + 1
  /\ cutShort' = cutShort \cup (queues \cap {slot})
  /\ NextSlot
  /\ UNCHANGED <<devices, tables>>

SkipSlot_Again ==
  /\ Probing /\ step \in {"Magic", "DeviceId"}
  /\ step' = "Magic" /\ UNCHANGED slot
  /\ UNCHANGED <<devices, tables, history>>

(* Not virtio, or nothing connected. *)
SkipSlot ==
  /\ Probing /\ step \in {"Magic", "DeviceId"}
  /\ NextSlot
  /\ UNCHANGED <<devices, tables, history>>

(* register_entropy_device, register_unknown_device *)
RegisterOther(kind) ==
  /\ Probing /\ step = "DeviceId"
  /\ VIRTIO_DEVICES' = [VIRTIO_DEVICES EXCEPT ![slot] = kind]
  /\ NextSlot
  /\ UNCHANGED <<devices, BLOCK_DEVICES, queues, history>>

(* A read whose value lets the code go on. *)
ReadOn(reg) == Access(reg) /\ UNCHANGED <<devices, tables>>

WriteStatus(reg) ==
  /\ Access(reg)
  /\ status' = [status EXCEPT ![slot] = StatusAt[reg]]
  /\ UNCHANGED <<written, tables>>

Program(reg) == written' = [written EXCEPT ![slot] = @ \cup {reg}]

WriteRegister(reg) == Access(reg) /\ Program(reg) /\ UNCHANGED <<status, tables>>

Fail_KeepsBits ==
  /\ status' = [status EXCEPT ![slot] = @ \cup {"FAILED"}]
  /\ NextSlot
  /\ UNCHANGED <<tables, history>>

(* FAILED is written; whether that access faults is not looked at. *)
Fail ==
  /\ \/ status' = [status EXCEPT ![slot] = {"FAILED"}] /\ UNCHANGED faults
     \/ faults < MaxFaults /\ faults' = faults + 1 /\ UNCHANGED status
  /\ NextSlot
  /\ UNCHANGED <<tables, cutShort>>

(* FEATURES_OK did not stick, or the device's queue is too short. *)
GiveUp == Probing /\ step \in {"ReadStatus", "QueueNumMax"} /\ Fail /\ UNCHANGED written

(* GuestPageSize is written, and then the queue's pages are allocated. *)
AllocateQueue ==
  /\ Access("GuestPageSize")
  /\ Program("GuestPageSize")
  /\ queues' = queues \cup {slot}
  /\ UNCHANGED <<status, BLOCK_DEVICES, VIRTIO_DEVICES>>

AllocateQueueFails ==
  /\ Probing /\ step = "GuestPageSize"
  /\ Program("GuestPageSize")
  /\ Fail

(* QueuePfn is written, and then the disk is entered in both tables. *)
RegisterBlock ==
  /\ Access("QueuePfn")
  /\ Program("QueuePfn")
  /\ BLOCK_DEVICES' = BLOCK_DEVICES \cup {slot}
  /\ VIRTIO_DEVICES' = [VIRTIO_DEVICES EXCEPT ![slot] = "Block"]
  /\ UNCHANGED <<status, queues>>

SetupInit ==
  /\ slot = 0 /\ step = "Magic"
  /\ status = [s \in Slots |-> {}]
  /\ written = [s \in Slots |-> {}]
  /\ BLOCK_DEVICES = {} /\ queues = {}
  /\ VIRTIO_DEVICES = [s \in Slots |-> None]
  /\ faults = 0 /\ cutShort = {}

Probe ==
  \/ AccessFaults
  \/ SkipSlot
  \/ \E kind \in {"Entropy", "Unknown"} : RegisterOther(kind)
  \/ \E reg \in {"Magic", "DeviceId", "HostFeatures", "ReadStatus", "QueueNumMax"} : ReadOn(reg)
  \/ \E reg \in DOMAIN StatusAt : WriteStatus(reg)
  \/ \E reg \in {"GuestFeatures", "QueueSel", "QueueNum", "QueueAlign"} : WriteRegister(reg)
  \/ GiveUp
  \/ AllocateQueue
  \/ AllocateQueueFails
  \/ RegisterBlock

-----------------------------------------------------------------------------
SetupTypeOK ==
  /\ slot \in 0 .. NumSlots
  /\ step \in DOMAIN After \cup {"DriverOk"}
  /\ status \in [Slots -> {StatusAt[reg] : reg \in DOMAIN StatusAt} \cup {{"FAILED"}}]
  /\ written \in [Slots -> SUBSET ProgramSet]
  /\ BLOCK_DEVICES \subseteq Slots /\ queues \subseteq Slots /\ cutShort \subseteq Slots
  /\ VIRTIO_DEVICES \in [Slots -> {None, "Block", "Entropy", "Unknown"}]
  /\ faults \in 0 .. MaxFaults

(* A device is told DRIVER_OK, after which it may use its queue, only when *)
(* the queue has memory and every register about it was written, and when  *)
(* the interrupt handler can find the disk (setup_block_device).           *)
LiveIsSetUp ==
  \A s \in Slots : "DRIVER_OK" \in status[s] =>
    s \in queues /\ s \in BLOCK_DEVICES /\ written[s] = ProgramSet

(* A slot that probe has left is a disk in full, registered and live and   *)
(* with its queue, or it is nothing; the exception is a fault at one of    *)
(* the last two accesses, which keeps the pages, and at the very last one  *)
(* a disk that first_block_device offers and that will never answer.       *)
AllOrNothing ==
  \A s \in Slots : s < slot /\ s \notin cutShort =>
    \/ s \in queues /\ s \in BLOCK_DEVICES /\ "DRIVER_OK" \in status[s]
    \/ s \notin queues /\ s \notin BLOCK_DEVICES /\ "DRIVER_OK" \notin status[s]
=============================================================================
