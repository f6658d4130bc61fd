------------------------------ MODULE GpuDriver ------------------------------
(***************************************************************************)
(* What the trait GpuDriver (crates/gpu_abstraction/src/lib.rs) promises   *)
(* its one caller, graphics_runtime, whatever the implementation: VRAM is  *)
(* accounted per GPU, a faulted GPU executes nothing until it is reset,    *)
(* and a submission ends in one of four ways.  SoftwareGpuDriver and       *)
(* VulkanDriver are shown to implement this module; GraphicsRuntime is     *)
(* built on it.                                                            *)
(*                                                                         *)
(* Every method takes &mut self (or &self), so a call is one step.  A call *)
(* that returns Err before it changes anything (unknown device, unknown    *)
(* allocation, insufficient VRAM) is a step that is not enabled.           *)
(***************************************************************************)
EXTENDS Integers, FiniteSets, Tables

CONSTANTS Gpu,        \* the devices the driver was built with
          VramTotal,  \* bytes in the pool of each device
          Sizes,      \* the sizes callers ask for
          MaxAllocs   \* bound: how many allocations a behaviour makes

ASSUME GpuDriverAssumption ==
  /\ VramTotal \in Nat
  /\ Sizes \subseteq Nat
  /\ MaxAllocs \in Nat

VARIABLES allocations,    \* id -> the live allocation: its device and size
          issued,         \* how many ids ObjectId::new() has given to allocations
          vramAvailable,  \* device -> bytes its pool still has
          faulted,        \* device -> is a GpuFault recorded?
          reply           \* the outcome of the last call if it was a submit

driverVars == <<allocations, issued, vramAvailable, faulted, reply>>

AllocId == 1 .. MaxAllocs
Allocation == [gpu : Gpu, size : Sizes]

Outcome == {"accepted",   \* Ok
            "rejected",   \* Err: a fault was already recorded
            "failed",     \* Err: this submission went wrong, the device did not
            "lost"}       \* Err: the device went away; a fault is now recorded
NoReply == <<>>
Reply == {NoReply} \cup (Gpu \X Outcome)

Init ==
  /\ allocations = EmptyTable
  /\ issued = 0
  /\ vramAvailable = [g \in Gpu |-> VramTotal]
  /\ faulted = [g \in Gpu |-> FALSE]
  /\ reply = NoReply

-----------------------------------------------------------------------------
(* Bug: compares with the size of the pool instead of what is left of it.  *)
FitsPool(g, size) == size <= VramTotal

Fits(g, size) == size <= vramAvailable[g]

(* Bug: the id is counted from the table, and freed ids come back.         *)
AllocateVramByLength(g, size) ==
  /\ issued < MaxAllocs
  /\ Fits(g, size)
  /\ issued' = Cardinality(DOMAIN allocations) + 1
  /\ allocations' = Insert(allocations, issued', [gpu |-> g, size |-> size])
  /\ vramAvailable' = [vramAvailable EXCEPT ![g] = @ - size]
  /\ reply' = NoReply
  /\ UNCHANGED faulted

AllocateVram(g, size) ==
  /\ issued < MaxAllocs
  /\ Fits(g, size)
  /\ issued' = issued + 1
  /\ allocations' = Insert(allocations, issued', [gpu |-> g, size |-> size])
  /\ vramAvailable' = [vramAvailable EXCEPT ![g] = @ - size]
  /\ reply' = NoReply
  /\ UNCHANGED faulted

(* Bug: gives the bytes back and keeps the allocation in the table.        *)
FreeVramKeepsEntry(a) ==
  /\ a \in DOMAIN allocations
  /\ vramAvailable' =
       [vramAvailable EXCEPT ![allocations[a].gpu] = @ + allocations[a].size]
  /\ reply' = NoReply
  /\ UNCHANGED <<allocations, issued, faulted>>

FreeVram(a) ==
  /\ a \in DOMAIN allocations
  /\ allocations' = Remove(allocations, a)
  /\ vramAvailable' =
       [vramAvailable EXCEPT ![allocations[a].gpu] = @ + allocations[a].size]
  /\ reply' = NoReply
  /\ UNCHANGED <<issued, faulted>>

(* The four ways submit(g, ..) returns. *)
Accept(g) ==
  /\ ~faulted[g]
  /\ reply' = <<g, "accepted">>
  /\ UNCHANGED <<allocations, issued, vramAvailable, faulted>>

Reject(g) ==
  /\ faulted[g]
  /\ reply' = <<g, "rejected">>
  /\ UNCHANGED <<allocations, issued, vramAvailable, faulted>>

Fail(g) ==
  /\ ~faulted[g]
  /\ reply' = <<g, "failed">>
  /\ UNCHANGED <<allocations, issued, vramAvailable, faulted>>

Lose(g) ==
  /\ ~faulted[g]
  /\ reply' = <<g, "lost">>
  /\ faulted' = [faulted EXCEPT ![g] = TRUE]
  /\ UNCHANGED <<allocations, issued, vramAvailable>>

Submit(g) == Accept(g) \/ Reject(g) \/ Fail(g) \/ Lose(g)

(* mark_faulted, and what the driver's own inject_fault hook does. *)
MarkFaulted(g) ==
  /\ faulted' = [faulted EXCEPT ![g] = TRUE]
  /\ reply' = NoReply
  /\ UNCHANGED <<allocations, issued, vramAvailable>>

(* A reset that succeeds; one that fails changes nothing. *)
ResetDevice(g) ==
  /\ faulted' = [faulted EXCEPT ![g] = FALSE]
  /\ reply' = NoReply
  /\ UNCHANGED <<allocations, issued, vramAvailable>>

(* Any call that leaves the accounting and the faults alone: probe,        *)
(* initialize, map_dma, fault_status, vram_available, a failed call.       *)
OtherCall ==
  /\ reply' = NoReply
  /\ UNCHANGED <<allocations, issued, vramAvailable, faulted>>

Next ==
  \/ \E g \in Gpu, size \in Sizes : AllocateVram(g, size)
  \/ \E a \in AllocId : FreeVram(a)
  \/ \E g \in Gpu : Submit(g) \/ MarkFaulted(g) \/ ResetDevice(g)
  \/ OtherCall

Spec == Init /\ [][Next]_driverVars

-----------------------------------------------------------------------------
TypeOK ==
  /\ issued \in 0 .. MaxAllocs
  /\ DOMAIN allocations \subseteq 1 .. issued
  /\ \A a \in DOMAIN allocations : allocations[a] \in Allocation
  /\ IsTable(allocations)
  /\ vramAvailable \in [Gpu -> Nat]
  /\ faulted \in [Gpu -> BOOLEAN]
  /\ reply \in Reply

(* The bytes of one allocation and of all the live allocations on a GPU,   *)
(* each byte told apart by the allocation it belongs to.                   *)
BytesOf(a) == {a} \X (1 .. allocations[a].size)
UsedBytes(g) ==
  UNION {BytesOf(a) : a \in {b \in DOMAIN allocations : allocations[b].gpu = g}}

(***************************************************************************)
(* Every byte of a GPU's pool is either available or held by exactly one   *)
(* live allocation on that GPU: allocate_vram and free_vram never create,  *)
(* lose or move bytes between pools (gpu_abstraction lib.rs:130-132).      *)
(***************************************************************************)
VramAccounting ==
  \A g \in Gpu : vramAvailable[g] + Cardinality(UsedBytes(g)) = VramTotal

=============================================================================
