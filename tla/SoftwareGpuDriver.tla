-------------------------- MODULE SoftwareGpuDriver --------------------------
(***************************************************************************)
(* The reference implementation of GpuDriver: SoftwareGpuDriver of         *)
(* crates/gpu_abstraction/src/lib.rs, a table of devices (pool, fault,     *)
(* initialized flag) and a table of allocations.  It adds to the contract  *)
(* the address every allocation is given, the initialized flag that        *)
(* submit does not look at, and the two test hooks inject_fault and        *)
(* clear_fault.                                                            *)
(***************************************************************************)
EXTENDS Integers, FiniteSets, Tables

CONSTANTS Gpu, VramTotal, Sizes, MaxAllocs

VARIABLES allocations,    \* id -> [gpu, size, address]
          issued, vramAvailable, faulted, reply,
          initialized     \* device -> was it initialized and not shut down?

vars == <<allocations, issued, vramAvailable, faulted, reply, initialized>>

(* The contract sees the allocations without their addresses. *)
WithoutAddress ==
  [a \in DOMAIN allocations |->
     [gpu |-> allocations[a].gpu, size |-> allocations[a].size]]

Contract == INSTANCE GpuDriver WITH allocations <- WithoutAddress

ASSUME SoftwareGpuDriverAssumption ==
  /\ VramTotal \in Nat
  /\ Sizes \subseteq Nat
  /\ MaxAllocs \in Nat

(* with_devices(count, vram_bytes_per_device) *)
Init ==
  /\ allocations = EmptyTable
  /\ issued = 0
  /\ vramAvailable = [g \in Gpu |-> VramTotal]
  /\ faulted = [g \in Gpu |-> FALSE]
  /\ reply = <<>>
  /\ initialized = [g \in Gpu |-> FALSE]

-----------------------------------------------------------------------------
Initialize(g) ==
  /\ initialized' = [initialized EXCEPT ![g] = TRUE]
  /\ reply' = <<>>
  /\ UNCHANGED <<allocations, issued, vramAvailable, faulted>>

Shutdown(g) ==
  /\ initialized' = [initialized EXCEPT ![g] = FALSE]
  /\ reply' = <<>>
  /\ UNCHANGED <<allocations, issued, vramAvailable, faulted>>

(* Bug: the guard lets an allocation through that misses one byte.         *)
FitsOffByOne(g, size) == size <= vramAvailable[g] + 1

Fits(g, size) == size <= vramAvailable[g]

(* Bug: the address of the last byte the pool has left.                    *)
DeviceAddressFromTop(g) == vramAvailable[g]

(* The address of a new allocation is the number of bytes in use.          *)
DeviceAddress(g) == VramTotal - vramAvailable[g]

AllocateVram(g, size) ==
  /\ issued < MaxAllocs
  /\ Fits(g, size)
  /\ issued' = issued + 1
  /\ allocations' =
       Insert(allocations, issued',
              [gpu |-> g, size |-> size, address |-> DeviceAddress(g)])
  /\ vramAvailable' = [vramAvailable EXCEPT ![g] = @ - size]
  /\ reply' = <<>>
  /\ UNCHANGED <<faulted, initialized>>

FreeVram(a) ==
  /\ a \in DOMAIN allocations
  /\ allocations' = Remove(allocations, a)
  /\ vramAvailable' =
       [vramAvailable EXCEPT ![allocations[a].gpu] = @ + allocations[a].size]
  /\ reply' = <<>>
  /\ UNCHANGED <<issued, faulted, initialized>>

(* Bug: executes on a device whose fault nobody has cleared.               *)
SubmitIgnoringFault(g) ==
  /\ reply' = <<g, "accepted">>
  /\ UNCHANGED <<allocations, issued, vramAvailable, faulted, initialized>>

(* Accepts whatever it is given unless a fault is recorded; executes nothing. *)
Submit(g) ==
  /\ reply' = <<g, IF faulted[g] THEN "rejected" ELSE "accepted">>
  /\ UNCHANGED <<allocations, issued, vramAvailable, faulted, initialized>>

(* inject_fault and mark_faulted *)
InjectFault(g) ==
  /\ faulted' = [faulted EXCEPT ![g] = TRUE]
  /\ reply' = <<>>
  /\ UNCHANGED <<allocations, issued, vramAvailable, initialized>>

(* clear_fault and reset_device *)
ResetDevice(g) ==
  /\ faulted' = [faulted EXCEPT ![g] = FALSE]
  /\ reply' = <<>>
  /\ UNCHANGED <<allocations, issued, vramAvailable, initialized>>

Next ==
  \/ \E g \in Gpu : \/ Initialize(g) \/ Shutdown(g)
                    \/ \E size \in Sizes : AllocateVram(g, size)
                    \/ Submit(g) \/ InjectFault(g) \/ ResetDevice(g)
  \/ \E a \in 1 .. MaxAllocs : FreeVram(a)

Spec == Init /\ [][Next]_vars

-----------------------------------------------------------------------------
TypeOK ==
  /\ Contract!TypeOK
  /\ IsTable(allocations)
  /\ \A a \in DOMAIN allocations :
       allocations[a] \in [gpu : Gpu, size : Sizes, address : Nat]
  /\ initialized \in [Gpu -> BOOLEAN]

(***************************************************************************)
(* The range map_dma reports for a live allocation, [iova, iova + size),   *)
(* lies inside the pool of its device, whatever was allocated and freed    *)
(* before: the address is computed from what is available, and the guard   *)
(* of allocate_vram is what keeps its end inside the pool.                 *)
(***************************************************************************)
MappingInsidePool ==
  \A a \in DOMAIN allocations :
    /\ allocations[a].address >= 0
    /\ allocations[a].address + allocations[a].size <= VramTotal

(* The bytes of its device's address space an allocation occupies.         *)
Bytes(x) == {x.gpu} \X (x.address .. x.address + x.size - 1)

(***************************************************************************)
(* Two live allocations of one device never share an address: the address  *)
(* space of a GPU is handed out by an allocator (ARCHITECTURE.md:372), so  *)
(* the DMA mapping of one resource never reaches the bytes of another.     *)
(***************************************************************************)
LiveAllocationsDisjoint ==
  \A a, b \in DOMAIN allocations :
    a # b => Bytes(allocations[a]) \cap Bytes(allocations[b]) = {}

(***************************************************************************)
(* The reference driver implements the contract graphics_runtime is        *)
(* written against.                                                        *)
(***************************************************************************)
ImplementsContract == Contract!Spec

=============================================================================
