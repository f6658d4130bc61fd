-------------------------- MODULE VulkanDriverProofs --------------------------
(***************************************************************************)
(* What holds of the Vulkan driver for every set of devices, every pool    *)
(* size and any number of calls: the protocol between the caller and the   *)
(* render thread, the addresses, and the contract it implements.           *)
(***************************************************************************)
EXTENDS VulkanDriver, TLAPS

(***************************************************************************)
(* Where the two threads and the one command between them can be.  A       *)
(* command is in the channel, or it runs, or it has its answer, and its    *)
(* caller is blocked all along.                                            *)
(***************************************************************************)
Placed ==
  /\ pc \in {"idle", "dropped"} \cup Blocked
  /\ answer \in {"none", "pending", "ok", "error", "lost", "dropped"}
  /\ channel \in {<<>>, <<"submit">>, <<"reset">>, <<"shutdown">>}
Queued ==
  channel # <<>> =>
    /\ pc \in Blocked
    /\ worker \notin Busy \cup {"stopped"}
    /\ channel = <<"shutdown">> <=> pc = "joining"
    /\ pc # "joining" => answer = "pending"
Running == worker \in Busy => pc \in Blocked /\ answer = "pending" /\ channel = <<>>
Unasked == pc \in {"idle", "joining"} => answer = "none"
Ended == pc = "dropped" => worker = "stopped"
Protocol == Placed /\ Queued /\ Running /\ Unasked /\ Ended

LEMMA StepKeepsProtocol ==
  ASSUME Protocol, [Next]_vars
  PROVE  Protocol'
<1> USE DEF Protocol, Placed, Queued, Running, Unasked, Ended, Blocked, Busy
<1>1. ASSUME UNCHANGED threads
      PROVE  Protocol'
  BY <1>1 DEF threads
<1>2. ASSUME NEW g \in Gpu,
             \/ \E size \in Sizes : AllocateVram(g, size)
             \/ MarkFaulted(g) \/ SubmitRejected(g) \/ SubmitUnsent(g)
      PROVE  Protocol'
  BY <1>1, <1>2 DEF AllocateVram, MarkFaulted, SubmitRejected, SubmitUnsent
<1>3. ASSUME NEW a \in 1 .. MaxAllocs, FreeVram(a)
      PROVE  Protocol'
  BY <1>1, <1>3 DEF FreeVram
<1>4. ASSUME NEW c \in {"submit", "reset", "shutdown"}
      PROVE  /\ Append(<<>>, c) = <<c>>
             /\ Head(<<c>>) = c
             /\ Tail(<<c>>) = <<>>
  OBVIOUS
<1>5. ASSUME NEW g \in Gpu, SubmitSend(g) \/ ResetSend(g)
      PROVE  Protocol'
  <2>1. pc = "idle" /\ channel = <<>> /\ worker \notin Busy \cup {"stopped"}
    BY <1>5 DEF SubmitSend, ResetSend, ThreadRuns
  <2>2. CASE SubmitSend(g)
    BY <1>4, <2>1, <2>2 DEF SubmitSend, Request
  <2>3. CASE ResetSend(g)
    BY <1>4, <2>1, <2>3 DEF ResetSend, Request
  <2> QED
    BY <1>5, <2>2, <2>3
<1>6. CASE DropSend
  BY <1>4, <1>6 DEF DropSend, ThreadRuns
<1>7. CASE SubmitReturn \/ ResetReturn
  BY <1>7 DEF SubmitReturn, ResetReturn, Return
<1>8. CASE Joined
  BY <1>8 DEF Joined
<1>9. CASE Start \/ StartFails
  BY <1>9 DEF Start, StartFails, WorkerIs
<1>10. CASE Receive
  <2>1. PICK c \in {"submit", "reset", "shutdown"} : channel = <<c>>
    BY <1>10 DEF Receive
  <2> QED
    BY <1>4, <1>10, <2>1 DEF Receive, WorkerIs
<1>11. CASE Execute
  BY <1>11 DEF Execute, WorkerIs
<1>12. CASE Recreate
  BY <1>12 DEF Recreate, WorkerIs
<1>13. CASE Panic
  BY <1>13 DEF Panic, WorkerIs
<1>14. CASE Hang
  BY <1>14 DEF Hang, WorkerIs
<1>15. CASE Close
  BY <1>15 DEF Close, CloseDrops, WorkerIs
<1>16. CASE UNCHANGED vars
  BY <1>1, <1>16 DEF vars, threads
<1> QED
  BY <1>2, <1>3, <1>5, <1>6, <1>7, <1>8, <1>9, <1>10, <1>11, <1>12, <1>13,
     <1>14, <1>15, <1>16 DEF Next, Worker, Caller, Unblock

(***************************************************************************)
(* Nothing is queued or running on the render thread while the caller is   *)
(* free to make another call, and no thread outlives the driver, for any   *)
(* number of devices and calls.                                            *)
(***************************************************************************)
THEOREM EveryCommandIsAttended == Spec => []NothingRunsUnattended
<1>1. Init => Protocol
  BY DEF Init, Protocol, Placed, Queued, Running, Unasked, Ended, Blocked, Busy
<1>2. Protocol /\ [Next]_vars => Protocol'
  BY StepKeepsProtocol
<1>3. Protocol => NothingRunsUnattended
  <2>1. Placed => Len(channel) <= 1
    BY DEF Placed
  <2>2. Protocol /\ pc \in {"idle", "dropped"}
          => channel = <<>> /\ worker \notin Busy
    BY DEF Protocol, Queued, Running, Blocked
  <2>3. Protocol /\ pc = "dropped" => worker = "stopped"
    BY DEF Protocol, Ended
  <2> QED
    BY <2>1, <2>2, <2>3 DEF NothingRunsUnattended, Protocol
<1> QED
  BY <1>1, <1>2, <1>3, PTL DEF Spec

-----------------------------------------------------------------------------
(***************************************************************************)
(* Addresses.  Every live allocation lies below the next address of its    *)
(* device, and that address only grows.                                    *)
(***************************************************************************)
Placement ==
  /\ issued \in 0 .. MaxAllocs
  /\ nextAddress \in [Gpu -> Nat]
  /\ IsTable(allocations)
  /\ DOMAIN allocations \subseteq 1 .. issued
  /\ \A a \in DOMAIN allocations :
       /\ allocations[a].gpu \in Gpu
       /\ allocations[a].size \in Nat
       /\ allocations[a].address \in Nat
       /\ allocations[a].address + allocations[a].size
            <= nextAddress[allocations[a].gpu]

(* What allocate_vram adds to the table, and where. *)
LEMMA AllocateAppends ==
  ASSUME Placement, NEW g \in Gpu, NEW size \in Sizes, AllocateVram(g, size)
  PROVE  /\ issued' \in 0 .. MaxAllocs
         /\ DOMAIN allocations' = DOMAIN allocations \cup {issued'}
         /\ DOMAIN allocations' \subseteq 1 .. issued'
         /\ allocations'[issued'].gpu = g
         /\ allocations'[issued'].size = size
         /\ allocations'[issued'].address = nextAddress[g]
         /\ \A x \in DOMAIN allocations : allocations'[x] = allocations[x]
         /\ IsTable(allocations')
         /\ nextAddress[g] \in Nat
         /\ size \in Nat
<1>1. issued' = issued + 1 /\ issued' \in 0 .. MaxAllocs
  BY VulkanDriverAssumption DEF AllocateVram, Placement
<1>2. issued' \notin DOMAIN allocations
  BY <1>1 DEF Placement
<1>3. /\ DOMAIN allocations' = DOMAIN allocations \cup {issued'}
      /\ allocations'[issued']
           = [gpu |-> g, size |-> size, address |-> nextAddress[g]]
      /\ \A x \in DOMAIN allocations : allocations'[x] = allocations[x]
      /\ IsTable(allocations')
  BY <1>2 DEF AllocateVram, DeviceAddress, Insert, IsTable
<1> QED
  BY <1>1, <1>3, VulkanDriverAssumption DEF Placement

LEMMA FreeRemoves ==
  ASSUME NEW a, FreeVram(a)
  PROVE  /\ DOMAIN allocations' = DOMAIN allocations \ {a}
         /\ \A x \in DOMAIN allocations' : allocations'[x] = allocations[x]
         /\ a \in DOMAIN allocations
         /\ IsTable(allocations')
BY DEF FreeVram, Remove, Restrict, IsTable

(* Every other step leaves the table and the addresses alone. *)
LEMMA OtherStepsPlaceNothing ==
  ASSUME [Next]_vars,
         ~ \E g \in Gpu, size \in Sizes : AllocateVram(g, size),
         ~ \E a \in 1 .. MaxAllocs : FreeVram(a)
  PROVE  UNCHANGED <<allocations, issued, nextAddress>>
<1>1. ASSUME NEW g \in Gpu,
             \/ MarkFaulted(g) \/ SubmitRejected(g) \/ SubmitSend(g)
             \/ SubmitUnsent(g) \/ ResetSend(g)
      PROVE  UNCHANGED <<allocations, issued, nextAddress>>
  BY <1>1 DEF MarkFaulted, SubmitRejected, SubmitSend, SubmitUnsent,
              ResetSend, Request, accounting, adapterVars
<1>2. CASE DropSend \/ Unblock
  BY <1>2 DEF DropSend, Unblock, SubmitReturn, ResetReturn, Return, Joined,
              accounting, adapterVars
<1>3. CASE Worker
  BY <1>3 DEF Worker, Start, StartFails, Receive, Execute, Recreate, Panic,
              Hang, Close, WorkerIs, adapterVars
<1>4. CASE UNCHANGED vars
  BY <1>4 DEF vars, adapterVars
<1> QED
  BY <1>1, <1>2, <1>3, <1>4 DEF Next, Caller

LEMMA StepKeepsPlacement ==
  ASSUME Placement, [Next]_vars
  PROVE  Placement'
<1>1. ASSUME NEW g \in Gpu, NEW size \in Sizes, AllocateVram(g, size)
      PROVE  Placement'
  <2> USE AllocateAppends, <1>1
  <2>1. /\ nextAddress' \in [Gpu -> Nat]
        /\ nextAddress'[g] = nextAddress[g] + size
        /\ \A h \in Gpu : nextAddress[h] <= nextAddress'[h]
    <3>1. /\ size \in Nat
          /\ nextAddress \in [Gpu -> Nat]
          /\ nextAddress' = [nextAddress EXCEPT ![g] = @ + size]
      BY DEF AllocateVram, Placement
    <3>2. \A h \in Gpu : nextAddress[h] \in Nat
      BY <3>1
    <3> QED
      BY <3>1, <3>2
  <2>2. ASSUME NEW x \in DOMAIN allocations
        PROVE  /\ allocations'[x].gpu \in Gpu
               /\ allocations'[x].size \in Nat
               /\ allocations'[x].address \in Nat
               /\ allocations'[x].address + allocations'[x].size
                    <= nextAddress'[allocations'[x].gpu]
    <3>1. /\ nextAddress[allocations[x].gpu] \in Nat
          /\ nextAddress'[allocations[x].gpu] \in Nat
      BY <2>1 DEF Placement
    <3> QED
      BY <2>1, <3>1 DEF Placement
  <2> QED
    BY <2>1, <2>2 DEF Placement
<1>2. ASSUME NEW a \in 1 .. MaxAllocs, FreeVram(a)
      PROVE  Placement'
  <2>1. issued' = issued /\ nextAddress' = nextAddress
    BY <1>2 DEF FreeVram
  <2> QED
    BY <1>2, <2>1, FreeRemoves DEF Placement
<1>3. ASSUME UNCHANGED <<allocations, issued, nextAddress>>
      PROVE  Placement'
  BY <1>3 DEF Placement
<1> QED
  BY <1>1, <1>2, <1>3, OtherStepsPlaceNothing

LEMMA StepKeepsDisjoint ==
  ASSUME Placement, LiveAllocationsDisjoint, [Next]_vars
  PROVE  LiveAllocationsDisjoint'
<1>1. ASSUME NEW g \in Gpu, NEW size \in Sizes, AllocateVram(g, size)
      PROVE  LiveAllocationsDisjoint'
  <2> USE AllocateAppends, <1>1
  <2>1. ASSUME NEW x \in DOMAIN allocations
        PROVE  Bytes(allocations[x]) \cap Bytes(allocations'[issued']) = {}
    <3>1. allocations[x].gpu = g =>
            (allocations[x].address
               .. allocations[x].address + allocations[x].size - 1)
              \cap (nextAddress[g] .. nextAddress[g] + size - 1) = {}
      BY DEF Placement
    <3> QED
      BY <3>1 DEF Bytes
  <2>2. ASSUME NEW a \in DOMAIN allocations', NEW b \in DOMAIN allocations',
               a # b
        PROVE  Bytes(allocations'[a]) \cap Bytes(allocations'[b]) = {}
    <3>1. CASE a = issued' \/ b = issued'
      BY <2>1, <2>2, <3>1
    <3>2. CASE a # issued' /\ b # issued'
      BY <2>2, <3>2 DEF LiveAllocationsDisjoint
    <3> QED
      BY <3>1, <3>2
  <2> QED
    BY <2>2 DEF LiveAllocationsDisjoint, Bytes
<1>2. ASSUME NEW a \in 1 .. MaxAllocs, FreeVram(a)
      PROVE  LiveAllocationsDisjoint'
  BY <1>2, FreeRemoves DEF LiveAllocationsDisjoint, Bytes
<1>3. ASSUME UNCHANGED <<allocations, issued, nextAddress>>
      PROVE  LiveAllocationsDisjoint'
  BY <1>3 DEF LiveAllocationsDisjoint, Bytes
<1> QED
  BY <1>1, <1>2, <1>3, OtherStepsPlaceNothing

(***************************************************************************)
(* Two live allocations of one device never share an address, whatever was *)
(* freed between them, for any pool size and any number of allocations.    *)
(***************************************************************************)
THEOREM AllocationsNeverOverlap == Spec => []LiveAllocationsDisjoint
<1>1. Init => Placement /\ LiveAllocationsDisjoint
  BY VulkanDriverAssumption
     DEF Init, Placement, LiveAllocationsDisjoint, EmptyTable, IsTable
<1>2. Placement /\ LiveAllocationsDisjoint /\ [Next]_vars
        => Placement' /\ LiveAllocationsDisjoint'
  BY StepKeepsPlacement, StepKeepsDisjoint
<1> QED
  BY <1>1, <1>2, PTL DEF Spec

-----------------------------------------------------------------------------
(***************************************************************************)
(* The contract.  A call that goes to the render thread takes effect when  *)
(* it returns; the refinement needs that no fault is recorded for a device *)
(* while a submission for it is under way.                                 *)
(***************************************************************************)
Recorded ==
  /\ target \in Gpu
  /\ faulted \in [Gpu -> BOOLEAN]
  /\ pc = "submitting" => ~faulted[target]

Mapped == Protocol /\ Placement /\ Recorded

LEMMA StepKeepsRecorded ==
  ASSUME Mapped, [Next]_vars
  PROVE  Recorded'
<1> USE DEF Mapped, Recorded
<1>1. ASSUME NEW g \in Gpu,
             \/ \E size \in Sizes : AllocateVram(g, size)
             \/ MarkFaulted(g) \/ SubmitRejected(g) \/ SubmitUnsent(g)
      PROVE  Recorded'
  BY <1>1 DEF AllocateVram, MarkFaulted, Faulty, SubmitRejected, SubmitUnsent,
              threads
<1>2. ASSUME NEW a \in 1 .. MaxAllocs, FreeVram(a)
      PROVE  Recorded'
  BY <1>2 DEF FreeVram, threads
<1>3. ASSUME NEW g \in Gpu, SubmitSend(g) \/ ResetSend(g)
      PROVE  Recorded'
  BY <1>3 DEF SubmitSend, ResetSend, Request, adapterVars
<1>4. CASE DropSend \/ Joined
  BY <1>4 DEF DropSend, Joined, adapterVars
<1>5. CASE SubmitReturn \/ ResetReturn
  BY <1>5 DEF SubmitReturn, ResetReturn, Return, RecordFault, Faulty, ClearFault
<1>6. CASE Worker
  BY <1>6 DEF Worker, Start, StartFails, Receive, Execute, Recreate, Panic,
              Hang, Close, WorkerIs, adapterVars
<1>7. CASE UNCHANGED vars
  BY <1>7 DEF vars, adapterVars
<1> QED
  BY <1>1, <1>2, <1>3, <1>4, <1>5, <1>6, <1>7 DEF Next, Caller, Unblock

LEMMA InitIsMapped == Init => Mapped
BY VulkanDriverAssumption
   DEF Init, Mapped, Placement, Recorded, Protocol, Placed, Queued, Running,
       Unasked, Ended, Blocked, Busy, EmptyTable, IsTable

LEMMA StepKeepsMapped ==
  ASSUME Mapped, [Next]_vars
  PROVE  Mapped'
BY StepKeepsProtocol, StepKeepsPlacement, StepKeepsRecorded DEF Mapped

LEMMA AllocateRefines ==
  ASSUME Placement, NEW g \in Gpu, NEW size \in Sizes, AllocateVram(g, size)
  PROVE  Contract!AllocateVram(g, size)
<1>1. issued' \notin DOMAIN allocations
  BY DEF AllocateVram, Placement
<1>2. /\ DOMAIN allocations' = DOMAIN allocations \cup {issued'}
      /\ allocations'[issued'].gpu = g
      /\ allocations'[issued'].size = size
      /\ \A x \in DOMAIN allocations : allocations'[x] = allocations[x]
  BY AllocateAppends
<1>3. WithoutAddress'
        = Contract!Insert(WithoutAddress, issued', [gpu |-> g, size |-> size])
  BY <1>1, <1>2 DEF WithoutAddress, Contract!Insert
<1> QED
  BY <1>3 DEF AllocateVram, Fits, Contract!AllocateVram, Contract!Fits,
              Contract!NoReply

LEMMA FreeRefines ==
  ASSUME NEW a, FreeVram(a)
  PROVE  Contract!FreeVram(a)
<1>1. /\ DOMAIN allocations' = DOMAIN allocations \ {a}
      /\ \A x \in DOMAIN allocations' : allocations'[x] = allocations[x]
      /\ a \in DOMAIN allocations
  BY FreeRemoves
<1>2. WithoutAddress' = Contract!Remove(WithoutAddress, a)
  BY <1>1 DEF WithoutAddress, Contract!Remove, Contract!Restrict
<1>3. /\ DOMAIN WithoutAddress = DOMAIN allocations
      /\ WithoutAddress[a].gpu = allocations[a].gpu
      /\ WithoutAddress[a].size = allocations[a].size
  BY <1>1 DEF WithoutAddress
<1> QED
  BY <1>1, <1>2, <1>3 DEF FreeVram, Contract!FreeVram, Contract!NoReply

(***************************************************************************)
(* A returning call maps to the call of the contract it was; sending a     *)
(* command and every step of the render thread map to a stutter.           *)
(***************************************************************************)
LEMMA StepRefines ==
  ASSUME Mapped, [Next]_vars
  PROVE  [Contract!Next]_(Contract!driverVars)
<1>1. ASSUME UNCHANGED allocations
      PROVE  UNCHANGED WithoutAddress
  BY <1>1 DEF WithoutAddress
<1>2. ASSUME NEW g \in Gpu, NEW size \in Sizes, AllocateVram(g, size)
      PROVE  Contract!Next
  BY <1>2, AllocateRefines DEF Mapped, Contract!Next
<1>3. ASSUME NEW a \in 1 .. MaxAllocs, FreeVram(a)
      PROVE  Contract!Next
  BY <1>3, FreeRefines DEF Contract!Next, Contract!AllocId
<1>4. ASSUME NEW g \in Gpu, MarkFaulted(g)
      PROVE  Contract!Next
  BY <1>1, <1>4 DEF MarkFaulted, Faulty, Contract!MarkFaulted,
                    Contract!NoReply, Contract!Next
<1>5. ASSUME NEW g \in Gpu, SubmitRejected(g) \/ SubmitUnsent(g)
      PROVE  Contract!Next
  <2>1. Contract!Reject(g) \/ Contract!Fail(g)
    BY <1>1, <1>5 DEF SubmitRejected, SubmitUnsent, accounting,
                      Contract!Reject, Contract!Fail
  <2> QED
    BY <2>1 DEF Contract!Next, Contract!Submit
<1>6. CASE SubmitReturn
  <2>1. /\ target \in Gpu
        /\ ~faulted[target]
        /\ answer \in {"ok", "error", "lost", "dropped"}
    BY <1>6 DEF SubmitReturn, Return, Mapped, Recorded, Protocol, Placed
  <2>2. UNCHANGED <<WithoutAddress, issued, vramAvailable>>
    BY <1>1, <1>6 DEF SubmitReturn, Return, accounting
  <2>3. ASSUME answer = "ok"
        PROVE  Contract!Accept(target)
    BY <1>6, <2>1, <2>2, <2>3 DEF SubmitReturn, RecordFault, Contract!Accept
  <2>4. ASSUME answer = "error"
        PROVE  Contract!Fail(target)
    BY <1>6, <2>1, <2>2, <2>4 DEF SubmitReturn, RecordFault, Contract!Fail
  <2>5. ASSUME answer \in {"lost", "dropped"}
        PROVE  Contract!Lose(target)
    BY <1>6, <2>1, <2>2, <2>5
       DEF SubmitReturn, RecordFault, Faulty, Contract!Lose
  <2>6. Contract!Submit(target)
    BY <2>1, <2>3, <2>4, <2>5 DEF Contract!Submit
  <2> QED
    BY <2>1, <2>6 DEF Contract!Next
<1>7. CASE ResetReturn
  <2>1. target \in Gpu /\ faulted \in [Gpu -> BOOLEAN]
    BY DEF Mapped, Recorded
  <2>2. UNCHANGED <<WithoutAddress, issued, vramAvailable>> /\ reply' = <<>>
    BY <1>1, <1>7 DEF ResetReturn, Return, accounting
  <2>3. CASE answer = "ok"
    BY <1>7, <2>1, <2>2, <2>3 DEF ResetReturn, ClearFault,
       Contract!ResetDevice, Contract!NoReply, Contract!Next
  <2>4. CASE answer # "ok"
    <3>1. faulted' = faulted
      BY <1>7, <2>1, <2>4 DEF ResetReturn, ClearFault
    <3> QED
      BY <2>2, <3>1 DEF Contract!OtherCall, Contract!NoReply, Contract!Next
  <2> QED
    BY <2>3, <2>4
<1>8. ASSUME UNCHANGED adapterVars
      PROVE  UNCHANGED Contract!driverVars
  BY <1>1, <1>8 DEF adapterVars, Contract!driverVars
<1>9. ASSUME \/ \E g \in Gpu : SubmitSend(g) \/ ResetSend(g)
             \/ DropSend \/ Joined \/ Worker \/ UNCHANGED vars
      PROVE  UNCHANGED Contract!driverVars
  <2>1. UNCHANGED adapterVars
    BY <1>9 DEF SubmitSend, ResetSend, Request, DropSend, Joined, Worker, vars,
                Start, StartFails, Receive, Execute, Recreate, Panic, Hang,
                Close, WorkerIs
  <2> QED
    BY <1>8, <2>1
<1> QED
  BY <1>2, <1>3, <1>4, <1>5, <1>6, <1>7, <1>9 DEF Next, Caller, Unblock

(***************************************************************************)
(* VulkanDriver keeps the contract of the trait GpuDriver, through its     *)
(* channels, the render thread and the death of that thread.               *)
(***************************************************************************)
THEOREM VulkanDriverImplementsContract == Spec => ImplementsContract
<1>1. Init => Mapped
  BY InitIsMapped
<1>2. Mapped /\ [Next]_vars => Mapped'
  BY StepKeepsMapped
<1>3. Init => Contract!Init
  BY DEF Init, EmptyTable, WithoutAddress, Contract!Init,
         Contract!EmptyTable, Contract!NoReply
<1>4. Mapped /\ [Next]_vars => [Contract!Next]_(Contract!driverVars)
  BY StepRefines
<1> QED
  BY <1>1, <1>2, <1>3, <1>4, PTL DEF Spec, ImplementsContract, Contract!Spec

-----------------------------------------------------------------------------
(***************************************************************************)
(* The lost context.  The command in the channel, or running, is the one   *)
(* its caller waits for; so an "ok" that clears a fault comes from a       *)
(* recreated context, and a loss nothing records yet is the answer its     *)
(* caller is about to receive.                                             *)
(***************************************************************************)
Matched ==
  /\ channel = <<"submit">> \/ worker = "executing" => pc = "submitting"
  /\ channel = <<"reset">> \/ worker = "recreating" => pc = "resetting"
LossKnown ==
  /\ context \in {"ready", "lost"}
  /\ context = "lost" => \/ \E g \in Gpu : faulted[g]
                         \/ pc = "submitting" /\ answer = "lost"
  /\ pc = "resetting" /\ answer = "ok" => context = "ready"

LEMMA StepKeepsMatched ==
  ASSUME Protocol, Matched, [Next]_vars
  PROVE  Matched'
<1> USE DEF Matched, Protocol, Placed, Queued, Running, Blocked, Busy
<1>1. ASSUME UNCHANGED threads
      PROVE  Matched'
  BY <1>1 DEF threads
<1>2. ASSUME NEW g \in Gpu,
             \/ \E size \in Sizes : AllocateVram(g, size)
             \/ MarkFaulted(g) \/ SubmitRejected(g) \/ SubmitUnsent(g)
      PROVE  Matched'
  BY <1>1, <1>2 DEF AllocateVram, MarkFaulted, SubmitRejected, SubmitUnsent
<1>3. ASSUME NEW a \in 1 .. MaxAllocs, FreeVram(a)
      PROVE  Matched'
  BY <1>1, <1>3 DEF FreeVram
<1>4. ASSUME NEW c \in {"submit", "reset", "shutdown"}
      PROVE  /\ Append(<<>>, c) = <<c>>
             /\ Head(<<c>>) = c
             /\ Tail(<<c>>) = <<>>
             /\ <<c>> # <<>>
             /\ \A d \in {"submit", "reset"} : <<c>> = <<d>> => c = d
             /\ \A d \in {"submit", "reset"} : <<>> # <<d>>
  OBVIOUS
<1>5. ASSUME NEW g \in Gpu, SubmitSend(g)
      PROVE  Matched'
  BY <1>4, <1>5 DEF SubmitSend, Request
<1>6. ASSUME NEW g \in Gpu, ResetSend(g)
      PROVE  Matched'
  BY <1>4, <1>6 DEF ResetSend, Request
<1>7. CASE DropSend
  BY <1>4, <1>7 DEF DropSend
<1>8. CASE SubmitReturn \/ ResetReturn \/ Joined
  BY <1>4, <1>8 DEF SubmitReturn, ResetReturn, Return, Joined
<1>9. CASE Receive
  <2>1. PICK c \in {"submit", "reset", "shutdown"} : channel = <<c>>
    BY <1>9 DEF Receive
  <2> QED
    BY <1>4, <1>9, <2>1 DEF Receive, WorkerIs
<1>10. CASE Start \/ StartFails \/ Execute \/ Recreate \/ Panic \/ Hang \/ Close
  BY <1>4, <1>10 DEF Start, StartFails, Execute, Recreate, Panic, Hang, Close,
                     WorkerIs
<1>11. CASE UNCHANGED vars
  BY <1>1, <1>11 DEF vars, threads
<1> QED
  BY <1>2, <1>3, <1>5, <1>6, <1>7, <1>8, <1>9, <1>10, <1>11
     DEF Next, Worker, Caller, Unblock

LEMMA StepKeepsLossKnown ==
  ASSUME Protocol, Matched, Recorded, LossKnown, [Next]_vars
  PROVE  LossKnown'
<1> USE DEF LossKnown, Recorded
<1>1. ASSUME UNCHANGED <<threads, faulted>>
      PROVE  LossKnown'
  BY <1>1 DEF threads
<1>2. ASSUME NEW g \in Gpu,
             \/ \E size \in Sizes : AllocateVram(g, size)
             \/ SubmitRejected(g) \/ SubmitUnsent(g)
      PROVE  LossKnown'
  BY <1>1, <1>2 DEF AllocateVram, SubmitRejected, SubmitUnsent
<1>3. ASSUME NEW a \in 1 .. MaxAllocs, FreeVram(a)
      PROVE  LossKnown'
  BY <1>1, <1>3 DEF FreeVram
<1>4. ASSUME NEW g \in Gpu, MarkFaulted(g)
      PROVE  LossKnown'
  BY <1>4 DEF MarkFaulted, Faulty, threads
<1>5. ASSUME NEW g \in Gpu, SubmitSend(g) \/ ResetSend(g)
      PROVE  LossKnown'
  BY <1>5 DEF SubmitSend, ResetSend, Request, adapterVars
<1>6. CASE DropSend \/ Joined
  BY <1>6 DEF DropSend, Joined, adapterVars
<1>7. CASE SubmitReturn
  <2>1. \A g \in Gpu : faulted[g] => faulted'[g]
    BY <1>7 DEF SubmitReturn, RecordFault, Faulty
  <2>2. answer = "lost" => faulted'[target]
    BY <1>7 DEF SubmitReturn, RecordFault, Faulty
  <2> QED
    BY <1>7, <2>1, <2>2 DEF SubmitReturn, Return
<1>8. CASE ResetReturn
  <2>1. CASE answer = "ok"
    BY <1>8, <2>1 DEF ResetReturn, Return
  <2>2. CASE answer # "ok"
    <3>1. faulted' = faulted
      BY <1>8, <2>2 DEF ResetReturn, ClearFault
    <3> QED
      BY <1>8, <3>1 DEF ResetReturn, Return
  <2> QED
    BY <2>1, <2>2
<1>9. CASE Start \/ StartFails \/ Receive \/ Hang
  BY <1>9 DEF Start, StartFails, Receive, Hang, WorkerIs, adapterVars
<1>10. CASE Execute
  BY <1>10 DEF Execute, WorkerIs, adapterVars, Matched, Protocol, Running, Busy
<1>11. CASE Recreate
  BY <1>11 DEF Recreate, WorkerIs, adapterVars, Matched, Protocol, Running, Busy
<1>12. CASE Panic
  BY <1>12 DEF Panic, WorkerIs, adapterVars, Protocol, Running, Busy
<1>13. CASE Close
  BY <1>13 DEF Close, CloseDrops, WorkerIs, adapterVars
<1>14. CASE UNCHANGED vars
  BY <1>1, <1>14 DEF vars, adapterVars, threads
<1> QED
  BY <1>2, <1>3, <1>4, <1>5, <1>6, <1>7, <1>8, <1>9, <1>10, <1>11, <1>12,
     <1>13, <1>14 DEF Next, Worker, Caller, Unblock

Known == Mapped /\ Matched /\ LossKnown

LEMMA InitIsKnown == Init => Known
BY InitIsMapped DEF Init, Matched, LossKnown, Known

LEMMA StepKeepsKnown ==
  ASSUME Known, [Next]_vars
  PROVE  Known'
BY StepKeepsMapped, StepKeepsMatched, StepKeepsLossKnown DEF Known, Mapped

(***************************************************************************)
(* From the return of the submission that lost the Vulkan device until the *)
(* context is recreated, some device is recorded as faulted, whatever the  *)
(* other devices submit, reset or allocate in between.                     *)
(***************************************************************************)
THEOREM LossIsNeverForgotten == Spec => []LostContextIsRecorded
<1>1. Known => LostContextIsRecorded
  BY DEF Known, LossKnown, LostContextIsRecorded
<1> QED
  BY <1>1, InitIsKnown, StepKeepsKnown, PTL DEF Spec

-----------------------------------------------------------------------------
(***************************************************************************)
(* The accounting of the contract, whose steps these are, and types.       *)
(***************************************************************************)
Accounts == INSTANCE GpuDriverProofs WITH allocations <- WithoutAddress

LEMMA StepsAccount ==
  ASSUME Mapped, [Next]_vars, Accounts!Accounting
  PROVE  Accounts!Accounting'
<1>1. [Contract!Next]_(Contract!driverVars)
  BY StepRefines
<1>2. [Accounts!Next]_(Accounts!driverVars)
  BY <1>1
     DEF Contract!Next, Contract!AllocateVram, Contract!Fits, Contract!Insert,
         Contract!FreeVram, Contract!Remove, Contract!Restrict, Contract!Submit,
         Contract!Accept, Contract!Reject, Contract!Fail, Contract!Lose,
         Contract!MarkFaulted, Contract!ResetDevice, Contract!OtherCall,
         Contract!NoReply, Contract!AllocId, Contract!driverVars,
         Accounts!Next, Accounts!AllocateVram, Accounts!Fits, Accounts!Insert,
         Accounts!FreeVram, Accounts!Remove, Accounts!Restrict, Accounts!Submit,
         Accounts!Accept, Accounts!Reject, Accounts!Fail, Accounts!Lose,
         Accounts!MarkFaulted, Accounts!ResetDevice, Accounts!OtherCall,
         Accounts!NoReply, Accounts!AllocId, Accounts!driverVars
<1> QED
  BY <1>2, VulkanDriverAssumption, Accounts!StepKeepsAccounting
     DEF Accounts!GpuDriverAssumption

LEMMA InitAccounts == ASSUME Init PROVE Accounts!Accounting
<1>1. Accounts!Init
  BY DEF Init, EmptyTable, WithoutAddress, Accounts!Init, Accounts!EmptyTable,
         Accounts!NoReply
<1> QED
  BY <1>1, VulkanDriverAssumption, Accounts!InitAccounts
     DEF Accounts!GpuDriverAssumption

Typed ==
  /\ \A a \in DOMAIN allocations :
       allocations[a] \in [gpu : Gpu, size : Sizes, address : Nat]
  /\ worker \in {"starting", "receiving", "closing", "stopped", "hung"} \cup Busy

LEMMA StepKeepsTyped ==
  ASSUME Mapped, Typed, [Next]_vars
  PROVE  Typed'
<1> USE DEF Typed
<1>1. ASSUME NEW g \in Gpu, NEW size \in Sizes, AllocateVram(g, size)
      PROVE  Typed'
  <2>1. /\ DOMAIN allocations' = DOMAIN allocations \cup {issued'}
        /\ allocations'[issued']
             = [gpu |-> g, size |-> size, address |-> nextAddress[g]]
        /\ \A x \in DOMAIN allocations \ {issued'} :
             allocations'[x] = allocations[x]
    BY <1>1 DEF AllocateVram, DeviceAddress, Insert
  <2>2. nextAddress[g] \in Nat /\ UNCHANGED worker
    BY <1>1 DEF Mapped, Placement, AllocateVram, threads
  <2> QED
    BY <2>1, <2>2
<1>2. ASSUME NEW a \in 1 .. MaxAllocs, FreeVram(a)
      PROVE  Typed'
  BY <1>2, FreeRemoves DEF FreeVram, threads
<1>3. ASSUME UNCHANGED <<allocations, issued, nextAddress>>
      PROVE  Typed'
  <2>1. worker' \in {"starting", "receiving", "closing", "stopped", "hung"} \cup Busy
    <3>1. CASE Worker
      BY <3>1 DEF Worker, Start, StartFails, Receive, Execute, Recreate, Panic,
                  Hang, Close, WorkerIs, Busy
    <3>2. CASE Caller
      BY <3>2 DEF Caller, AllocateVram, FreeVram, MarkFaulted, SubmitRejected,
                  SubmitSend, SubmitUnsent, ResetSend, DropSend, Request, threads
    <3>3. CASE Unblock
      BY <3>3 DEF Unblock, SubmitReturn, ResetReturn, Return, Joined
    <3>4. CASE UNCHANGED vars
      BY <3>4 DEF vars
    <3> QED
      BY <3>1, <3>2, <3>3, <3>4 DEF Next
  <2> QED
    BY <1>3, <2>1
<1> QED
  BY <1>1, <1>2, <1>3, OtherStepsPlaceNothing

(***************************************************************************)
(* All that is invariant of the driver and its render thread.              *)
(***************************************************************************)
Sound == Known /\ Typed /\ Accounts!Accounting

LEMMA InitIsSound == Init => Sound
BY InitIsKnown, InitAccounts DEF Init, Typed, Busy, EmptyTable, Sound

LEMMA StepKeepsSound ==
  ASSUME Sound, [Next]_vars
  PROVE  Sound'
BY StepKeepsKnown, StepKeepsTyped, StepsAccount DEF Sound, Known

LEMMA SoundIsTyped == ASSUME Sound PROVE TypeOK
<1>1. Contract!TypeOK
  BY DEF Sound, Accounts!Accounting,
         Accounts!TypeOK, Accounts!Allocation, Accounts!IsTable,
         Accounts!Reply, Accounts!NoReply, Accounts!Outcome,
         Contract!TypeOK, Contract!Allocation, Contract!IsTable,
         Contract!Reply, Contract!NoReply, Contract!Outcome
<1>2. channel \in Seq({"submit", "reset", "shutdown"})
  <2>1. channel \in {<<>>, <<"submit">>, <<"reset">>, <<"shutdown">>}
    BY DEF Sound, Known, Mapped, Protocol, Placed
  <2>2. \A c \in {"submit", "reset", "shutdown"} :
          <<c>> \in Seq({"submit", "reset", "shutdown"})
    OBVIOUS
  <2>3. <<>> \in Seq({"submit", "reset", "shutdown"})
    OBVIOUS
  <2> QED
    BY <2>1, <2>2, <2>3
<1> QED
  BY <1>1, <1>2 DEF Sound, Known, Mapped, Protocol, Placed, Placement, Recorded,
                    LossKnown, Typed, TypeOK

(***************************************************************************)
(* Type correctness of the adapter, the channels and the render thread.    *)
(***************************************************************************)
THEOREM TypeCorrect == Spec => []TypeOK
<1>1. Sound => TypeOK
  BY SoundIsTyped
<1> QED
  BY <1>1, InitIsSound, StepKeepsSound, PTL DEF Spec

=============================================================================
