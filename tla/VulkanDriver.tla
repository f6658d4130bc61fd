---------------------------- MODULE VulkanDriver ----------------------------
(***************************************************************************)
(* The Vulkan implementation of GpuDriver, crates/gpu_abstraction/src/     *)
(* vulkan.rs: a synchronous adapter in the caller's thread and a render    *)
(* thread that owns the backend.  submit and reset_device send a command   *)
(* on an unbounded channel and block on a reply channel made for that one  *)
(* command; dropping the driver sends Shutdown and joins the thread.       *)
(*                                                                         *)
(* The backend's execute and reset may succeed, fail, lose the Vulkan      *)
(* device, never return or panic; a panic kills the render thread, which   *)
(* drops the command's reply channel first and the command channel a       *)
(* little later.                                                           *)
(* Whatever the device asked for, there is one backend.                    *)
(***************************************************************************)
EXTENDS Integers, Sequences, FiniteSets, Tables

CONSTANTS Gpu, VramTotal, Sizes, MaxAllocs

ASSUME VulkanDriverAssumption ==
  /\ VramTotal \in Nat
  /\ Sizes \subseteq Nat
  /\ MaxAllocs \in Nat

VARIABLES
  (* the adapter *)
  allocations,   \* id -> [gpu, size, address]
  issued, vramAvailable, faulted, reply,
  nextAddress,   \* device -> where its next allocation goes
  pc,            \* where the caller is
  target,        \* the device of the call it is blocked in
  (* what the two threads share *)
  channel,       \* commands sent and not received
  answer,        \* the reply channel of the last command sent
  (* the render thread *)
  worker,        \* where it is; once "stopped" its receiver is gone
  context        \* has a DeviceLost been reported since the backend's
                 \* Vulkan context was made?

adapterVars == <<allocations, issued, vramAvailable, faulted, reply, nextAddress>>
vars == <<adapterVars, pc, target, channel, answer, worker, context>>

Blocked == {"submitting", "resetting", "joining"}
Busy == {"executing", "recreating"}

WithoutAddress ==
  [a \in DOMAIN allocations |->
     [gpu |-> allocations[a].gpu, size |-> allocations[a].size]]

Contract == INSTANCE GpuDriver WITH allocations <- WithoutAddress

(* with_backend, once the backend has reported its adapters                *)
Init ==
  /\ allocations = EmptyTable
  /\ issued = 0
  /\ vramAvailable = [g \in Gpu |-> VramTotal]
  /\ faulted = [g \in Gpu |-> FALSE]
  /\ reply = <<>>
  /\ nextAddress = [g \in Gpu |-> 0]
  /\ pc = "idle"
  /\ target \in Gpu
  /\ channel = <<>>
  /\ answer = "none"
  /\ worker = "starting"
  /\ context = "ready"

-----------------------------------------------------------------------------
(* Calls that stay in the adapter.                                         *)

threads == <<pc, target, channel, answer, worker, context>>

(* Bug: addresses are computed from what is in use, as the software driver *)
(* does.                                                                   *)
AddressFromUse(g) == VramTotal - vramAvailable[g]

(* Addresses are never handed out twice.                                   *)
DeviceAddress(g) == nextAddress[g]

(* Bug: compares with the size of the pool instead of what is left of it.  *)
FitsPool(g, size) == size <= VramTotal

Fits(g, size) == size <= vramAvailable[g]

AllocateVram(g, size) ==
  /\ pc = "idle"
  /\ issued < MaxAllocs
  /\ Fits(g, size)
  /\ issued' = issued + 1
  /\ allocations' =
       Insert(allocations, issued',
              [gpu |-> g, size |-> size, address |-> DeviceAddress(g)])
  /\ nextAddress' = [nextAddress EXCEPT ![g] = @ + size]
  /\ vramAvailable' = [vramAvailable EXCEPT ![g] = @ - size]
  /\ reply' = <<>>
  /\ UNCHANGED <<faulted, threads>>

FreeVram(a) ==
  /\ pc = "idle"
  /\ a \in DOMAIN allocations
  /\ allocations' = Remove(allocations, a)
  /\ vramAvailable' =
       [vramAvailable EXCEPT ![allocations[a].gpu] = @ + allocations[a].size]
  /\ reply' = <<>>
  /\ UNCHANGED <<issued, faulted, nextAddress, threads>>

Faulty(g) == faulted' = [faulted EXCEPT ![g] = TRUE]

MarkFaulted(g) ==
  /\ pc = "idle"
  /\ Faulty(g)
  /\ reply' = <<>>
  /\ UNCHANGED <<allocations, issued, vramAvailable, nextAddress, threads>>

-----------------------------------------------------------------------------
(* Calls that go to the render thread.                                     *)

accounting == <<allocations, issued, vramAvailable, nextAddress>>

ThreadRuns == worker # "stopped"   \* a send fails once the receiver is dropped

Request(command, g) ==
  /\ pc' = IF command = "submit" THEN "submitting" ELSE "resetting"
  /\ target' = g
  /\ channel' = Append(channel, command)
  /\ answer' = "pending"
  /\ UNCHANGED <<adapterVars, worker, context>>

SubmitRejected(g) ==
  /\ pc = "idle"
  /\ faulted[g]
  /\ reply' = <<g, "rejected">>
  /\ UNCHANGED <<accounting, faulted, threads>>

SubmitSend(g) ==
  /\ pc = "idle"
  /\ ~faulted[g]
  /\ ThreadRuns
  /\ Request("submit", g)

(* The send fails: Err, and no fault is recorded.                          *)
SubmitUnsent(g) ==
  /\ pc = "idle"
  /\ ~faulted[g]
  /\ ~ThreadRuns
  /\ reply' = <<g, "failed">>
  /\ UNCHANGED <<accounting, faulted, threads>>

(* Bug: the caller gives up on an answer that has not come yet.            *)
ReturnUnanswered ==
  /\ answer # "none"
  /\ pc' = "idle"
  /\ answer' = "none"
  /\ UNCHANGED <<accounting, target, channel, worker, context>>

(* recv() on the reply channel: an answer, or its sender is gone.          *)
Return ==
  /\ answer \notin {"none", "pending"}
  /\ pc' = "idle"
  /\ answer' = "none"
  /\ UNCHANGED <<accounting, target, channel, worker, context>>

(* Bug: a lost device is reported as any other error.                      *)
RecordIfStopped(g) == IF answer = "dropped" THEN Faulty(g) ELSE UNCHANGED faulted

RecordFault(g) ==
  IF answer \in {"lost", "dropped"} THEN Faulty(g) ELSE UNCHANGED faulted

SubmitReturn ==
  /\ pc = "submitting"
  /\ Return
  /\ RecordFault(target)
  /\ reply' = <<target, CASE answer = "ok"    -> "accepted"
                          [] answer = "error" -> "failed"
                          [] OTHER            -> "lost">>

ResetSend(g) ==
  /\ pc = "idle"
  /\ ThreadRuns
  /\ Request("reset", g)

(* Bug: the fault goes whatever the render thread answered.                *)
ClearAnyway(g) == faulted' = [faulted EXCEPT ![g] = FALSE]

(* Bug: the fault is left in the table.                                    *)
ClearNever(g) == UNCHANGED faulted

(* faults.remove(device), if the render thread answered Ok.                *)
ClearFault(g) ==
  faulted' = [faulted EXCEPT ![g] = @ /\ answer # "ok"]

ResetReturn ==
  /\ pc = "resetting"
  /\ Return
  /\ ClearFault(target)
  /\ reply' = <<>>

(* Drop for VulkanDriver: send Shutdown, then join.                        *)
DropSend ==
  /\ pc = "idle"
  /\ pc' = "joining"
  /\ channel' = IF ThreadRuns THEN Append(channel, "shutdown") ELSE channel
  /\ UNCHANGED <<adapterVars, target, answer, worker, context>>

Joined ==
  /\ pc = "joining"
  /\ worker = "stopped"
  /\ pc' = "dropped"
  /\ UNCHANGED <<adapterVars, target, channel, answer, worker, context>>

-----------------------------------------------------------------------------
(* run_worker *)

WorkerIs(from, to) == worker = from /\ worker' = to /\ UNCHANGED <<adapterVars, pc, target>>

Start ==
  /\ WorkerIs("starting", "receiving")
  /\ UNCHANGED <<channel, answer, context>>

(* The thread's Tokio runtime cannot be built.                             *)
StartFails ==
  /\ WorkerIs("starting", "closing")
  /\ UNCHANGED <<channel, answer, context>>

Receive ==
  /\ channel # <<>>
  /\ WorkerIs("receiving", CASE Head(channel) = "submit" -> "executing"
                             [] Head(channel) = "reset"  -> "recreating"
                             [] OTHER                    -> "closing")
  /\ channel' = Tail(channel)
  /\ UNCHANGED <<answer, context>>

(* backend.execute returns.  Each call makes a VkDevice of its own, so one *)
(* for another device may well succeed after a loss.                       *)
Execute ==
  /\ WorkerIs("executing", "receiving")
  /\ \/ answer' \in {"ok", "error"} /\ UNCHANGED context
     \/ answer' = "lost" /\ context' = "lost"
  /\ UNCHANGED channel

(* backend.reset returns: a new context, or the old one kept.              *)
Recreate ==
  /\ WorkerIs("recreating", "receiving")
  /\ \/ answer' = "ok" /\ context' = "ready"
     \/ answer' \in {"error", "lost"} /\ UNCHANGED context
  /\ UNCHANGED channel

(* The backend panics: the reply sender is dropped as the thread unwinds.  *)
Panic ==
  /\ \E w \in Busy : WorkerIs(w, "closing")
  /\ answer' = "dropped"
  /\ UNCHANGED <<channel, context>>

(* The hardware never finishes, and nothing waits with a timeout.          *)
Hang ==
  /\ \E w \in Busy : WorkerIs(w, "hung")
  /\ UNCHANGED <<channel, answer, context>>

(* Bug: commands left in the channel keep their reply senders.             *)
CloseForgets == UNCHANGED answer

(* The receiver is dropped with the commands in it and their senders.      *)
CloseDrops == answer' = IF answer = "pending" THEN "dropped" ELSE answer

Close ==
  /\ WorkerIs("closing", "stopped")
  /\ channel' = <<>>
  /\ CloseDrops
  /\ UNCHANGED context

Worker == \/ Start \/ StartFails \/ Receive \/ Execute \/ Recreate \/ Panic
          \/ Hang \/ Close

Caller ==
  \/ \E g \in Gpu : \/ \E size \in Sizes : AllocateVram(g, size)
                    \/ MarkFaulted(g)
                    \/ SubmitRejected(g) \/ SubmitSend(g) \/ SubmitUnsent(g)
                    \/ ResetSend(g)
  \/ \E a \in 1 .. MaxAllocs : FreeVram(a)
  \/ DropSend

Unblock == SubmitReturn \/ ResetReturn \/ Joined

Next == Worker \/ Caller \/ Unblock

Spec == Init /\ [][Next]_vars

-----------------------------------------------------------------------------
TypeOK ==
  /\ Contract!TypeOK
  /\ IsTable(allocations)
  /\ \A a \in DOMAIN allocations :
       allocations[a] \in [gpu : Gpu, size : Sizes, address : Nat]
  /\ nextAddress \in [Gpu -> Nat]
  /\ pc \in {"idle", "dropped"} \cup Blocked
  /\ target \in Gpu
  /\ channel \in Seq({"submit", "reset", "shutdown"})
  /\ answer \in {"none", "pending", "ok", "error", "lost", "dropped"}
  /\ worker \in {"starting", "receiving", "closing", "stopped", "hung"} \cup Busy
  /\ context \in {"ready", "lost"}

(***************************************************************************)
(* The channel is unbounded and never holds more than one command; nothing *)
(* is queued or running on the render thread while the caller is free to   *)
(* make another call, and no thread outlives the driver: every command is  *)
(* executed while its caller waits for it.                                 *)
(***************************************************************************)
NothingRunsUnattended ==
  /\ Len(channel) <= 1
  /\ pc \in {"idle", "dropped"} => channel = <<>> /\ worker \notin Busy
  /\ pc = "dropped" => worker = "stopped"

(***************************************************************************)
(* A lost Vulkan device is never forgotten: from the moment its submission *)
(* returned until the render thread has recreated the context, some device *)
(* is recorded as faulted, so that there is something to reset             *)
(* (vulkan.rs:11-15).                                                      *)
(***************************************************************************)
LostContextIsRecorded ==
  context = "lost" /\ pc # "submitting" => \E g \in Gpu : faulted[g]

(* The bytes of its device's address space an allocation occupies.         *)
Bytes(x) == {x.gpu} \X (x.address .. x.address + x.size - 1)

(***************************************************************************)
(* Two live allocations of one device never share an address, whatever was *)
(* freed between them.                                                     *)
(***************************************************************************)
LiveAllocationsDisjoint ==
  \A a, b \in DOMAIN allocations :
    a # b => Bytes(allocations[a]) \cap Bytes(allocations[b]) = {}

(***************************************************************************)
(* Through channels, a second thread and its death, the adapter keeps the  *)
(* contract of GpuDriver: a call takes effect once, when it returns.       *)
(***************************************************************************)
ImplementsContract == Contract!Spec

(***************************************************************************)
(* A blocked call returns: submit and reset_device get an answer even from *)
(* a render thread that dies, with the command received or still in the    *)
(* channel, and dropping the driver ends; only a call of the backend that  *)
(* never returns leaves its caller blocked, for nothing has a timeout.     *)
(***************************************************************************)
BlockedCallsReturn == (pc \in Blocked) ~> (pc \notin Blocked \/ worker = "hung")

=============================================================================
