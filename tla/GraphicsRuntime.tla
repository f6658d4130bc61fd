--------------------------- MODULE GraphicsRuntime ---------------------------
(***************************************************************************)
(* GraphicsRuntime<D: GpuDriver> of crates/graphics_runtime/src/lib.rs:    *)
(* the tables of devices, resources, shaders, pipelines and timelines kept *)
(* above a driver, for any driver that keeps the contract of GpuDriver.    *)
(*                                                                         *)
(* Every operation takes &mut self, so one call is one step and the        *)
(* interleaving is that of the calls of several contexts, made with any    *)
(* handle a context was ever given, live or stale.  A call that returns    *)
(* Err without changing or logging anything is a step that is not enabled; *)
(* a call that is refused after the audit log was written is the ...Refused*)
(* action of its operation.  The presentation bridge and the cursors are   *)
(* in module Display.                                                      *)
(***************************************************************************)
EXTENDS Integers, Sequences, FiniteSets, Tables

CONSTANTS Gpu, VramTotal, MaxAllocs,   \* of the driver
          UsizeModulus, \* how many values a usize has, 2^64 in the program
          Kinds,        \* the ResourceKinds callers ask for
          UnknownGpu,   \* an id the driver's probe does not report
          CapSets,      \* the capability sets callers present
          OpSeqs,       \* the operations of the streams they submit
          AdminCalls,   \* what they do through driver_mut
          MaxDevices, MaxShaders, MaxPipelines, MaxTimelines,  \* bounds
          MaxValue      \* bound: the largest timeline value

Capability == {"GpuMemoryAlloc", "GpuCommandSubmit", "GpuAdmin"}

Usize == 0 .. UsizeModulus - 1

PixelFormat == {"Rgba8Unorm", "Bgra8Unorm", "Rgba16Float", "Depth32Float"}

(* What a buffer or an image is to be used for decides nothing.            *)
ResourceKind ==
  [type : {"Buffer"}, size : Usize]
    \cup [type : {"Image"}, width : Nat, height : Nat, depth : Nat,
          format : PixelFormat]

ASSUME GraphicsRuntimeAssumption ==
  /\ UsizeModulus \in Nat \ {0}
  /\ VramTotal \in Usize
  /\ Kinds \subseteq ResourceKind
  /\ MaxAllocs \in Nat
  /\ UnknownGpu \notin Gpu
  /\ CapSets \subseteq SUBSET Capability
  /\ AdminCalls \subseteq {"inject_fault", "clear_fault", "free_vram"}
  /\ {MaxDevices, MaxShaders, MaxPipelines, MaxTimelines, MaxValue} \subseteq Nat

VARIABLES
  (* the driver *)
  allocations, issued, vramAvailable, faulted, reply,
  (* the runtime *)
  devices,      \* id -> the GPU of a live device
  deviceCaps,   \* id -> the capabilities it was created with
  resources,    \* id -> [device, kind]; the id is that of its allocation
  shaders,      \* id -> [device]
  pipelines,    \* id -> [device, shader]
  timelines,    \* id -> current value
  count,        \* how many ids each table has handed out
  (* what is observed of a behaviour *)
  call,           \* the last call's audit event, or that it was driver_mut's
  timelineDevice  \* the device field of the Timeline handles given out

driverVars == <<allocations, issued, vramAvailable, faulted, reply>>
tables == <<devices, deviceCaps, resources, shaders, pipelines, timelines, count>>
vars == <<driverVars, tables, call, timelineDevice>>

Driver == INSTANCE GpuDriver WITH Sizes <- Usize
Stream == INSTANCE CommandStream

NoCall == [op |-> "other", actor |-> 0, granted |-> FALSE]
Logged(op, actor, granted) == call' = [op |-> op, actor |-> actor, granted |-> granted]
Unlogged == call' = NoCall

Init ==
  /\ Driver!Init
  /\ devices = EmptyTable /\ deviceCaps = EmptyTable
  /\ resources = EmptyTable /\ shaders = EmptyTable /\ pipelines = EmptyTable
  /\ timelines = EmptyTable
  /\ count = [device |-> 0, shader |-> 0, pipeline |-> 0, timeline |-> 0]
  /\ call = NoCall
  /\ timelineDevice = EmptyTable

(* ObjectId::new() for a table: an id never given before.                  *)
NewId(kind) == count[kind] + 1
Counted(kind) == count' = [count EXCEPT ![kind] = @ + 1]

-----------------------------------------------------------------------------
(* require_capability(caps, c) *)
Grants(caps, c) == c \in caps

CreateDevice(g, caps) ==
  /\ count.device < MaxDevices
  /\ Grants(caps, "GpuMemoryAlloc")
  /\ g \in Gpu
  /\ Logged("create_device", g, TRUE)
  /\ Counted("device")
  /\ devices' = Insert(devices, NewId("device"), g)
  /\ deviceCaps' = Insert(deviceCaps, NewId("device"), caps)
  /\ Driver!OtherCall
  /\ UNCHANGED <<resources, shaders, pipelines, timelines, timelineDevice>>

CreateDeviceRefused(g, caps) ==
  /\ ~Grants(caps, "GpuMemoryAlloc") \/ g \notin Gpu
  /\ Logged("create_device", g, Grants(caps, "GpuMemoryAlloc"))
  /\ Driver!OtherCall
  /\ UNCHANGED <<tables, timelineDevice>>

(* self.device(id)? *)
IsDevice(d) == d \in DOMAIN devices

CreateTimeline(d) ==
  /\ count.timeline < MaxTimelines
  /\ IsDevice(d)
  /\ Unlogged
  /\ Counted("timeline")
  /\ timelines' = Insert(timelines, NewId("timeline"), 0)
  /\ timelineDevice' = Insert(timelineDevice, NewId("timeline"), d)
  /\ Driver!OtherCall
  /\ UNCHANGED <<devices, deviceCaps, resources, shaders, pipelines>>

bytes_per_pixel(format) == IF format = "Rgba16Float" THEN 8 ELSE 4

(* Bug: the layers of an image are not counted.                            *)
ResourceSizeFlat(kind) ==
  IF kind.type = "Buffer" THEN kind.size
  ELSE (kind.width * kind.height * bytes_per_pixel(kind.format)) % UsizeModulus

(* resource_size in the release build, where a product wraps; in a debug   *)
(* build it panics, and nothing was changed yet.                           *)
ResourceSize(kind) ==
  IF kind.type = "Buffer" THEN kind.size
  ELSE (kind.width * kind.height * kind.depth * bytes_per_pixel(kind.format))
         % UsizeModulus

CreateResource(d, kind) ==
  /\ IsDevice(d)
  /\ Driver!AllocateVram(devices[d], ResourceSize(kind))
  /\ resources' = Insert(resources, issued', [device |-> d, kind |-> kind])
  /\ Unlogged
  /\ UNCHANGED <<devices, deviceCaps, shaders, pipelines, timelines, count,
                 timelineDevice>>

(* Bug: the driver's allocation goes and the resource stays in the table.  *)
FreeResourceKeepsEntry(r) ==
  /\ r \in DOMAIN resources
  /\ IF r \in DOMAIN allocations THEN Driver!FreeVram(r) ELSE Driver!OtherCall
  /\ Unlogged
  /\ UNCHANGED <<devices, deviceCaps, resources, shaders, pipelines, timelines,
                 count, timelineDevice>>

(* Bug: the entry goes and the driver is not asked.                        *)
FreeResourceEntryOnly(r) ==
  /\ r \in DOMAIN resources
  /\ resources' = Remove(resources, r)
  /\ Driver!OtherCall
  /\ Unlogged
  /\ UNCHANGED <<devices, deviceCaps, shaders, pipelines, timelines, count,
                 timelineDevice>>

(* The table entry goes first; the driver may then not know the id.        *)
FreeResource(r) ==
  /\ r \in DOMAIN resources
  /\ resources' = Remove(resources, r)
  /\ IF r \in DOMAIN allocations THEN Driver!FreeVram(r) ELSE Driver!OtherCall
  /\ Unlogged
  /\ UNCHANGED <<devices, deviceCaps, shaders, pipelines, timelines, count,
                 timelineDevice>>

CreateShaderModule(d) ==
  /\ count.shader < MaxShaders
  /\ IsDevice(d)
  /\ Unlogged
  /\ Counted("shader")
  /\ shaders' = Insert(shaders, NewId("shader"), [device |-> d])
  /\ Driver!OtherCall
  /\ UNCHANGED <<devices, deviceCaps, resources, pipelines, timelines,
                 timelineDevice>>

(* Bug: the shader is not looked up.                                       *)
CreatePipelineUnchecked(d, s) ==
  /\ count.pipeline < MaxPipelines
  /\ IsDevice(d)
  /\ Unlogged
  /\ Counted("pipeline")
  /\ pipelines' = Insert(pipelines, NewId("pipeline"), [device |-> d, shader |-> s])
  /\ Driver!OtherCall
  /\ UNCHANGED <<devices, deviceCaps, resources, shaders, timelines,
                 timelineDevice>>

CreatePipeline(d, s) ==
  /\ count.pipeline < MaxPipelines
  /\ IsDevice(d)
  /\ s \in DOMAIN shaders
  /\ Unlogged
  /\ Counted("pipeline")
  /\ pipelines' = Insert(pipelines, NewId("pipeline"), [device |-> d, shader |-> s])
  /\ Driver!OtherCall
  /\ UNCHANGED <<devices, deviceCaps, resources, shaders, timelines,
                 timelineDevice>>

-----------------------------------------------------------------------------
(* Bug: a device's own capability is enough to recover it.                 *)
MayRecoverOwn(caps) == Grants(caps, "GpuMemoryAlloc")

MayRecover(caps) == Grants(caps, "GpuAdmin")

(* Bug: recovery forgets the tables of the device's objects.               *)
AllSurvive(table, d) == table

(* Bug: recovery drops the objects of every device on the same GPU.        *)
SurvivorsElsewhere(table, d) ==
  Restrict(table, {x \in DOMAIN table : devices[table[x].device] # devices[d]})

(* retain(|_, x| &x.device != device) *)
Survivors(table, d) ==
  Restrict(table, {x \in DOMAIN table : table[x].device # d})

(* The device and its objects go; their allocations stay with the driver,  *)
(* and the timelines stay as they are.  Nothing asks for a fault.          *)
RecoverDevice(d, caps) ==
  /\ MayRecover(caps)
  /\ IsDevice(d)
  /\ Driver!ResetDevice(devices[d])
  /\ Logged("recover_device", d, Grants(caps, "GpuAdmin"))
  /\ devices' = Remove(devices, d)
  /\ deviceCaps' = Remove(deviceCaps, d)
  /\ resources' = Survivors(resources, d)
  /\ shaders' = Survivors(shaders, d)
  /\ pipelines' = Survivors(pipelines, d)
  /\ UNCHANGED <<timelines, count, timelineDevice>>

(* Not authorized, no such device, or the driver could not reset the GPU.  *)
RecoverDeviceRefused(d, caps) ==
  /\ Logged("recover_device", d, Grants(caps, "GpuAdmin"))
  /\ Driver!OtherCall
  /\ UNCHANGED <<tables, timelineDevice>>

-----------------------------------------------------------------------------
(* The timeline exists, and the value is beyond the one it is at.          *)
Beyond(t, value) == t \in DOMAIN timelines /\ value > timelines[t]

(* What submit checks once the device's capabilities were looked up.  The  *)
(* device of the timeline and that of the queue are not among it.          *)
Submittable(d, ops, t, value) ==
  /\ Grants(deviceCaps[d], "GpuCommandSubmit")
  /\ IsDevice(d)
  /\ Beyond(t, value)
  /\ Stream!ValidateStream(ops, d, pipelines, resources)

(* Bug: the value written is the one read before the driver was asked.     *)
SubmitExecutedUnsignaled(d, ops, t, value) ==
  /\ d \in DOMAIN deviceCaps
  /\ Submittable(d, ops, t, value)
  /\ Logged("submit", d, TRUE)
  /\ Driver!Accept(devices[d])
  /\ UNCHANGED <<tables, timelineDevice>>

(* submit_to_driver: Ok from the driver, and only then the new value.      *)
SubmitExecuted(d, ops, t, value) ==
  /\ d \in DOMAIN deviceCaps
  /\ Submittable(d, ops, t, value)
  /\ Logged("submit", d, TRUE)
  /\ Driver!Accept(devices[d])
  /\ timelines' = Insert(timelines, t, value)
  /\ UNCHANGED <<devices, deviceCaps, resources, shaders, pipelines, count,
                 timelineDevice>>

(* Bug: the timeline is moved before the driver is asked.                  *)
SubmitFailedSignaled(d, ops, t, value) ==
  /\ d \in DOMAIN deviceCaps
  /\ Submittable(d, ops, t, value)
  /\ Logged("submit", d, TRUE)
  /\ Driver!Reject(devices[d]) \/ Driver!Fail(devices[d])
  /\ timelines' = Insert(timelines, t, value)
  /\ UNCHANGED <<devices, deviceCaps, resources, shaders, pipelines, count,
                 timelineDevice>>

(* submit_to_driver: Err from the driver, or a panic in it, which is       *)
(* caught and recorded as a fault.                                         *)
SubmitFailed(d, ops, t, value) ==
  /\ d \in DOMAIN deviceCaps
  /\ Submittable(d, ops, t, value)
  /\ Logged("submit", d, TRUE)
  /\ \/ Driver!Reject(devices[d]) \/ Driver!Fail(devices[d])
     \/ Driver!Lose(devices[d]) \/ Driver!MarkFaulted(devices[d])
  /\ UNCHANGED <<tables, timelineDevice>>

SubmitRefused(d, ops, t, value) ==
  /\ d \in DOMAIN deviceCaps
  /\ ~Submittable(d, ops, t, value)
  /\ Logged("submit", d, Grants(deviceCaps[d], "GpuCommandSubmit"))
  /\ Driver!OtherCall
  /\ UNCHANGED <<tables, timelineDevice>>

-----------------------------------------------------------------------------
(* driver_mut, which needs GpuAdmin and is not logged: the driver's hooks. *)
Admin(kind, g) ==
  /\ kind \in AdminCalls
  /\ \E caps \in CapSets : Grants(caps, "GpuAdmin")
  /\ call' = [op |-> "driver_mut", actor |-> g, granted |-> TRUE]
  /\ UNCHANGED <<tables, timelineDevice>>

AdminFault(g) == Admin("inject_fault", g) /\ Driver!MarkFaulted(g)
AdminClear(g) == Admin("clear_fault", g) /\ Driver!ResetDevice(g)
AdminFree(a)  == a \in DOMAIN allocations
                   /\ Admin("free_vram", allocations[a].gpu)
                   /\ Driver!FreeVram(a)

Device == 1 .. MaxDevices

DeviceCalls ==
  \E d \in Device :
    \/ CreateTimeline(d) \/ CreateShaderModule(d)
    \/ \E kind \in Kinds : CreateResource(d, kind)
    \/ \E s \in 1 .. MaxShaders : CreatePipeline(d, s)
    \/ \E caps \in CapSets : RecoverDevice(d, caps) \/ RecoverDeviceRefused(d, caps)
    \/ \E ops \in OpSeqs, t \in 1 .. MaxTimelines, value \in 0 .. MaxValue :
         \/ SubmitExecuted(d, ops, t, value)
         \/ SubmitFailed(d, ops, t, value)
         \/ SubmitRefused(d, ops, t, value)

Next ==
  \/ \E g \in Gpu \cup {UnknownGpu}, caps \in CapSets :
       CreateDevice(g, caps) \/ CreateDeviceRefused(g, caps)
  \/ DeviceCalls
  \/ \E r \in 1 .. MaxAllocs : FreeResource(r) \/ AdminFree(r)
  \/ \E g \in Gpu : AdminFault(g) \/ AdminClear(g)

Spec == Init /\ [][Next]_vars

-----------------------------------------------------------------------------
TypeOK ==
  /\ Driver!TypeOK
  /\ count \in [device : Nat, shader : Nat, pipeline : Nat, timeline : Nat]
  /\ DOMAIN devices \subseteq 1 .. count.device
  /\ \A d \in DOMAIN devices : devices[d] \in Gpu
  /\ DOMAIN deviceCaps = DOMAIN devices
  /\ \A d \in DOMAIN deviceCaps : deviceCaps[d] \in CapSets
  /\ DOMAIN resources \subseteq 1 .. issued
  /\ \A r \in DOMAIN resources : 
       resources[r] \in [device : 1 .. count.device, kind : Kinds]
  /\ DOMAIN shaders \subseteq 1 .. count.shader
  /\ \A s \in DOMAIN shaders : shaders[s] \in [device : 1 .. count.device]
  /\ DOMAIN pipelines \subseteq 1 .. count.pipeline
  /\ \A p \in DOMAIN pipelines :
       pipelines[p] \in [device : 1 .. count.device, shader : 1 .. count.shader]
  /\ DOMAIN timelines = 1 .. count.timeline
  /\ \A t \in DOMAIN timelines : timelines[t] \in 0 .. MaxValue
  /\ DOMAIN timelineDevice = DOMAIN timelines
  /\ \A t \in DOMAIN timelineDevice : timelineDevice[t] \in 1 .. count.device
  /\ call \in [op : {"other", "create_device", "submit", "recover_device", "driver_mut"},
                actor : Nat \cup Gpu \cup {UnknownGpu}, granted : BOOLEAN]

(***************************************************************************)
(* No object outlives its device: whatever is recovered, in whatever order *)
(* devices and objects were made, every resource, shader and pipeline in   *)
(* the tables belongs to a device that still answers                       *)
(* (graphics_runtime lib.rs:350-353).                                      *)
(***************************************************************************)
ObjectsHaveDevices ==
  /\ \A r \in DOMAIN resources : IsDevice(resources[r].device)
  /\ \A s \in DOMAIN shaders : IsDevice(shaders[s].device)
  /\ \A p \in DOMAIN pipelines : IsDevice(pipelines[p].device)

(***************************************************************************)
(* A resource handle that still resolves is backed by memory, on the GPU   *)
(* of the device it was created on (graphics_api lib.rs:14-16), unless the *)
(* administrator frees VRAM behind the runtime.                            *)
(***************************************************************************)
ResourcesBacked ==
  \A r \in DOMAIN resources :
    /\ r \in DOMAIN allocations
    /\ allocations[r].gpu = devices[resources[r].device]

(***************************************************************************)
(* A resource has exactly the bytes its kind counts out, pixel by pixel    *)
(* and layer by layer, except an image of more bytes than a usize can      *)
(* count: that one is backed by fewer (graphics_runtime lib.rs:38-48).     *)
(***************************************************************************)
Pixels(kind) == (1 .. kind.width) \X (1 .. kind.height) \X (1 .. kind.depth)
BytesNeeded(kind) ==
  IF kind.type = "Buffer" THEN kind.size
  ELSE Cardinality(Pixels(kind)) * bytes_per_pixel(kind.format)

ResourcesHaveTheirBytes ==
  \A r \in DOMAIN resources \cap DOMAIN allocations :
    LET needed == BytesNeeded(resources[r].kind)
    IN  IF needed \in Usize THEN allocations[r].size = needed
        ELSE allocations[r].size < needed

MovedByExecution ==
  \A t \in DOMAIN timelines : timelines'[t] # timelines[t] =>
    /\ timelines'[t] > timelines[t]
    /\ call'.op = "submit" /\ call'.granted
    /\ call'.actor \in DOMAIN devices
    /\ "GpuCommandSubmit" \in deviceCaps[call'.actor]
    /\ reply' = <<devices[call'.actor], "accepted">>
    /\ ~faulted[devices[call'.actor]]

(***************************************************************************)
(* A timeline moves forward only, and only because the driver executed a   *)
(* submission, logged as granted, of a live device that holds              *)
(* GpuCommandSubmit and whose GPU was not faulted; no error path, panic or *)
(* recovery moves it.                                                      *)
(***************************************************************************)
TimelinesMoveByExecution == [][MovedByExecution]_vars

SignalledOnce ==
  \A g \in Gpu : reply' = <<g, "accepted">> =>
    \E t \in DOMAIN timelines :
      /\ timelines'[t] > timelines[t]
      /\ \A u \in DOMAIN timelines \ {t} : timelines'[u] = timelines[u]

(***************************************************************************)
(* And conversely: nothing is executed in silence.  Whenever the driver    *)
(* accepts a submission, exactly one timeline moves in the same call, so   *)
(* that who waits for it sees it (graphics_runtime lib.rs:625-627).        *)
(***************************************************************************)
ExecutionsAreSignalled == [][SignalledOnce]_vars

GoneTogether ==
  /\ \A r \in DOMAIN resources \ DOMAIN resources' :
       \/ r \notin DOMAIN allocations'
       \/ call' = [op |-> "recover_device", actor |-> resources[r].device,
                   granted |-> TRUE]
  /\ \A r \in DOMAIN allocations \ DOMAIN allocations' :
       r \in DOMAIN resources' => call'.op = "driver_mut"

(***************************************************************************)
(* The runtime's table and the driver's lose an id in the same call.  When *)
(* a handle goes its memory goes with it, or had gone before (free_resource*)
(* then answers Err, and the handle is gone all the same); only recovery   *)
(* leaves memory behind.  And only a hook of driver_mut takes memory from  *)
(* under a handle that still resolves                                      *)
(* (graphics_runtime lib.rs:248-253, 378).                                 *)
(***************************************************************************)
HandlesGoWithMemory == [][GoneTogether]_vars

OnlyOneIsTaken ==
  \A d \in DOMAIN devices \ DOMAIN devices' :
    /\ call' = [op |-> "recover_device", actor |-> d, granted |-> TRUE]
    /\ DOMAIN devices' = DOMAIN devices \ {d}
    /\ \A r \in DOMAIN resources :
         r \in DOMAIN resources' <=> resources[r].device # d
    /\ \A s \in DOMAIN shaders :
         s \in DOMAIN shaders' <=> shaders[s].device # d
    /\ \A p \in DOMAIN pipelines :
         p \in DOMAIN pipelines' <=> pipelines[p].device # d

(***************************************************************************)
(* A device leaves the table only by a granted, logged recovery of that    *)
(* very device, and the recovery takes nothing of any other device with    *)
(* it, not even of one on the same GPU (graphics_runtime lib.rs:345-353).  *)
(***************************************************************************)
RecoveryIsolates == [][OnlyOneIsTaken]_vars

FaultCaused ==
  \A g \in Gpu : faulted'[g] # faulted[g] =>
    \/ call' = [op |-> "driver_mut", actor |-> g, granted |-> TRUE]
    \/ /\ call'.granted
       /\ call'.op = IF faulted'[g] THEN "submit" ELSE "recover_device"
       /\ call'.actor \in DOMAIN devices /\ devices[call'.actor] = g

(***************************************************************************)
(* A GPU's fault appears only in a step in which a device on that GPU      *)
(* submitted, and goes only in a recovery, granted under GpuAdmin, of a    *)
(* device on that GPU; the hooks behind driver_mut do either, for the GPU  *)
(* they name                                                               *)
(* (gpu_abstraction lib.rs:130-132, graphics_runtime lib.rs:355-361).      *)
(***************************************************************************)
FaultsHaveCause == [][FaultCaused]_vars

=============================================================================
