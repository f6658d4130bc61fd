--------------------------- MODULE FallbackDriver ---------------------------
(***************************************************************************)
(* FallbackDriver of crates/gpu_abstraction/src/vulkan.rs over the real    *)
(* backend: open tries the Vulkan driver step by step and keeps the        *)
(* software driver instead, with the error, when a step fails; from then   *)
(* on every call goes to the driver that was kept.  Added to the two       *)
(* drivers is what only the real backend has, VulkanContext of             *)
(* crates/vulkan_backend/src/lib.rs: the VkInstance, made by probe when    *)
(* the driver is opened and again, in the render thread, by each reset,    *)
(* and destroyed when a context is dropped.                                *)
(***************************************************************************)
EXTENDS VulkanDriver

CONSTANT SoftwareGpu   \* the one device of the software driver

ASSUME FallbackDriverAssumption == SoftwareGpu \notin Gpu

VARIABLES
  stage,      \* where open is, then the variant it returned
  reason,     \* the error kept with the software driver
  probe,      \* the Vulkan call VulkanContext::probe makes next, if it runs
  instances,  \* how many VkInstances are alive
  (* the software driver *)
  swAllocations, swIssued, swVramAvailable, swFaulted, swReply, initialized

opening == <<stage, reason>>
contextVars == <<probe, instances>>
softwareVars ==
  <<swAllocations, swIssued, swVramAvailable, swFaulted, swReply, initialized>>
allVars == <<vars, opening, contextVars, softwareVars>>

Software == INSTANCE SoftwareGpuDriver
  WITH Gpu <- {SoftwareGpu}, allocations <- swAllocations, issued <- swIssued,
       vramAvailable <- swVramAvailable, faulted <- swFaulted, reply <- swReply

FallbackInit ==
  /\ Init
  /\ Software!Init
  /\ stage = "probing" /\ reason = "none"
  /\ probe = "load" /\ instances = 0

-----------------------------------------------------------------------------
(* What becomes of an error on its way up.                                 *)

VkResult == {"DEVICE_LOST", "OTHER"}   \* the failures of a Vulkan call

(* From<vk::Result> for VulkanError *)
FromResult(result) == IF result = "DEVICE_LOST" THEN "DeviceLost" ELSE "Vulkan"

map_vulkan_error(error) ==
  CASE error = "DeviceLost" -> "DeviceLost"
    [] error \in {"LoaderUnavailable", "NoSuitableDevice"} -> "Unavailable"
    [] error \in {"Vulkan", "InvalidDimensions"} -> "Execution"

(* What the render thread sends back for it.                               *)
AnswerTo(error) ==
  IF map_vulkan_error(error) = "DeviceLost" THEN "lost" ELSE "error"

-----------------------------------------------------------------------------
(* VulkanContext::probe: three calls, each of which may fail; the last one *)
(* makes the instance.                                                     *)
ProbeCalls == {"load", "extensions", "instance"}

ProbeGoesOn ==
  /\ \/ probe = "load" /\ probe' = "extensions"
     \/ probe = "extensions" /\ probe' = "instance"
  /\ UNCHANGED instances

(* create_instance, and probe returns Ok.                                  *)
ProbeSucceeds ==
  /\ probe = "instance"
  /\ probe' = "none"
  /\ instances' = instances + 1

ProbeError ==
  IF probe = "load" THEN {"LoaderUnavailable"} ELSE {FromResult("OTHER")}

(* Drop for VulkanContext *)
DropContext == instances' = instances - 1

-----------------------------------------------------------------------------
(* FallbackDriver::open: VulkanDriver::new, then from_vulkan_result.       *)

(* The error ends VulkanDriver::new and the software driver is kept.       *)
FallBack(error) == stage' = "software" /\ reason' = error

OpenProbe ==
  /\ stage = "probing"
  /\ \/ ProbeGoesOn /\ UNCHANGED stage
     \/ ProbeSucceeds /\ stage' = "enumerating"
  /\ UNCHANGED <<reason, vars, softwareVars>>

(* Bug: a machine without Vulkan is probed again.                          *)
OpenProbeRetries ==
  /\ stage = "probing"
  /\ probe \in ProbeCalls
  /\ probe' = "load"
  /\ UNCHANGED <<opening, instances, vars, softwareVars>>

OpenProbeFails ==
  /\ stage = "probing"
  /\ \E error \in ProbeError : FallBack(map_vulkan_error(error))
  /\ probe' = "none"
  /\ UNCHANGED <<instances, vars, softwareVars>>

(* with_backend: the adapters are listed, then the thread is spawned.      *)
OpenEnumerate ==
  /\ stage = "enumerating"
  /\ stage' = "spawning"
  /\ UNCHANGED <<reason, contextVars, vars, softwareVars>>

(* The list cannot be had, or has nothing in it.                           *)
OpenEnumerateFails ==
  /\ stage = "enumerating"
  /\ \/ FallBack(map_vulkan_error(FromResult("OTHER")))
     \/ FallBack("NoPhysicalDevices")
  /\ DropContext
  /\ UNCHANGED <<probe, vars, softwareVars>>

OpenSpawn ==
  /\ stage = "spawning"
  /\ stage' = "vulkan"
  /\ UNCHANGED <<reason, contextVars, vars, softwareVars>>

(* The closure that could not be run is dropped with the backend in it.    *)
OpenSpawnFails ==
  /\ stage = "spawning"
  /\ FallBack("NoThread")
  /\ DropContext
  /\ UNCHANGED <<probe, vars, softwareVars>>

Open == \/ OpenProbe \/ OpenProbeFails \/ OpenEnumerate \/ OpenEnumerateFails
        \/ OpenSpawn \/ OpenSpawnFails

-----------------------------------------------------------------------------
(* The Vulkan variant: VulkanDriver, its render thread over the real       *)
(* backend.                                                                *)

InVulkan == stage = "vulkan" /\ UNCHANGED <<opening, softwareVars>>

BackendReceives ==
  /\ InVulkan
  /\ Receive
  /\ probe' = IF worker' = "recreating" THEN "load" ELSE "none"
  /\ UNCHANGED instances

(* render_clear_to_offscreen, which makes and drops a VkDevice of its own. *)
BackendExecutes ==
  /\ InVulkan
  /\ Execute
  /\ \/ answer' = "ok"
     \/ \E result \in VkResult : answer' = AnswerTo(FromResult(result))
     \/ answer' = AnswerTo("NoSuitableDevice")
  /\ UNCHANGED contextVars

(* Bug: the old context is dropped before there is a new one.              *)
ProbeReplacingFirst ==
  /\ InVulkan
  /\ worker = "recreating"
  /\ \/ probe = "load" /\ probe' = "extensions" /\ DropContext
     \/ probe = "extensions" /\ probe' = "instance" /\ UNCHANGED instances
  /\ UNCHANGED vars

(* reset: self.context = probe()?                                          *)
BackendProbes ==
  /\ InVulkan
  /\ worker = "recreating"
  /\ ProbeGoesOn
  /\ UNCHANGED vars

(* There is a new instance beside the old one.                             *)
BackendProbed ==
  /\ InVulkan
  /\ worker = "recreating"
  /\ ProbeSucceeds
  /\ UNCHANGED vars

(* The new context takes the place of the old one, which is dropped.       *)
BackendReplaces ==
  /\ InVulkan
  /\ worker = "recreating" /\ probe = "none"
  /\ Recreate
  /\ answer' = "ok"
  /\ DropContext
  /\ UNCHANGED probe

(* Bug: the error of probe is dropped and Ok is sent back.                 *)
ResetIgnoresError ==
  /\ InVulkan
  /\ probe \in ProbeCalls
  /\ WorkerIs("recreating", "receiving")
  /\ answer' = "ok"
  /\ probe' = "none"
  /\ UNCHANGED <<channel, context, instances>>

BackendResetFails ==
  /\ InVulkan
  /\ probe \in ProbeCalls
  /\ Recreate
  /\ \E error \in ProbeError : answer' = AnswerTo(error)
  /\ probe' = "none"
  /\ UNCHANGED instances

(* A panic or a call that never returns, in execute or in probe.           *)
BackendPanics ==
  /\ InVulkan
  /\ worker = "recreating" => probe # "none"
  /\ Panic
  /\ probe' = "none"
  /\ UNCHANGED instances

BackendHangs == InVulkan /\ Hang /\ UNCHANGED contextVars

(* The thread ends, and its backend is dropped with it.                    *)
ThreadEnds == InVulkan /\ Close /\ DropContext /\ UNCHANGED probe

ThreadStarts == InVulkan /\ (Start \/ StartFails) /\ UNCHANGED contextVars

RenderThread ==
  \/ ThreadStarts \/ BackendReceives \/ BackendExecutes
  \/ BackendProbes \/ BackendProbed \/ BackendReplaces \/ BackendResetFails
  \/ BackendPanics \/ BackendHangs \/ ThreadEnds

CallVulkan == InVulkan /\ Caller /\ UNCHANGED contextVars

VulkanReturns == InVulkan /\ Unblock /\ UNCHANGED contextVars

(* The software variant.                                                   *)
CallSoftware ==
  /\ stage = "software"
  /\ Software!Next
  /\ UNCHANGED <<opening, contextVars, vars>>

FallbackNext ==
  Open \/ RenderThread \/ CallVulkan \/ VulkanReturns \/ CallSoftware

FallbackSpec == FallbackInit /\ [][FallbackNext]_allVars

(* The thread that opens the driver and the render thread are scheduled,   *)
(* and a caller whose answer has come returns.  No call is ever forced.    *)
FallbackFairSpec ==
  /\ FallbackSpec
  /\ WF_allVars(Open) /\ WF_allVars(RenderThread) /\ WF_allVars(VulkanReturns)

-----------------------------------------------------------------------------
FallbackTypeOK ==
  /\ TypeOK
  /\ Software!TypeOK
  /\ stage \in {"probing", "enumerating", "spawning", "vulkan", "software"}
  /\ reason \in {"none", "Unavailable", "Execution", "NoPhysicalDevices", "NoThread"}
  /\ probe \in ProbeCalls \cup {"none"}
  /\ instances \in 0 .. 2

(***************************************************************************)
(* VkInstances follow the driver that owns them: one that fell back, at    *)
(* whatever step, and one that was dropped, however its render thread      *)
(* ended, leave none behind; a render thread that can still be given a     *)
(* command has exactly one, after a failed reset too; and only a reset     *)
(* ever has a second (vulkan.rs:129-132, vulkan_backend lib.rs:731-743).   *)
(***************************************************************************)
InstancesFollowDriver ==
  /\ stage = "software" \/ worker = "stopped" => instances = 0
  /\ stage = "vulkan" /\ worker \in {"starting", "receiving", "executing"}
       => instances = 1
  /\ instances = 2 => worker \in {"recreating", "hung"}

ThreadIsDead == worker \in {"closing", "stopped"}

(***************************************************************************)
(* After its render thread died the Vulkan driver does not come back: no   *)
(* submission is accepted and no fault is cleared, and the software driver *)
(* does not take over (vulkan.rs:445-446).                                 *)
(***************************************************************************)
DeadThreadServesNothing ==
  [][ThreadIsDead =>
       /\ \A g \in Gpu : /\ faulted[g] => faulted'[g]
                         /\ reply' = <<g, "accepted">> => reply' = reply
       /\ stage' = stage]_allVars

(***************************************************************************)
(* open returns: whatever fails on the way to the Vulkan driver, the       *)
(* caller is given one of the two (vulkan.rs:485-502).                     *)
(***************************************************************************)
OpenReturns == stage \in {"probing", "enumerating", "spawning"} ~>
                 stage \in {"vulkan", "software"}

(***************************************************************************)
(* Over the real backend the adapter and its render thread do only what    *)
(* VulkanDriver lets them do over any backend, with a reset that is many   *)
(* steps and may fail at each: what is proved of VulkanDriver holds here.  *)
(***************************************************************************)
ImplementsVulkanDriver == Spec

(* The driver the caller sees: the devices of both, the tables of the one  *)
(* it has.                                                                 *)
IsSoftware == stage = "software"
Both(vulkan, software) ==
  [g \in Gpu \cup {SoftwareGpu} |->
     IF g = SoftwareGpu THEN software[g] ELSE vulkan[g]]

Seen == INSTANCE GpuDriver
  WITH Gpu <- Gpu \cup {SoftwareGpu},
       allocations <- IF IsSoftware THEN Software!WithoutAddress ELSE WithoutAddress,
       issued <- IF IsSoftware THEN swIssued ELSE issued,
       vramAvailable <- Both(vramAvailable, swVramAvailable),
       faulted <- Both(faulted, swFaulted),
       reply <- IF IsSoftware THEN swReply ELSE reply

(***************************************************************************)
(* Whichever driver open kept, its caller is given the contract of         *)
(* GpuDriver, from before the choice until after the driver is dropped     *)
(* (graphics_runtime lib.rs:467-470).                                      *)
(***************************************************************************)
FallbackImplementsContract == Seen!Spec

=============================================================================
