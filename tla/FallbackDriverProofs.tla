------------------------ MODULE FallbackDriverProofs ------------------------
(***************************************************************************)
(* What holds of FallbackDriver whichever driver it opened, for every set  *)
(* of devices, any pool and any number of calls and resets: the Vulkan     *)
(* variant does only what VulkanDriver does, so that everything proved of  *)
(* that holds here; the VkInstances are accounted for; and the caller is   *)
(* given the contract either way.                                          *)
(***************************************************************************)
EXTENDS FallbackDriver, VulkanDriverProofs

-----------------------------------------------------------------------------
(***************************************************************************)
(* Every step is one of VulkanDriver or leaves its variables alone.        *)
(***************************************************************************)
LEMMA StepIsVulkan ==
  ASSUME [FallbackNext]_allVars
  PROVE  [Next]_vars
<1>1. CASE Open
  BY <1>1 DEF Open, OpenProbe, OpenProbeFails, OpenEnumerate,
              OpenEnumerateFails, OpenSpawn, OpenSpawnFails
<1>2. CASE RenderThread
  BY <1>2 DEF RenderThread, ThreadStarts, BackendReceives, BackendExecutes,
              BackendProbes, BackendProbed, BackendReplaces, BackendResetFails,
              BackendPanics, BackendHangs, ThreadEnds, Next, Worker
<1>3. CASE CallVulkan \/ VulkanReturns
  BY <1>3 DEF CallVulkan, VulkanReturns, Next
<1>4. CASE CallSoftware
  BY <1>4 DEF CallSoftware
<1>5. CASE UNCHANGED allVars
  BY <1>5 DEF allVars
<1> QED
  BY <1>1, <1>2, <1>3, <1>4, <1>5 DEF FallbackNext

(***************************************************************************)
(* Over the real backend, with its probes and resets of many steps, the    *)
(* adapter and its thread do only what VulkanDriver lets them do.          *)
(***************************************************************************)
THEOREM BackendRefinesVulkanDriver == FallbackSpec => ImplementsVulkanDriver
<1>1. FallbackInit => Init
  BY DEF FallbackInit
<1>2. [FallbackNext]_allVars => [Next]_vars
  BY StepIsVulkan
<1> QED
  BY <1>1, <1>2, PTL DEF FallbackSpec, ImplementsVulkanDriver, Spec

LEMMA SoundHolds == FallbackSpec => []Sound
<1>1. FallbackInit => Sound
  BY InitIsSound DEF FallbackInit
<1>2. Sound /\ [FallbackNext]_allVars => Sound'
  BY StepIsVulkan, StepKeepsSound
<1> QED
  BY <1>1, <1>2, PTL DEF FallbackSpec

-----------------------------------------------------------------------------
(***************************************************************************)
(* Until open has chosen, and for the driver it did not choose, nothing    *)
(* has happened.                                                           *)
(***************************************************************************)
Stage == {"probing", "enumerating", "spawning", "vulkan", "software"}

Unchosen ==
  /\ stage \in Stage
  /\ stage # "vulkan" => Init
  /\ stage # "software" => Software!Init

LEMMA OpenLeavesDrivers ==
  ASSUME Open
  PROVE  /\ UNCHANGED <<vars, softwareVars>>
         /\ stage \in {"probing", "enumerating", "spawning"}
         /\ stage' \in Stage
BY DEF Open, OpenProbe, OpenProbeFails, OpenEnumerate, OpenEnumerateFails,
       OpenSpawn, OpenSpawnFails, FallBack, Stage

(* Everything the Vulkan variant does is done in its stage.                *)
LEMMA VulkanStaysInStage ==
  ASSUME RenderThread \/ CallVulkan \/ VulkanReturns
  PROVE  InVulkan
BY DEF RenderThread, ThreadStarts, BackendReceives, BackendExecutes,
       BackendProbes, BackendProbed, BackendReplaces, BackendResetFails,
       BackendPanics, BackendHangs, ThreadEnds, CallVulkan, VulkanReturns

LEMMA StepKeepsUnchosen ==
  ASSUME Unchosen, [FallbackNext]_allVars
  PROVE  Unchosen'
<1>1. ASSUME UNCHANGED vars
      PROVE  Init => Init'
  BY <1>1 DEF vars, adapterVars, Init
<1>2. ASSUME UNCHANGED softwareVars
      PROVE  Software!Init => Software!Init'
  BY <1>2 DEF softwareVars, Software!Init, Software!EmptyTable
<1>3. CASE Open
  BY <1>1, <1>2, <1>3, OpenLeavesDrivers DEF Unchosen, Stage
<1>4. CASE RenderThread \/ CallVulkan \/ VulkanReturns
  BY <1>2, <1>4, VulkanStaysInStage DEF Unchosen, InVulkan, opening
<1>5. CASE CallSoftware
  BY <1>1, <1>5 DEF Unchosen, CallSoftware, opening
<1>6. CASE UNCHANGED allVars
  BY <1>1, <1>2, <1>6 DEF Unchosen, allVars, opening
<1> QED
  BY <1>3, <1>4, <1>5, <1>6 DEF FallbackNext

-----------------------------------------------------------------------------
(***************************************************************************)
(* Which VkInstances there are at each place of the two threads.  A probe  *)
(* that runs has made none yet; one that is over in the middle of a reset  *)
(* has made the second.                                                    *)
(***************************************************************************)
Opening ==
  /\ stage = "probing" => instances = 0 /\ probe \in ProbeCalls
  /\ stage \in {"enumerating", "spawning"} => instances = 1 /\ probe = "none"
  /\ stage = "software" => instances = 0 /\ probe = "none"

Rendering ==
  stage = "vulkan" =>
    /\ worker \in {"starting", "receiving", "executing", "closing"}
         => instances = 1 /\ probe = "none"
    /\ worker = "recreating"
         => \/ instances = 1 /\ probe \in ProbeCalls
            \/ instances = 2 /\ probe = "none"
    /\ worker = "hung" => instances \in {1, 2} /\ probe \in ProbeCalls \cup {"none"}
    /\ worker = "stopped" => instances = 0 /\ probe = "none"

Instances == Opening /\ Rendering

LEMMA OpenKeepsInstances ==
  ASSUME Unchosen, Instances, Open
  PROVE  Instances'
<1> USE DEF Instances, Opening, Rendering, ProbeCalls
<1>1. stage # "vulkan" /\ worker = "starting" /\ UNCHANGED worker
  BY OpenLeavesDrivers DEF Unchosen, Init, vars
<1>2. CASE OpenProbe
  BY <1>1, <1>2 DEF OpenProbe, ProbeGoesOn, ProbeSucceeds
<1>3. CASE OpenProbeFails
  BY <1>1, <1>3 DEF OpenProbeFails, FallBack
<1>4. CASE OpenEnumerate \/ OpenSpawn
  BY <1>1, <1>4 DEF OpenEnumerate, OpenSpawn, contextVars
<1>5. CASE OpenEnumerateFails \/ OpenSpawnFails
  BY <1>1, <1>5 DEF OpenEnumerateFails, OpenSpawnFails, FallBack, DropContext
<1> QED
  BY <1>2, <1>3, <1>4, <1>5 DEF Open

LEMMA RenderKeepsInstances ==
  ASSUME Sound, Instances, RenderThread
  PROVE  Instances'
<1> USE DEF Instances, Opening, Rendering, ProbeCalls, InVulkan, opening, WorkerIs
<1>1. CASE ThreadStarts
  BY <1>1 DEF ThreadStarts, Start, StartFails, contextVars
<1>2. CASE BackendReceives
  BY <1>2 DEF BackendReceives, Receive
<1>3. CASE BackendExecutes
  BY <1>3 DEF BackendExecutes, Execute, contextVars
<1>4. CASE BackendProbes
  BY <1>4 DEF BackendProbes, ProbeGoesOn, vars
<1>5. CASE BackendProbed
  BY <1>5 DEF BackendProbed, ProbeSucceeds, vars
<1>6. CASE BackendReplaces
  BY <1>6 DEF BackendReplaces, Recreate, DropContext
<1>7. CASE BackendResetFails
  BY <1>7 DEF BackendResetFails, Recreate
<1>8. CASE BackendPanics
  BY <1>8 DEF BackendPanics, Panic, Busy
<1>9. CASE BackendHangs
  BY <1>9 DEF BackendHangs, Hang, Busy, contextVars
<1>10. CASE ThreadEnds
  BY <1>10 DEF ThreadEnds, Close, DropContext
<1> QED
  BY <1>1, <1>2, <1>3, <1>4, <1>5, <1>6, <1>7, <1>8, <1>9, <1>10
     DEF RenderThread

LEMMA StepKeepsInstances ==
  ASSUME Sound, Unchosen, Instances, [FallbackNext]_allVars
  PROVE  Instances'
<1>1. CASE Open
  BY <1>1, OpenKeepsInstances
<1>2. CASE RenderThread
  BY <1>2, RenderKeepsInstances
<1>3. ASSUME UNCHANGED <<stage, worker, contextVars>>
      PROVE  Instances'
  BY <1>3 DEF Instances, Opening, Rendering, contextVars
<1>4. CASE CallVulkan
  <2>1. UNCHANGED worker
    BY <1>4 DEF CallVulkan, Caller, AllocateVram, FreeVram, MarkFaulted,
       SubmitRejected, SubmitSend, SubmitUnsent, ResetSend, DropSend, Request,
       threads
  <2> QED
    BY <1>3, <1>4, <2>1 DEF CallVulkan, InVulkan, opening
<1>5. CASE VulkanReturns
  <2>1. UNCHANGED worker
    BY <1>5 DEF VulkanReturns, Unblock, SubmitReturn, ResetReturn, Return, Joined
  <2> QED
    BY <1>3, <1>5, <2>1 DEF VulkanReturns, InVulkan, opening
<1>6. CASE CallSoftware \/ UNCHANGED allVars
  BY <1>3, <1>6 DEF CallSoftware, allVars, vars, opening
<1> QED
  BY <1>1, <1>2, <1>4, <1>5, <1>6 DEF FallbackNext

Opened == Sound /\ Unchosen /\ Instances

LEMMA OpenedHolds == FallbackSpec => []Opened
<1>1. FallbackInit => Opened
  BY InitIsSound
     DEF FallbackInit, Opened, Unchosen, Stage, Instances, Opening, Rendering,
         ProbeCalls
<1>2. Opened /\ [FallbackNext]_allVars => Opened'
  BY StepIsVulkan, StepKeepsSound, StepKeepsUnchosen, StepKeepsInstances
     DEF Opened
<1> QED
  BY <1>1, <1>2, PTL DEF FallbackSpec

(***************************************************************************)
(* No VkInstance is leaked or missing, at whatever step opening or a reset *)
(* fails and however the render thread ends, for any number of resets.     *)
(***************************************************************************)
THEOREM InstancesAreOwned == FallbackSpec => []InstancesFollowDriver
<1>1. Opened => InstancesFollowDriver
  <2> SUFFICES ASSUME Opened PROVE InstancesFollowDriver
    OBVIOUS
  <2>1. stage # "vulkan" => worker = "starting"
    BY DEF Opened, Unchosen, Init
  <2>2. /\ stage \in Stage
        /\ worker \in {"starting", "receiving", "closing", "stopped", "hung"} \cup Busy
    BY DEF Opened, Unchosen, Sound, Typed
  <2> QED
    BY <2>1, <2>2 DEF Opened, Instances, Opening, Rendering, Stage, Busy,
                      InstancesFollowDriver
<1> QED
  BY <1>1, OpenedHolds, PTL

-----------------------------------------------------------------------------
(***************************************************************************)
(* A render thread that is gone.  It left no answer "ok" behind: it was    *)
(* asked for nothing when it started, it receives a command only while the *)
(* answer to the one before is taken, and dying answers for what it ran.   *)
(***************************************************************************)
DeadAnswers ==
  /\ worker = "starting" => answer \in {"none", "pending"}
  /\ ThreadIsDead => answer # "ok"

LEMMA StepKeepsDeadAnswers ==
  ASSUME Sound, DeadAnswers, [Next]_vars
  PROVE  DeadAnswers'
<1> USE DEF DeadAnswers, ThreadIsDead
<1>1. CASE Worker
  <2>1. CASE Receive
    <3>1. worker = "receiving" /\ channel # <<>> /\ UNCHANGED answer
      BY <2>1 DEF Receive, WorkerIs
    <3>2. answer # "ok"
      BY <3>1 DEF Sound, Known, Mapped, Protocol, Placed, Queued, Unasked, Blocked
    <3> QED
      BY <2>1, <3>1, <3>2 DEF Receive, WorkerIs
  <2>2. CASE Start \/ StartFails \/ Execute \/ Recreate \/ Hang
    BY <2>2 DEF Start, StartFails, Execute, Recreate, Hang, Busy, WorkerIs
  <2>3. CASE Panic \/ Close
    BY <2>3 DEF Panic, Close, CloseDrops, WorkerIs
  <2> QED
    BY <1>1, <2>1, <2>2, <2>3 DEF Worker
<1>2. CASE Caller
  BY <1>2 DEF Caller, AllocateVram, FreeVram, MarkFaulted, SubmitRejected,
              SubmitSend, SubmitUnsent, ResetSend, DropSend, Request, threads
<1>3. CASE Unblock
  BY <1>3 DEF Unblock, SubmitReturn, ResetReturn, Return, Joined
<1>4. CASE UNCHANGED vars
  BY <1>4 DEF vars
<1> QED
  BY <1>1, <1>2, <1>3, <1>4 DEF Next

(* What a caller gets of a driver whose thread is gone.                    *)
NothingServed ==
  ThreadIsDead => \A g \in Gpu :
    /\ faulted[g] => faulted'[g]
    /\ reply' = <<g, "accepted">> => reply' = reply

LEMMA DeadServesNothing ==
  ASSUME Sound, DeadAnswers, [Next]_vars
  PROVE  NothingServed
<1> USE DEF DeadAnswers, NothingServed
<1>1. faulted \in [Gpu -> BOOLEAN]
  BY DEF Sound, Known, Mapped, Recorded
<1>2. ASSUME NEW g, NEW h
      PROVE  <<>> # <<g, "accepted">> /\ <<h, "rejected">> # <<g, "accepted">>
             /\ <<h, "failed">> # <<g, "accepted">> /\ <<h, "lost">> # <<g, "accepted">>
  OBVIOUS
<1>3. ASSUME UNCHANGED <<faulted, reply>> PROVE NothingServed
  BY <1>3
<1>4. ASSUME NEW g \in Gpu, MarkFaulted(g)
      PROVE  NothingServed
  BY <1>1, <1>2, <1>4 DEF MarkFaulted, Faulty
<1>5. ASSUME NEW g \in Gpu,
             \/ \E size \in Sizes : AllocateVram(g, size)
             \/ SubmitRejected(g) \/ SubmitUnsent(g)
      PROVE  NothingServed
  BY <1>2, <1>5 DEF AllocateVram, SubmitRejected, SubmitUnsent
<1>6. ASSUME NEW a \in 1 .. MaxAllocs, FreeVram(a)
      PROVE  NothingServed
  BY <1>2, <1>6 DEF FreeVram
<1>7. CASE SubmitReturn
  <2>1. \A g \in Gpu : faulted[g] => faulted'[g]
    BY <1>1, <1>7 DEF SubmitReturn, RecordFault, Faulty
  <2>2. ASSUME ThreadIsDead
        PROVE  reply' = <<target, "failed">> \/ reply' = <<target, "lost">>
    BY <1>7, <2>2 DEF SubmitReturn
  <2> QED
    BY <1>2, <2>1, <2>2
<1>8. CASE ResetReturn
  <2>1. ASSUME ThreadIsDead PROVE faulted' = faulted
    BY <1>1, <1>8, <2>1 DEF ResetReturn, ClearFault
  <2> QED
    BY <1>2, <1>8, <2>1 DEF ResetReturn
<1>9. ASSUME NEW g \in Gpu, SubmitSend(g) \/ ResetSend(g)
      PROVE  NothingServed
  BY <1>3, <1>9 DEF SubmitSend, ResetSend, Request, adapterVars
<1>10. CASE DropSend \/ Joined \/ Worker
  BY <1>3, <1>10 DEF DropSend, Joined, Worker, Start, StartFails, Receive,
     Execute, Recreate, Panic, Hang, Close, WorkerIs, adapterVars
<1>11. CASE UNCHANGED vars
  BY <1>3, <1>11 DEF vars, adapterVars
<1> QED
  BY <1>4, <1>5, <1>6, <1>7, <1>8, <1>9, <1>10, <1>11 DEF Next, Caller, Unblock

(***************************************************************************)
(* After its render thread died the Vulkan driver does not come back, and  *)
(* the software driver does not take over, for any number of devices.      *)
(***************************************************************************)
THEOREM DeadThreadStaysDead == FallbackSpec => DeadThreadServesNothing
<1> DEFINE I == Opened /\ DeadAnswers
           A == ThreadIsDead =>
                  /\ \A g \in Gpu : /\ faulted[g] => faulted'[g]
                                    /\ reply' = <<g, "accepted">> => reply' = reply
                  /\ stage' = stage
<1>1. FallbackInit => DeadAnswers
  BY DEF FallbackInit, Init, DeadAnswers, ThreadIsDead
<1>2. I /\ [FallbackNext]_allVars => DeadAnswers'
  BY StepIsVulkan, StepKeepsDeadAnswers DEF Opened
<1>3. ASSUME I, [FallbackNext]_allVars
      PROVE  [A]_allVars
  <2>1. NothingServed
    BY <1>3, StepIsVulkan, DeadServesNothing DEF Opened
  <2>2. ThreadIsDead => stage' = stage
    <3>1. CASE Open
      BY <1>3, <3>1, OpenLeavesDrivers DEF Opened, Unchosen, Init, ThreadIsDead
    <3>2. CASE RenderThread \/ CallVulkan \/ VulkanReturns
      BY <3>2, VulkanStaysInStage DEF InVulkan, opening
    <3>3. CASE CallSoftware \/ UNCHANGED allVars
      BY <3>3 DEF CallSoftware, allVars, opening
    <3> QED
      BY <1>3, <3>1, <3>2, <3>3 DEF FallbackNext
  <2> QED
    BY <2>1, <2>2 DEF NothingServed
<1>4. FallbackSpec => []I
  <2> HIDE DEF A
  <2> QED
    BY <1>1, <1>2, OpenedHolds, PTL DEF FallbackSpec
<1> QED
  BY <1>3, <1>4, PTL DEF FallbackSpec, DeadThreadServesNothing

-----------------------------------------------------------------------------
(***************************************************************************)
(* The contract, as the caller sees it: the devices of both drivers, the   *)
(* tables of the one it was given.                                         *)
(***************************************************************************)
(* A call of the Vulkan driver is the same call of the driver seen.        *)
LEMMA VulkanIsSeen ==
  ASSUME Sound, Software!Init, stage = "vulkan",
         UNCHANGED <<stage, softwareVars>>,
         [Contract!Next]_(Contract!driverVars)
  PROVE  [Seen!Next]_(Seen!driverVars)
<1>1. /\ DOMAIN vramAvailable = Gpu /\ DOMAIN faulted = Gpu
      /\ DOMAIN swVramAvailable = {SoftwareGpu} /\ DOMAIN swFaulted = {SoftwareGpu}
  BY DEF Sound, Known, Mapped, Recorded, Accounts!Accounting, Accounts!TypeOK,
         Software!Init
<1>2. ~IsSoftware /\ ~IsSoftware' /\ UNCHANGED <<swVramAvailable, swFaulted>>
  BY DEF IsSoftware, softwareVars
<1> DEFINE pool == Both(vramAvailable, swVramAvailable)
           faults == Both(faulted, swFaulted)
<1>3. /\ \A g \in Gpu : pool[g] = vramAvailable[g]
      /\ \A g \in Gpu : \A n :
           vramAvailable' = [vramAvailable EXCEPT ![g] = n]
             => pool' = [pool EXCEPT ![g] = n]
      /\ vramAvailable' = vramAvailable => pool' = pool
  BY <1>1, <1>2, FallbackDriverAssumption DEF Both
<1>4. /\ \A g \in Gpu : faults[g] = faulted[g]
      /\ \A g \in Gpu : \A b :
           faulted' = [faulted EXCEPT ![g] = b] => faults' = [faults EXCEPT ![g] = b]
      /\ faulted' = faulted => faults' = faults
  BY <1>1, <1>2, FallbackDriverAssumption DEF Both
<1>5. ASSUME NEW g \in Gpu, NEW size \in Sizes, Contract!AllocateVram(g, size)
      PROVE  Seen!Next
  <2>1. pool' = [pool EXCEPT ![g] = pool[g] - size] /\ faults' = faults
    BY <1>3, <1>4, <1>5 DEF Contract!AllocateVram
  <2>2. Seen!AllocateVram(g, size)
    BY <1>2, <1>3, <1>5, <2>1
       DEF Contract!AllocateVram, Contract!Fits, Contract!NoReply,
           Contract!Insert, Seen!AllocateVram, Seen!Fits, Seen!NoReply,
           Seen!Insert
  <2> QED
    BY <2>2 DEF Seen!Next
<1>6. ASSUME NEW a \in Contract!AllocId, Contract!FreeVram(a)
      PROVE  Seen!Next
  <2> DEFINE g == WithoutAddress[a].gpu
             size == WithoutAddress[a].size
  <2>1. g \in Gpu
    BY <1>6 DEF Contract!FreeVram, WithoutAddress, Sound, Known, Mapped, Placement
  <2>2. pool' = [pool EXCEPT ![g] = pool[g] + size] /\ faults' = faults
    BY <1>3, <1>4, <1>6, <2>1 DEF Contract!FreeVram
  <2>3. Seen!FreeVram(a)
    BY <1>2, <1>6, <2>2
       DEF Contract!FreeVram, Contract!NoReply, Contract!Remove,
           Contract!Restrict, Seen!FreeVram, Seen!NoReply, Seen!Remove,
           Seen!Restrict
  <2> QED
    BY <1>6, <2>3 DEF Seen!Next, Contract!AllocId, Seen!AllocId
<1>7. ASSUME NEW g \in Gpu,
             Contract!Accept(g) \/ Contract!Reject(g) \/ Contract!Fail(g)
      PROVE  Seen!Next
  <2>1. Seen!Accept(g) \/ Seen!Reject(g) \/ Seen!Fail(g)
    BY <1>2, <1>3, <1>4, <1>7
       DEF Contract!Accept, Contract!Reject, Contract!Fail,
           Seen!Accept, Seen!Reject, Seen!Fail
  <2> QED
    BY <2>1 DEF Seen!Submit, Seen!Next
<1>8. ASSUME NEW g \in Gpu, Contract!Lose(g)
      PROVE  Seen!Next
  <2>1. pool' = pool /\ faults' = [faults EXCEPT ![g] = TRUE]
    BY <1>3, <1>4, <1>8 DEF Contract!Lose
  <2>2. Seen!Lose(g)
    BY <1>2, <1>4, <1>8, <2>1 DEF Contract!Lose, Seen!Lose
  <2> QED
    BY <2>2 DEF Seen!Submit, Seen!Next
<1>9. ASSUME NEW g \in Gpu, Contract!MarkFaulted(g) \/ Contract!ResetDevice(g)
      PROVE  Seen!Next
  <2>1. /\ pool' = pool
        /\ Contract!MarkFaulted(g) => faults' = [faults EXCEPT ![g] = TRUE]
        /\ Contract!ResetDevice(g) => faults' = [faults EXCEPT ![g] = FALSE]
    BY <1>3, <1>4, <1>9 DEF Contract!MarkFaulted, Contract!ResetDevice
  <2>2. Seen!MarkFaulted(g) \/ Seen!ResetDevice(g)
    BY <1>2, <1>9, <2>1
       DEF Contract!MarkFaulted, Contract!ResetDevice, Contract!NoReply,
           Seen!MarkFaulted, Seen!ResetDevice, Seen!NoReply
  <2> QED
    BY <2>2 DEF Seen!Next
<1>10. CASE Contract!OtherCall
  BY <1>2, <1>3, <1>4, <1>10
     DEF Contract!OtherCall, Contract!NoReply, Seen!OtherCall, Seen!NoReply,
         Seen!Next
<1>11. CASE UNCHANGED Contract!driverVars
  BY <1>2, <1>3, <1>4, <1>11 DEF Contract!driverVars, Seen!driverVars
<1> QED
  BY <1>5, <1>6, <1>7, <1>8, <1>9, <1>10, <1>11
     DEF Contract!Next, Contract!Submit

-----------------------------------------------------------------------------
(***************************************************************************)
(* What is proved of the software driver holds of this one.                *)
(***************************************************************************)
SoftwareProofs == INSTANCE SoftwareGpuDriverProofs
  WITH Gpu <- {SoftwareGpu}, allocations <- swAllocations, issued <- swIssued,
       vramAvailable <- swVramAvailable, faulted <- swFaulted, reply <- swReply

LEMMA SoftwareAssumption == SoftwareProofs!SoftwareGpuDriverAssumption
BY VulkanDriverAssumption DEF SoftwareProofs!SoftwareGpuDriverAssumption

(* The two instances of the module are one driver.                         *)
LEMMA SameSoftware ==
  /\ Software!Init => SoftwareProofs!Init
  /\ [Software!Next]_softwareVars => [SoftwareProofs!Next]_(SoftwareProofs!vars)
<1>1. Software!Init => SoftwareProofs!Init
  BY DEF Software!Init, Software!EmptyTable,
         SoftwareProofs!Init, SoftwareProofs!EmptyTable
<1>2. Software!Next => SoftwareProofs!Next
  BY DEF Software!Next, Software!Initialize, Software!Shutdown,
         Software!AllocateVram, Software!Fits, Software!DeviceAddress,
         Software!Insert, Software!FreeVram, Software!Remove,
         Software!Restrict, Software!Submit, Software!InjectFault,
         Software!ResetDevice,
         SoftwareProofs!Next, SoftwareProofs!Initialize,
         SoftwareProofs!Shutdown, SoftwareProofs!AllocateVram,
         SoftwareProofs!Fits, SoftwareProofs!DeviceAddress,
         SoftwareProofs!Insert, SoftwareProofs!FreeVram,
         SoftwareProofs!Remove, SoftwareProofs!Restrict,
         SoftwareProofs!Submit, SoftwareProofs!InjectFault,
         SoftwareProofs!ResetDevice
<1> QED
  BY <1>1, <1>2 DEF softwareVars, SoftwareProofs!vars

LEMMA StepIsSoftware ==
  ASSUME [FallbackNext]_allVars
  PROVE  [Software!Next]_softwareVars
BY OpenLeavesDrivers, VulkanStaysInStage
   DEF FallbackNext, CallSoftware, InVulkan, allVars

LEMMA InsideHolds == FallbackSpec => []SoftwareProofs!Inside
<1>1. FallbackInit => SoftwareProofs!Inside
  <2>1. FallbackInit => SoftwareProofs!Init
    BY SameSoftware DEF FallbackInit
  <2> QED
    BY <2>1, SoftwareAssumption, SoftwareProofs!InitIsInside
<1>2. SoftwareProofs!Inside /\ [FallbackNext]_allVars => SoftwareProofs!Inside'
  BY StepIsSoftware, SameSoftware, SoftwareAssumption,
     SoftwareProofs!StepKeepsInside
<1> QED
  BY <1>1, <1>2, PTL DEF FallbackSpec

(* A call of the software driver is the same call of the driver seen.      *)
LEMMA SoftwareIsSeen ==
  ASSUME Sound, SoftwareProofs!Inside, stage = "software",
         UNCHANGED <<stage, vars>>,
         [SoftwareProofs!Contract!Next]_(SoftwareProofs!Contract!driverVars)
  PROVE  [Seen!Next]_(Seen!driverVars)
<1>1. /\ DOMAIN vramAvailable = Gpu /\ DOMAIN faulted = Gpu
      /\ DOMAIN swVramAvailable = {SoftwareGpu} /\ DOMAIN swFaulted = {SoftwareGpu}
  BY DEF Sound, Known, Mapped, Recorded, Accounts!Accounting, Accounts!TypeOK,
         SoftwareProofs!Inside, SoftwareProofs!Accounts!Accounting,
         SoftwareProofs!Accounts!TypeOK
<1>2. /\ IsSoftware /\ IsSoftware' /\ UNCHANGED <<vramAvailable, faulted>>
      /\ Software!WithoutAddress = SoftwareProofs!WithoutAddress
      /\ Software!WithoutAddress' = SoftwareProofs!WithoutAddress'
  BY DEF IsSoftware, vars, adapterVars,
         Software!WithoutAddress, SoftwareProofs!WithoutAddress
<1> DEFINE pool == Both(vramAvailable, swVramAvailable)
           faults == Both(faulted, swFaulted)
           device == SoftwareGpu
<1>3. /\ pool[device] = swVramAvailable[device]
      /\ \A n : swVramAvailable' = [swVramAvailable EXCEPT ![device] = n]
                 => pool' = [pool EXCEPT ![device] = n]
      /\ swVramAvailable' = swVramAvailable => pool' = pool
  BY <1>1, <1>2, FallbackDriverAssumption DEF Both
<1>4. /\ faults[device] = swFaulted[device]
      /\ \A b : swFaulted' = [swFaulted EXCEPT ![device] = b]
                 => faults' = [faults EXCEPT ![device] = b]
      /\ swFaulted' = swFaulted => faults' = faults
  BY <1>1, <1>2, FallbackDriverAssumption DEF Both
<1>5. ASSUME NEW size \in Sizes, SoftwareProofs!Contract!AllocateVram(device, size)
      PROVE  Seen!Next
  <2>1. pool' = [pool EXCEPT ![device] = pool[device] - size] /\ faults' = faults
    BY <1>3, <1>4, <1>5 DEF SoftwareProofs!Contract!AllocateVram
  <2>2. Seen!AllocateVram(device, size)
    BY <1>2, <1>3, <1>5, <2>1
       DEF SoftwareProofs!Contract!AllocateVram, SoftwareProofs!Contract!Fits,
           SoftwareProofs!Contract!NoReply, SoftwareProofs!Contract!Insert,
           Seen!AllocateVram, Seen!Fits, Seen!NoReply, Seen!Insert
  <2> QED
    BY <2>2 DEF Seen!Next
<1>6. ASSUME NEW a \in SoftwareProofs!Contract!AllocId, SoftwareProofs!Contract!FreeVram(a)
      PROVE  Seen!Next
  <2> DEFINE size == SoftwareProofs!WithoutAddress[a].size
  <2>1. SoftwareProofs!WithoutAddress[a].gpu = device
    BY <1>6 DEF SoftwareProofs!Contract!FreeVram, SoftwareProofs!WithoutAddress,
                SoftwareProofs!Inside, SoftwareProofs!Shape
  <2>2. pool' = [pool EXCEPT ![device] = pool[device] + size] /\ faults' = faults
    BY <1>3, <1>4, <1>6, <2>1 DEF SoftwareProofs!Contract!FreeVram
  <2>3. Seen!FreeVram(a)
    BY <1>2, <1>6, <2>1, <2>2
       DEF SoftwareProofs!Contract!FreeVram, SoftwareProofs!Contract!NoReply,
           SoftwareProofs!Contract!Remove, SoftwareProofs!Contract!Restrict,
           Seen!FreeVram, Seen!NoReply, Seen!Remove, Seen!Restrict
  <2> QED
    BY <1>6, <2>3 DEF Seen!Next, SoftwareProofs!Contract!AllocId, Seen!AllocId
<1>7. CASE \/ SoftwareProofs!Contract!Accept(device)
           \/ SoftwareProofs!Contract!Reject(device)
           \/ SoftwareProofs!Contract!Fail(device)
  <2>1. Seen!Accept(device) \/ Seen!Reject(device) \/ Seen!Fail(device)
    BY <1>2, <1>3, <1>4, <1>7
       DEF SoftwareProofs!Contract!Accept, SoftwareProofs!Contract!Reject,
           SoftwareProofs!Contract!Fail, Seen!Accept, Seen!Reject, Seen!Fail
  <2> QED
    BY <2>1 DEF Seen!Submit, Seen!Next
<1>8. CASE SoftwareProofs!Contract!Lose(device)
  <2>1. pool' = pool /\ faults' = [faults EXCEPT ![device] = TRUE]
    BY <1>3, <1>4, <1>8 DEF SoftwareProofs!Contract!Lose
  <2>2. Seen!Lose(device)
    BY <1>2, <1>4, <1>8, <2>1 DEF SoftwareProofs!Contract!Lose, Seen!Lose
  <2> QED
    BY <2>2 DEF Seen!Submit, Seen!Next
<1>9. CASE \/ SoftwareProofs!Contract!MarkFaulted(device)
           \/ SoftwareProofs!Contract!ResetDevice(device)
  <2>1. /\ pool' = pool
        /\ SoftwareProofs!Contract!MarkFaulted(device)
             => faults' = [faults EXCEPT ![device] = TRUE]
        /\ SoftwareProofs!Contract!ResetDevice(device)
             => faults' = [faults EXCEPT ![device] = FALSE]
    BY <1>3, <1>4, <1>9
       DEF SoftwareProofs!Contract!MarkFaulted, SoftwareProofs!Contract!ResetDevice
  <2>2. Seen!MarkFaulted(device) \/ Seen!ResetDevice(device)
    BY <1>2, <1>9, <2>1
       DEF SoftwareProofs!Contract!MarkFaulted, SoftwareProofs!Contract!ResetDevice,
           SoftwareProofs!Contract!NoReply, Seen!MarkFaulted, Seen!ResetDevice,
           Seen!NoReply
  <2> QED
    BY <2>2 DEF Seen!Next
<1>10. CASE SoftwareProofs!Contract!OtherCall
  BY <1>2, <1>3, <1>4, <1>10
     DEF SoftwareProofs!Contract!OtherCall, SoftwareProofs!Contract!NoReply,
         Seen!OtherCall, Seen!NoReply, Seen!Next
<1>11. CASE UNCHANGED SoftwareProofs!Contract!driverVars
  BY <1>2, <1>3, <1>4, <1>11
     DEF SoftwareProofs!Contract!driverVars, Seen!driverVars
<1> QED
  BY <1>5, <1>6, <1>7, <1>8, <1>9, <1>10, <1>11
     DEF SoftwareProofs!Contract!Next, SoftwareProofs!Contract!Submit

(***************************************************************************)
(* open is no call: the caller has none of the drivers yet, and the one it *)
(* is given is as it was made.                                             *)
(***************************************************************************)
LEMMA OpenIsUnseen ==
  ASSUME Unchosen, Open
  PROVE  UNCHANGED Seen!driverVars
<1>1. Init /\ Software!Init /\ UNCHANGED <<vars, softwareVars>>
  BY OpenLeavesDrivers DEF Unchosen
<1>2. /\ WithoutAddress = <<>> /\ Software!WithoutAddress = <<>>
      /\ UNCHANGED <<WithoutAddress, Software!WithoutAddress>>
  BY <1>1 DEF Init, Software!Init, EmptyTable, Software!EmptyTable,
              WithoutAddress, Software!WithoutAddress, vars, adapterVars,
              softwareVars
<1>3. /\ issued = 0 /\ swIssued = 0 /\ reply = <<>> /\ swReply = <<>>
      /\ UNCHANGED <<issued, swIssued, reply, swReply>>
      /\ UNCHANGED <<vramAvailable, swVramAvailable, faulted, swFaulted>>
  BY <1>1 DEF Init, Software!Init, vars, adapterVars, softwareVars
<1> QED
  BY <1>2, <1>3 DEF Seen!driverVars, Both

LEMMA StepIsSeen ==
  ASSUME Opened, SoftwareProofs!Inside, [FallbackNext]_allVars
  PROVE  [Seen!Next]_(Seen!driverVars)
<1>1. CASE Open
  BY <1>1, OpenIsUnseen DEF Opened
<1>2. CASE RenderThread \/ CallVulkan \/ VulkanReturns
  <2>1. stage = "vulkan" /\ UNCHANGED <<stage, softwareVars>>
    BY <1>2, VulkanStaysInStage DEF InVulkan, opening
  <2>2. Sound /\ Software!Init
    BY <2>1 DEF Opened, Unchosen
  <2>3. [Contract!Next]_(Contract!driverVars)
    BY <2>2, StepIsVulkan, StepRefines DEF Sound, Known
  <2> QED
    BY <2>1, <2>2, <2>3, VulkanIsSeen
<1>3. CASE CallSoftware
  <2>1. stage = "software" /\ UNCHANGED <<stage, vars>>
    BY <1>3 DEF CallSoftware, opening
  <2>2. [SoftwareProofs!Contract!Next]_(SoftwareProofs!Contract!driverVars)
    BY StepIsSoftware, SameSoftware, SoftwareAssumption,
       SoftwareProofs!StepRefines DEF SoftwareProofs!Inside
  <2> QED
    BY <2>1, <2>2, SoftwareIsSeen DEF Opened
<1>4. CASE UNCHANGED allVars
  BY <1>4 DEF allVars, vars, adapterVars, softwareVars, opening,
              Seen!driverVars, Both, IsSoftware, WithoutAddress,
              Software!WithoutAddress
<1> QED
  BY <1>1, <1>2, <1>3, <1>4 DEF FallbackNext

(***************************************************************************)
(* Whichever driver open kept, the caller is given the contract of the     *)
(* trait GpuDriver, for any set of devices and any history of calls.       *)
(***************************************************************************)
THEOREM FallbackKeepsContract == FallbackSpec => FallbackImplementsContract
<1>1. FallbackInit => Seen!Init
  <2> SUFFICES ASSUME FallbackInit PROVE Seen!Init
    OBVIOUS
  <2>1. ~IsSoftware /\ WithoutAddress = Seen!EmptyTable
    BY DEF FallbackInit, Init, IsSoftware, EmptyTable, WithoutAddress,
           Seen!EmptyTable
  <2>2. /\ Both(vramAvailable, swVramAvailable)
             = [g \in Gpu \cup {SoftwareGpu} |-> VramTotal]
        /\ Both(faulted, swFaulted) = [g \in Gpu \cup {SoftwareGpu} |-> FALSE]
    BY DEF FallbackInit, Init, Software!Init, Both
  <2> QED
    BY <2>1, <2>2 DEF FallbackInit, Init, Seen!Init, Seen!NoReply
<1>2. Opened /\ SoftwareProofs!Inside /\ [FallbackNext]_allVars
        => [Seen!Next]_(Seen!driverVars)
  BY StepIsSeen
<1> QED
  BY <1>1, <1>2, OpenedHolds, InsideHolds, PTL
     DEF FallbackSpec, FallbackImplementsContract, Seen!Spec
-----------------------------------------------------------------------------
(***************************************************************************)
(* What is proved of VulkanDriver over any backend holds over the real     *)
(* one: no command is left unattended, a lost device is never forgotten,   *)
(* and no two live allocations share an address.                           *)
(***************************************************************************)
THEOREM BackendKeepsSafety ==
  FallbackSpec => [](/\ NothingRunsUnattended
                     /\ LostContextIsRecorded
                     /\ LiveAllocationsDisjoint)
BY BackendRefinesVulkanDriver, EveryCommandIsAttended, LossIsNeverForgotten,
   AllocationsNeverOverlap, PTL DEF ImplementsVulkanDriver

(* The errors open can keep, and where a probe can be.                     *)
Probing ==
  /\ reason \in {"none", "Unavailable", "Execution", "NoPhysicalDevices", "NoThread"}
  /\ probe \in ProbeCalls \cup {"none"}

LEMMA OpenKeepsProbing ==
  ASSUME Probing, Open
  PROVE  Probing'
<1> USE DEF Probing, ProbeCalls, FallBack
<1>1. /\ \A error \in ProbeError :
           map_vulkan_error(error) \in {"Unavailable", "Execution"}
      /\ map_vulkan_error(FromResult("OTHER")) = "Execution"
  BY DEF ProbeError, FromResult, map_vulkan_error
<1>2. CASE OpenProbe
  BY <1>2 DEF OpenProbe, ProbeGoesOn, ProbeSucceeds
<1>3. CASE OpenProbeFails
  BY <1>1, <1>3 DEF OpenProbeFails
<1>4. CASE OpenEnumerate \/ OpenSpawn \/ OpenSpawnFails
  BY <1>4 DEF OpenEnumerate, OpenSpawn, OpenSpawnFails, contextVars
<1>5. CASE OpenEnumerateFails
  BY <1>1, <1>5 DEF OpenEnumerateFails
<1> QED
  BY <1>2, <1>3, <1>4, <1>5 DEF Open

LEMMA StepKeepsProbing ==
  ASSUME Probing, [FallbackNext]_allVars
  PROVE  Probing'
<1>1. CASE Open
  BY <1>1, OpenKeepsProbing
<1>2. CASE RenderThread
  BY <1>2 DEF RenderThread, ThreadStarts, BackendReceives, BackendExecutes,
              BackendProbes, BackendProbed, BackendReplaces, BackendResetFails,
              BackendPanics, BackendHangs, ThreadEnds, InVulkan, opening,
              contextVars, ProbeGoesOn, ProbeSucceeds, Probing, ProbeCalls
<1>3. CASE CallVulkan \/ VulkanReturns \/ CallSoftware \/ UNCHANGED allVars
  BY <1>3 DEF CallVulkan, VulkanReturns, CallSoftware, InVulkan, opening,
              contextVars, allVars, Probing
<1> QED
  BY <1>1, <1>2, <1>3 DEF FallbackNext

(***************************************************************************)
(* Type correctness of the driver and of both it may have opened; that     *)
(* there are never three VkInstances is the invariant above.               *)
(***************************************************************************)
THEOREM FallbackTypeCorrect == FallbackSpec => []FallbackTypeOK
<1>1. FallbackInit => Probing
  BY DEF FallbackInit, Probing, ProbeCalls
<1>2. Probing /\ [FallbackNext]_allVars => Probing'
  BY StepKeepsProbing
<1>3. Opened /\ SoftwareProofs!Inside /\ Probing => FallbackTypeOK
  <2> SUFFICES ASSUME Opened, SoftwareProofs!Inside, Probing
               PROVE  FallbackTypeOK
    OBVIOUS
  <2>1. TypeOK
    BY SoundIsTyped DEF Opened
  <2>2. Software!TypeOK
    <3>1. SoftwareProofs!TypeOK
      BY SoftwareAssumption, SoftwareProofs!InsideIsTyped
    <3> QED
      BY <3>1
         DEF Software!TypeOK, Software!IsTable, Software!WithoutAddress,
             Software!Contract!TypeOK, Software!Contract!Allocation,
             Software!Contract!IsTable, Software!Contract!Reply,
             Software!Contract!NoReply, Software!Contract!Outcome,
             SoftwareProofs!TypeOK, SoftwareProofs!IsTable,
             SoftwareProofs!WithoutAddress,
             SoftwareProofs!Contract!TypeOK, SoftwareProofs!Contract!Allocation,
             SoftwareProofs!Contract!IsTable, SoftwareProofs!Contract!Reply,
             SoftwareProofs!Contract!NoReply, SoftwareProofs!Contract!Outcome
  <2>3. instances \in 0 .. 2
    <3>1. /\ stage # "vulkan" => worker = "starting"
          /\ stage \in Stage
          /\ worker \in {"starting", "receiving", "closing", "stopped", "hung"}
                         \cup Busy
      BY DEF Opened, Unchosen, Init, Sound, Typed
    <3> QED
      BY <3>1 DEF Opened, Instances, Opening, Rendering, Stage, Busy
  <2> QED
    BY <2>1, <2>2, <2>3 DEF FallbackTypeOK, Opened, Unchosen, Stage, Probing
<1> QED
  BY <1>1, <1>2, <1>3, OpenedHolds, InsideHolds, PTL DEF FallbackSpec

=============================================================================
