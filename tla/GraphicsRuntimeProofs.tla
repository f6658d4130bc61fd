------------------------ MODULE GraphicsRuntimeProofs ------------------------
(***************************************************************************)
(* What holds of the runtime's tables for any number of GPUs, devices,     *)
(* resources and calls, over any driver that keeps the contract.           *)
(***************************************************************************)
EXTENDS GraphicsRuntime, FiniteSetTheorems, TLAPS

Accounts == INSTANCE GpuDriverProofs WITH Sizes <- Usize

(***************************************************************************)
(* What remove leaves of a table.                                          *)
(***************************************************************************)
LEMMA RemoveTable ==
  ASSUME NEW f, NEW k
  PROVE  /\ DOMAIN Remove(f, k) = DOMAIN f \ {k}
         /\ \A x \in DOMAIN Remove(f, k) : Remove(f, k)[x] = f[x]
BY DEF Remove, Restrict

-----------------------------------------------------------------------------
(***************************************************************************)
(* The objects of the tables.  Only the calls of the first five cases      *)
(* change a table of objects or that of devices.                           *)
(***************************************************************************)
objects == <<devices, deviceCaps, resources, shaders, pipelines>>

LEMMA StepChangesObjects ==
  ASSUME Next
  PROVE  \/ \E g \in Gpu \cup {UnknownGpu}, caps \in CapSets : CreateDevice(g, caps)
         \/ \E d \in Device, kind \in Kinds : CreateResource(d, kind)
         \/ \E r \in 1 .. MaxAllocs : FreeResource(r)
         \/ \E d \in Device : CreateShaderModule(d)
         \/ \E d \in Device, s \in 1 .. MaxShaders : CreatePipeline(d, s)
         \/ \E d \in Device, caps \in CapSets : RecoverDevice(d, caps)
         \/ UNCHANGED objects
<1>1. ASSUME NEW g \in Gpu \cup {UnknownGpu}, NEW caps \in CapSets,
             CreateDeviceRefused(g, caps)
      PROVE  UNCHANGED objects
  BY <1>1 DEF CreateDeviceRefused, objects, tables
<1>2. ASSUME NEW d \in Device, CreateTimeline(d)
      PROVE  UNCHANGED objects
  BY <1>2 DEF CreateTimeline, objects
<1>3. ASSUME NEW d \in Device, NEW caps \in CapSets, RecoverDeviceRefused(d, caps)
      PROVE  UNCHANGED objects
  BY <1>3 DEF RecoverDeviceRefused, objects, tables
<1>4. ASSUME NEW d \in Device, NEW ops \in OpSeqs, NEW t, NEW value,
             \/ SubmitExecuted(d, ops, t, value)
             \/ SubmitFailed(d, ops, t, value)
             \/ SubmitRefused(d, ops, t, value)
      PROVE  UNCHANGED objects
  BY <1>4 DEF SubmitExecuted, SubmitFailed, SubmitRefused, objects, tables
<1>5. ASSUME NEW r \in 1 .. MaxAllocs, AdminFree(r)
      PROVE  UNCHANGED objects
  BY <1>5 DEF AdminFree, Admin, objects, tables
<1>6. ASSUME NEW g \in Gpu, AdminFault(g) \/ AdminClear(g)
      PROVE  UNCHANGED objects
  BY <1>6 DEF AdminFault, AdminClear, Admin, objects, tables
<1>7. CASE DeviceCalls
  BY <1>2, <1>3, <1>4, <1>7 DEF DeviceCalls
<1> QED
  BY <1>1, <1>5, <1>6, <1>7 DEF Next

(***************************************************************************)
(* ObjectsHaveDevices is inductive: what is created names a device that    *)
(* was looked up in the same call, and recovery retains exactly what names *)
(* another device.                                                         *)
(***************************************************************************)
LEMMA ObjectsInit == ASSUME Init PROVE ObjectsHaveDevices
BY DEF Init, EmptyTable, ObjectsHaveDevices

LEMMA ObjectsStep ==
  ASSUME ObjectsHaveDevices, [Next]_vars
  PROVE  ObjectsHaveDevices'
<1> USE DEF ObjectsHaveDevices, IsDevice
<1>1. ASSUME NEW g \in Gpu \cup {UnknownGpu}, NEW caps \in CapSets,
             CreateDevice(g, caps)
      PROVE  ObjectsHaveDevices'
  <2>1. devices' = Insert(devices, NewId("device"), g)
    BY <1>1 DEF CreateDevice
  <2>2. DOMAIN devices \subseteq DOMAIN devices'
    BY <2>1 DEF Insert
  <2> QED
    BY <1>1, <2>2 DEF CreateDevice
<1>2. ASSUME NEW d \in Device, NEW kind \in Kinds, CreateResource(d, kind)
      PROVE  ObjectsHaveDevices'
  <2>0. resources' = Insert(resources, issued', [device |-> d, kind |-> kind])
    BY <1>2 DEF CreateResource
  <2>1. /\ DOMAIN resources' = DOMAIN resources \cup {issued'}
        /\ resources'[issued'] = [device |-> d, kind |-> kind]
        /\ \A x \in DOMAIN resources \ {issued'} : resources'[x] = resources[x]
    BY <2>0 DEF Insert
  <2> QED
    BY <1>2, <2>1 DEF CreateResource
<1>3. ASSUME NEW r \in 1 .. MaxAllocs, FreeResource(r)
      PROVE  ObjectsHaveDevices'
  <2>1. /\ DOMAIN resources' \subseteq DOMAIN resources
        /\ \A x \in DOMAIN resources' : resources'[x] = resources[x]
    BY <1>3, RemoveTable DEF FreeResource
  <2> QED
    BY <1>3, <2>1 DEF FreeResource
<1>4. ASSUME NEW d \in Device, CreateShaderModule(d)
      PROVE  ObjectsHaveDevices'
  <2> DEFINE n == NewId("shader")
  <2>0. shaders' = Insert(shaders, n, [device |-> d])
    BY <1>4 DEF CreateShaderModule
  <2> HIDE DEF n
  <2>1. /\ DOMAIN shaders' = DOMAIN shaders \cup {n}
        /\ shaders'[n] = [device |-> d]
        /\ \A x \in DOMAIN shaders \ {n} : shaders'[x] = shaders[x]
    BY <2>0 DEF Insert
  <2> QED
    BY <1>4, <2>1 DEF CreateShaderModule
<1>5. ASSUME NEW d \in Device, NEW s \in 1 .. MaxShaders, CreatePipeline(d, s)
      PROVE  ObjectsHaveDevices'
  <2> DEFINE n == NewId("pipeline")
  <2>0. pipelines' = Insert(pipelines, n, [device |-> d, shader |-> s])
    BY <1>5 DEF CreatePipeline
  <2> HIDE DEF n
  <2>1. /\ DOMAIN pipelines' = DOMAIN pipelines \cup {n}
        /\ pipelines'[n] = [device |-> d, shader |-> s]
        /\ \A x \in DOMAIN pipelines \ {n} : pipelines'[x] = pipelines[x]
    BY <2>0 DEF Insert
  <2> QED
    BY <1>5, <2>1 DEF CreatePipeline
<1>6. ASSUME NEW d \in Device, NEW caps \in CapSets, RecoverDevice(d, caps)
      PROVE  ObjectsHaveDevices'
  <2>1. DOMAIN devices' = DOMAIN devices \ {d}
    BY <1>6, RemoveTable DEF RecoverDevice
  <2>0. /\ resources' = Survivors(resources, d)
        /\ shaders' = Survivors(shaders, d)
        /\ pipelines' = Survivors(pipelines, d)
    BY <1>6 DEF RecoverDevice
  <2>2. /\ \A x \in DOMAIN resources' :
             x \in DOMAIN resources /\ resources'[x] = resources[x]
                                    /\ resources[x].device # d
        /\ \A x \in DOMAIN shaders' :
             x \in DOMAIN shaders /\ shaders'[x] = shaders[x]
                                  /\ shaders[x].device # d
        /\ \A x \in DOMAIN pipelines' :
             x \in DOMAIN pipelines /\ pipelines'[x] = pipelines[x]
                                    /\ pipelines[x].device # d
    BY <2>0 DEF Survivors, Restrict
  <2> QED
    BY <2>1, <2>2
<1>7. CASE UNCHANGED objects
  BY <1>7 DEF objects
<1>8. CASE UNCHANGED vars
  BY <1>8 DEF vars, tables
<1> QED
  BY <1>1, <1>2, <1>3, <1>4, <1>5, <1>6, <1>7, <1>8, StepChangesObjects

(***************************************************************************)
(* For any number of devices and objects, no resource, shader or pipeline  *)
(* outlives its device.                                                    *)
(***************************************************************************)
THEOREM ObjectsKeepDevices == Spec => []ObjectsHaveDevices
BY ObjectsInit, ObjectsStep, PTL DEF Spec

-----------------------------------------------------------------------------
(***************************************************************************)
(* For any number of devices, on any number of GPUs: recovery takes one    *)
(* device and what names it.  No invariant is needed, the step alone shows *)
(* it: no other call shrinks the table of devices.                         *)
(***************************************************************************)
THEOREM RecoveryTakesOneDevice == Spec => RecoveryIsolates
<1>1. ASSUME [Next]_vars PROVE [OnlyOneIsTaken]_vars
  <2> USE DEF OnlyOneIsTaken
  <2>1. ASSUME NEW d \in Device, NEW caps \in CapSets, RecoverDevice(d, caps)
        PROVE  OnlyOneIsTaken
    <3>1. /\ DOMAIN devices' = DOMAIN devices \ {d}
          /\ call' = [op |-> "recover_device", actor |-> d, granted |-> TRUE]
      BY <2>1, RemoveTable DEF RecoverDevice, MayRecover, Logged, Grants
    <3>2. /\ resources' = Survivors(resources, d)
          /\ shaders' = Survivors(shaders, d)
          /\ pipelines' = Survivors(pipelines, d)
      BY <2>1 DEF RecoverDevice
    <3>3. /\ \A x \in DOMAIN resources :
               x \in DOMAIN resources' <=> resources[x].device # d
          /\ \A x \in DOMAIN shaders :
               x \in DOMAIN shaders' <=> shaders[x].device # d
          /\ \A x \in DOMAIN pipelines :
               x \in DOMAIN pipelines' <=> pipelines[x].device # d
      BY <3>2 DEF Survivors, Restrict
    <3>4. \A e \in DOMAIN devices \ DOMAIN devices' : e = d
      BY <3>1
    <3> QED
      BY <3>1, <3>3, <3>4
  <2>2. ASSUME NEW g \in Gpu \cup {UnknownGpu}, NEW caps \in CapSets,
               CreateDevice(g, caps)
        PROVE  OnlyOneIsTaken
    <3>1. devices' = Insert(devices, NewId("device"), g)
      BY <2>2 DEF CreateDevice
    <3>2. DOMAIN devices \subseteq DOMAIN devices'
      BY <3>1 DEF Insert
    <3> QED
      BY <3>2
  <2>3. ASSUME UNCHANGED devices PROVE OnlyOneIsTaken
    BY <2>3
  <2>4. CASE UNCHANGED vars
    BY <2>4
  <2>5. CASE Next
    <3>1. ASSUME NEW d \in Device, NEW kind \in Kinds, CreateResource(d, kind)
          PROVE  UNCHANGED devices
      BY <3>1 DEF CreateResource
    <3>2. ASSUME NEW r \in 1 .. MaxAllocs, FreeResource(r)
          PROVE  UNCHANGED devices
      BY <3>2 DEF FreeResource
    <3>3. ASSUME NEW d \in Device, CreateShaderModule(d)
          PROVE  UNCHANGED devices
      BY <3>3 DEF CreateShaderModule
    <3>4. ASSUME NEW d \in Device, NEW s \in 1 .. MaxShaders, CreatePipeline(d, s)
          PROVE  UNCHANGED devices
      BY <3>4 DEF CreatePipeline
    <3>5. ASSUME UNCHANGED objects PROVE UNCHANGED devices
      BY <3>5 DEF objects
    <3> QED
      BY <2>1, <2>2, <2>3, <2>5, <3>1, <3>2, <3>3, <3>4, <3>5, StepChangesObjects
  <2> QED
    BY <1>1, <2>4, <2>5
<1> QED
  BY <1>1, PTL DEF Spec, RecoveryIsolates

-----------------------------------------------------------------------------
(***************************************************************************)
(* Timelines.  That creating one moves none needs an invariant: ids are    *)
(* counted, and none beyond the count is in the table.                     *)
(***************************************************************************)
TimelinesCounted ==
  /\ count \in [device : Nat, shader : Nat, pipeline : Nat, timeline : Nat]
  /\ DOMAIN timelines \subseteq 1 .. count.timeline

(* What an executed submission does to the timeline t it signals.          *)
SubmitMoves(t) ==
  /\ t \in DOMAIN timelines
  /\ \E value : value > timelines[t] /\ timelines' = Insert(timelines, t, value)
  /\ call'.op = "submit" /\ call'.granted
  /\ call'.actor \in DOMAIN devices
  /\ "GpuCommandSubmit" \in deviceCaps[call'.actor]
  /\ reply' = <<devices[call'.actor], "accepted">>
  /\ ~faulted[devices[call'.actor]]

LEMMA SubmissionMoves ==
  ASSUME NEW d, NEW ops, NEW t, NEW value, SubmitExecuted(d, ops, t, value)
  PROVE  SubmitMoves(t)
<1>1. call' = [op |-> "submit", actor |-> d, granted |-> TRUE]
  BY DEF SubmitExecuted, Logged
<1>2. /\ ~faulted[devices[d]]
      /\ reply' = <<devices[d], "accepted">>
  BY DEF SubmitExecuted, Driver!Accept
<1>3. /\ d \in DOMAIN devices
      /\ "GpuCommandSubmit" \in deviceCaps[d]
      /\ t \in DOMAIN timelines /\ value > timelines[t]
      /\ timelines' = Insert(timelines, t, value)
  BY DEF SubmitExecuted, Submittable, Grants, IsDevice, Beyond
<1> QED
  BY <1>1, <1>2, <1>3 DEF SubmitMoves

(* The calls that change the table of timelines are two.                   *)
LEMMA StepChangesTimelines ==
  ASSUME Next
  PROVE  \/ \E d \in Device : CreateTimeline(d)
         \/ \E d \in Device, ops \in OpSeqs, t \in 1 .. MaxTimelines,
               value \in 0 .. MaxValue : SubmitExecuted(d, ops, t, value)
         \/ UNCHANGED timelines
<1>1. ASSUME NEW g \in Gpu \cup {UnknownGpu}, NEW caps \in CapSets,
             CreateDevice(g, caps) \/ CreateDeviceRefused(g, caps)
      PROVE  UNCHANGED timelines
  BY <1>1 DEF CreateDevice, CreateDeviceRefused, tables
<1>2. ASSUME NEW d \in Device, CreateShaderModule(d)
      PROVE  UNCHANGED timelines
  BY <1>2 DEF CreateShaderModule
<1>3. ASSUME NEW d \in Device, NEW kind \in Kinds, CreateResource(d, kind)
      PROVE  UNCHANGED timelines
  BY <1>3 DEF CreateResource
<1>4. ASSUME NEW d \in Device, NEW s \in 1 .. MaxShaders, CreatePipeline(d, s)
      PROVE  UNCHANGED timelines
  BY <1>4 DEF CreatePipeline
<1>5. ASSUME NEW d \in Device, NEW caps \in CapSets,
             RecoverDevice(d, caps) \/ RecoverDeviceRefused(d, caps)
      PROVE  UNCHANGED timelines
  BY <1>5 DEF RecoverDevice, RecoverDeviceRefused, tables
<1>6. ASSUME NEW d \in Device, NEW ops \in OpSeqs, NEW t, NEW value,
             SubmitFailed(d, ops, t, value) \/ SubmitRefused(d, ops, t, value)
      PROVE  UNCHANGED timelines
  BY <1>6 DEF SubmitFailed, SubmitRefused, tables
<1>7. ASSUME NEW r \in 1 .. MaxAllocs, FreeResource(r) \/ AdminFree(r)
      PROVE  UNCHANGED timelines
  BY <1>7 DEF FreeResource, AdminFree, Admin, tables
<1>8. ASSUME NEW g \in Gpu, AdminFault(g) \/ AdminClear(g)
      PROVE  UNCHANGED timelines
  BY <1>8 DEF AdminFault, AdminClear, Admin, tables
<1>9. CASE DeviceCalls
  BY <1>2, <1>3, <1>4, <1>5, <1>6, <1>9 DEF DeviceCalls
<1> QED
  BY <1>1, <1>7, <1>8, <1>9 DEF Next

(* A count only grows, so an id in the table stays within it.              *)
LEMMA StepCounts ==
  ASSUME Next
  PROVE  \/ \E kind \in {"device", "shader", "pipeline"} : Counted(kind)
         \/ \E d \in Device : CreateTimeline(d)
         \/ UNCHANGED count
<1>1. ASSUME NEW g \in Gpu \cup {UnknownGpu}, NEW caps \in CapSets
      PROVE  /\ CreateDevice(g, caps) => Counted("device")
             /\ CreateDeviceRefused(g, caps) => UNCHANGED count
  BY DEF CreateDevice, CreateDeviceRefused, tables
<1>2. ASSUME NEW d \in Device
      PROVE  /\ CreateShaderModule(d) => Counted("shader")
             /\ \A kind \in Kinds : CreateResource(d, kind) => UNCHANGED count
  BY DEF CreateShaderModule, CreateResource
<1>3. ASSUME NEW d \in Device, NEW s \in 1 .. MaxShaders, CreatePipeline(d, s)
      PROVE  Counted("pipeline")
  BY <1>3 DEF CreatePipeline
<1>4. ASSUME NEW d \in Device, NEW caps \in CapSets,
             RecoverDevice(d, caps) \/ RecoverDeviceRefused(d, caps)
      PROVE  UNCHANGED count
  BY <1>4 DEF RecoverDevice, RecoverDeviceRefused, tables
<1>5. ASSUME NEW d \in Device, NEW ops \in OpSeqs, NEW t, NEW value,
             \/ SubmitExecuted(d, ops, t, value)
             \/ SubmitFailed(d, ops, t, value)
             \/ SubmitRefused(d, ops, t, value)
      PROVE  UNCHANGED count
  BY <1>5 DEF SubmitExecuted, SubmitFailed, SubmitRefused, tables
<1>6. ASSUME NEW r \in 1 .. MaxAllocs, FreeResource(r) \/ AdminFree(r)
      PROVE  UNCHANGED count
  BY <1>6 DEF FreeResource, AdminFree, Admin, tables
<1>7. ASSUME NEW g \in Gpu, AdminFault(g) \/ AdminClear(g)
      PROVE  UNCHANGED count
  BY <1>7 DEF AdminFault, AdminClear, Admin, tables
<1>8. CASE DeviceCalls
  BY <1>2, <1>3, <1>4, <1>5, <1>8 DEF DeviceCalls
<1> QED
  BY <1>1, <1>6, <1>7, <1>8 DEF Next

LEMMA TimelinesInit == ASSUME Init PROVE TimelinesCounted
BY DEF Init, EmptyTable, TimelinesCounted

LEMMA TimelinesStep ==
  ASSUME TimelinesCounted, [Next]_vars
  PROVE  TimelinesCounted'
<1> USE DEF TimelinesCounted
<1>1. ASSUME NEW d \in Device, CreateTimeline(d)
      PROVE  TimelinesCounted'
  <2>1. /\ count' = [count EXCEPT !["timeline"] = @ + 1]
        /\ timelines' = Insert(timelines, count.timeline + 1, 0)
    BY <1>1 DEF CreateTimeline, Counted, NewId
  <2>2. DOMAIN timelines' = DOMAIN timelines \cup {count.timeline + 1}
    BY <2>1 DEF Insert
  <2>3. /\ count' \in [device : Nat, shader : Nat, pipeline : Nat, timeline : Nat]
        /\ count'.timeline = count.timeline + 1
    BY <2>1
  <2> QED
    BY <2>2, <2>3
<1>2. ASSUME NEW kind \in {"device", "shader", "pipeline"}, Counted(kind)
      PROVE  /\ count' \in [device : Nat, shader : Nat, pipeline : Nat,
                             timeline : Nat]
             /\ count'.timeline = count.timeline
  BY <1>2 DEF Counted
<1>3. ASSUME NEW t, SubmitMoves(t)
      PROVE  DOMAIN timelines' = DOMAIN timelines
  BY <1>3 DEF SubmitMoves, Insert
<1>4. CASE UNCHANGED vars
  BY <1>4 DEF vars, tables
<1>5. ASSUME Next, ~ \E d \in Device : CreateTimeline(d)
      PROVE  TimelinesCounted'
  <2>1. DOMAIN timelines' = DOMAIN timelines
    BY <1>3, <1>5, StepChangesTimelines, SubmissionMoves
  <2>2. \/ \E kind \in {"device", "shader", "pipeline"} : Counted(kind)
        \/ UNCHANGED count
    BY <1>5, StepCounts
  <2> QED
    BY <1>2, <2>1, <2>2
<1> QED
  BY <1>1, <1>4, <1>5

(***************************************************************************)
(* For any number of devices, timelines and values, and any driver of the  *)
(* contract: a timeline moves forward only, with an executed submission of *)
(* a live device that may submit, on a GPU without a fault.                *)
(***************************************************************************)
THEOREM TimelinesMoveForward == Spec => TimelinesMoveByExecution
<1>1. ASSUME TimelinesCounted, [Next]_vars PROVE [MovedByExecution]_vars
  <2> USE DEF MovedByExecution
  <2>1. ASSUME NEW d \in Device, CreateTimeline(d)
        PROVE  MovedByExecution
    <3>1. timelines' = Insert(timelines, count.timeline + 1, 0)
      BY <2>1 DEF CreateTimeline, NewId
    <3>2. \A t \in DOMAIN timelines : t # count.timeline + 1
      BY <1>1 DEF TimelinesCounted
    <3>3. \A t \in DOMAIN timelines : timelines'[t] = timelines[t]
      BY <3>1, <3>2 DEF Insert
    <3> QED
      BY <3>3
  <2>2. ASSUME NEW t, SubmitMoves(t)
        PROVE  MovedByExecution
    <3>1. \A s \in DOMAIN timelines \ {t} : timelines'[s] = timelines[s]
      BY <2>2 DEF SubmitMoves, Insert
    <3>2. timelines'[t] > timelines[t]
      BY <2>2 DEF SubmitMoves, Insert
    <3> QED
      BY <2>2, <3>1, <3>2 DEF SubmitMoves
  <2>3. CASE UNCHANGED timelines
    BY <2>3
  <2>4. CASE UNCHANGED vars
    BY <2>4
  <2> QED
    BY <1>1, <2>1, <2>2, <2>3, <2>4, StepChangesTimelines, SubmissionMoves
<1> QED
  BY <1>1, TimelinesInit, TimelinesStep, PTL DEF Spec, TimelinesMoveByExecution

(* The driver's answer to a submission is Ok in no call but an executed    *)
(* submission: every other one asks the driver for something else.         *)
LEMMA OnlyExecutionAccepts ==
  ASSUME Next, NEW g, reply' = <<g, "accepted">>
  PROVE  \E d \in Device, ops \in OpSeqs, t \in 1 .. MaxTimelines,
            value \in 0 .. MaxValue : SubmitExecuted(d, ops, t, value)
<1> USE DEF Driver!OtherCall, Driver!NoReply
<1>0. reply' # <<>>
  OBVIOUS
<1>1. ASSUME NEW h, NEW caps, CreateDevice(h, caps) \/ CreateDeviceRefused(h, caps)
      PROVE  FALSE
  BY <1>0, <1>1 DEF CreateDevice, CreateDeviceRefused
<1>2. ASSUME NEW d, \/ CreateTimeline(d) \/ CreateShaderModule(d)
                    \/ \E kind \in Kinds : CreateResource(d, kind)
                    \/ \E s \in 1 .. MaxShaders : CreatePipeline(d, s)
      PROVE  FALSE
  BY <1>0, <1>2 DEF CreateTimeline, CreateShaderModule, CreatePipeline,
                    CreateResource, Driver!AllocateVram
<1>3. ASSUME NEW d, NEW caps, RecoverDevice(d, caps) \/ RecoverDeviceRefused(d, caps)
      PROVE  FALSE
  BY <1>0, <1>3 DEF RecoverDevice, RecoverDeviceRefused, Driver!ResetDevice
<1>4. ASSUME NEW d, NEW ops, NEW t, NEW value,
             SubmitFailed(d, ops, t, value) \/ SubmitRefused(d, ops, t, value)
      PROVE  FALSE
  BY <1>0, <1>4 DEF SubmitFailed, SubmitRefused, Driver!Reject, Driver!Fail,
                    Driver!Lose, Driver!MarkFaulted
<1>5. ASSUME NEW r, FreeResource(r) \/ AdminFree(r)
      PROVE  FALSE
  BY <1>0, <1>5 DEF FreeResource, AdminFree, Driver!FreeVram
<1>6. ASSUME NEW h, AdminFault(h) \/ AdminClear(h)
      PROVE  FALSE
  BY <1>0, <1>6 DEF AdminFault, AdminClear, Driver!MarkFaulted, Driver!ResetDevice
<1>7. DeviceCalls
  BY <1>1, <1>5, <1>6 DEF Next
<1> QED
  BY <1>2, <1>3, <1>4, <1>7 DEF DeviceCalls

(***************************************************************************)
(* For any driver of the contract and any number of timelines: a           *)
(* submission the driver executed moves exactly one timeline, forward.     *)
(***************************************************************************)
THEOREM NothingRunsInSilence == Spec => ExecutionsAreSignalled
<1>1. ASSUME [Next]_vars PROVE [SignalledOnce]_vars
  <2>1. ASSUME NEW g \in Gpu, reply' = <<g, "accepted">>, Next
        PROVE  \E t \in DOMAIN timelines :
                 /\ timelines'[t] > timelines[t]
                 /\ \A u \in DOMAIN timelines \ {t} : timelines'[u] = timelines[u]
    <3>1. PICK t : SubmitMoves(t)
      BY <2>1, OnlyExecutionAccepts, SubmissionMoves
    <3>2. PICK value : value > timelines[t] /\ timelines' = Insert(timelines, t, value)
      BY <3>1 DEF SubmitMoves
    <3> QED
      BY <3>1, <3>2 DEF SubmitMoves, Insert
  <2> QED
    BY <1>1, <2>1 DEF SignalledOnce
<1> QED
  BY <1>1, PTL DEF Spec, ExecutionsAreSignalled

-----------------------------------------------------------------------------
(***************************************************************************)
(* Ids that two tables hold.  What a call takes from either, it takes from *)
(* both, except for recovery and the hook.                                 *)
(***************************************************************************)
LEMMA StepTakesMemory ==
  ASSUME Next
  PROVE  \/ \E r \in 1 .. MaxAllocs : FreeResource(r) \/ AdminFree(r)
         \/ DOMAIN allocations \subseteq DOMAIN allocations'
<1> USE DEF Driver!OtherCall
<1>1. ASSUME NEW d, NEW kind, CreateResource(d, kind)
      PROVE  DOMAIN allocations \subseteq DOMAIN allocations'
  <2>1. \E n, v : allocations' = Driver!Insert(allocations, n, v)
    BY <1>1 DEF CreateResource, Driver!AllocateVram
  <2> QED
    BY <2>1 DEF Driver!Insert
<1>2. ASSUME NEW h, NEW caps, CreateDevice(h, caps) \/ CreateDeviceRefused(h, caps)
      PROVE  UNCHANGED allocations
  BY <1>2 DEF CreateDevice, CreateDeviceRefused
<1>3. ASSUME NEW d, \/ CreateTimeline(d) \/ CreateShaderModule(d)
                    \/ \E s \in 1 .. MaxShaders : CreatePipeline(d, s)
                    \/ \E caps \in CapSets :
                         RecoverDevice(d, caps) \/ RecoverDeviceRefused(d, caps)
      PROVE  UNCHANGED allocations
  BY <1>3 DEF CreateTimeline, CreateShaderModule, CreatePipeline, RecoverDevice,
              RecoverDeviceRefused, Driver!ResetDevice
<1>4. ASSUME NEW d, NEW ops, NEW t, NEW value,
             \/ SubmitExecuted(d, ops, t, value) \/ SubmitFailed(d, ops, t, value)
             \/ SubmitRefused(d, ops, t, value)
      PROVE  UNCHANGED allocations
  BY <1>4 DEF SubmitExecuted, SubmitFailed, SubmitRefused, Driver!Accept,
              Driver!Reject, Driver!Fail, Driver!Lose, Driver!MarkFaulted
<1>5. ASSUME NEW h, AdminFault(h) \/ AdminClear(h)
      PROVE  UNCHANGED allocations
  BY <1>5 DEF AdminFault, AdminClear, Driver!MarkFaulted, Driver!ResetDevice
<1>6. CASE DeviceCalls
  BY <1>1, <1>3, <1>4, <1>6 DEF DeviceCalls
<1> QED
  BY <1>2, <1>5, <1>6 DEF Next

LEMMA StepTakesHandles ==
  ASSUME Next
  PROVE  \/ \E r \in 1 .. MaxAllocs : FreeResource(r)
         \/ \E d \in Device, caps \in CapSets : RecoverDevice(d, caps)
         \/ DOMAIN resources \subseteq DOMAIN resources'
<1>1. ASSUME NEW d, NEW kind, CreateResource(d, kind)
      PROVE  DOMAIN resources \subseteq DOMAIN resources'
  <2>1. \E n, v : resources' = Insert(resources, n, v)
    BY <1>1 DEF CreateResource
  <2> QED
    BY <2>1 DEF Insert
<1>2. ASSUME NEW g, NEW caps, CreateDevice(g, caps)
      PROVE  UNCHANGED resources
  BY <1>2 DEF CreateDevice
<1>3. ASSUME NEW d, CreateShaderModule(d) \/ \E s \in 1 .. MaxShaders : CreatePipeline(d, s)
      PROVE  UNCHANGED resources
  BY <1>3 DEF CreateShaderModule, CreatePipeline
<1>4. ASSUME UNCHANGED objects PROVE UNCHANGED resources
  BY <1>4 DEF objects
<1> QED
  BY <1>1, <1>2, <1>3, <1>4, StepChangesObjects

(***************************************************************************)
(* For any devices, resources and hooks: a handle goes with its memory,    *)
(* except by the recovery of its device; memory goes from under a handle   *)
(* only by a hook.                                                         *)
(***************************************************************************)
THEOREM MemoryGoesWithHandles == Spec => HandlesGoWithMemory
<1>1. ASSUME [Next]_vars PROVE [GoneTogether]_vars
  <2>1. ASSUME NEW r \in 1 .. MaxAllocs, FreeResource(r)
        PROVE  GoneTogether
    <3>1. DOMAIN resources' = DOMAIN resources \ {r}
      BY <2>1, RemoveTable DEF FreeResource
    <3>2. CASE r \in DOMAIN allocations
      <4>1. allocations' = Driver!Remove(allocations, r)
        BY <2>1, <3>2 DEF FreeResource, Driver!FreeVram
      <4>2. DOMAIN allocations' = DOMAIN allocations \ {r}
        BY <4>1 DEF Driver!Remove, Driver!Restrict
      <4> QED
        BY <3>1, <4>2 DEF GoneTogether
    <3>3. CASE r \notin DOMAIN allocations
      <4>1. UNCHANGED allocations
        BY <2>1, <3>3 DEF FreeResource, Driver!OtherCall
      <4> QED
        BY <3>1, <3>3, <4>1 DEF GoneTogether
    <3> QED
      BY <3>2, <3>3
  <2>2. ASSUME NEW d, NEW caps, RecoverDevice(d, caps)
        PROVE  GoneTogether
    <3>1. /\ call' = [op |-> "recover_device", actor |-> d, granted |-> TRUE]
          /\ UNCHANGED allocations
          /\ resources' = Survivors(resources, d)
      BY <2>2 DEF RecoverDevice, MayRecover, Logged, Grants, Driver!ResetDevice
    <3>2. \A r \in DOMAIN resources \ DOMAIN resources' : resources[r].device = d
      BY <3>1 DEF Survivors, Restrict
    <3> QED
      BY <3>1, <3>2 DEF GoneTogether
  <2>3. ASSUME NEW r, AdminFree(r)
        PROVE  GoneTogether
    <3>1. call'.op = "driver_mut" /\ UNCHANGED resources
      BY <2>3 DEF AdminFree, Admin, tables
    <3> QED
      BY <3>1 DEF GoneTogether
  <2>4. ASSUME DOMAIN allocations \subseteq DOMAIN allocations',
               DOMAIN resources \subseteq DOMAIN resources'
        PROVE  GoneTogether
    BY <2>4 DEF GoneTogether
  <2> QED
    BY <1>1, <2>1, <2>2, <2>3, <2>4, StepTakesMemory, StepTakesHandles
<1> QED
  BY <1>1, PTL DEF Spec, HandlesGoWithMemory

-----------------------------------------------------------------------------
(***************************************************************************)
(* Memory under the handles.  A resource is found at the id of its         *)
(* allocation, on the GPU of its device; so nothing may be freed but       *)
(* through the runtime, and no new device may take the id of an old one.   *)
(***************************************************************************)
DevicesCounted ==
  /\ count \in [device : Nat, shader : Nat, pipeline : Nat, timeline : Nat]
  /\ DOMAIN devices \subseteq 1 .. count.device

BackedInv == DevicesCounted /\ ObjectsHaveDevices /\ ResourcesBacked

LEMMA StepChangesDevices ==
  ASSUME Next
  PROVE  \/ \E g \in Gpu \cup {UnknownGpu}, caps \in CapSets : CreateDevice(g, caps)
         \/ DOMAIN devices' \subseteq DOMAIN devices
<1>1. ASSUME NEW d \in Device, NEW kind \in Kinds, CreateResource(d, kind)
      PROVE  UNCHANGED devices
  BY <1>1 DEF CreateResource
<1>2. ASSUME NEW r \in 1 .. MaxAllocs, FreeResource(r)
      PROVE  UNCHANGED devices
  BY <1>2 DEF FreeResource
<1>3. ASSUME NEW d \in Device, CreateShaderModule(d)
      PROVE  UNCHANGED devices
  BY <1>3 DEF CreateShaderModule
<1>4. ASSUME NEW d \in Device, NEW s \in 1 .. MaxShaders, CreatePipeline(d, s)
      PROVE  UNCHANGED devices
  BY <1>4 DEF CreatePipeline
<1>5. ASSUME NEW d \in Device, NEW caps \in CapSets, RecoverDevice(d, caps)
      PROVE  DOMAIN devices' \subseteq DOMAIN devices
  BY <1>5, RemoveTable DEF RecoverDevice
<1>6. ASSUME UNCHANGED objects PROVE UNCHANGED devices
  BY <1>6 DEF objects
<1> QED
  BY <1>1, <1>2, <1>3, <1>4, <1>5, <1>6, StepChangesObjects

(* The driver's accounting is changed by the two calls on resources only,  *)
(* but for the hook the theorem leaves out.                                *)
LEMMA StepTouchesMemory ==
  ASSUME "free_vram" \notin AdminCalls, Next
  PROVE  \/ \E g \in Gpu \cup {UnknownGpu}, caps \in CapSets : CreateDevice(g, caps)
         \/ \E d \in Device, kind \in Kinds : CreateResource(d, kind)
         \/ \E r \in 1 .. MaxAllocs : FreeResource(r)
         \/ \E d \in Device, caps \in CapSets : RecoverDevice(d, caps)
         \/ UNCHANGED <<devices, resources, allocations>>
<1> USE DEF Driver!OtherCall
<1>1. ASSUME NEW g \in Gpu \cup {UnknownGpu}, NEW caps \in CapSets,
             CreateDeviceRefused(g, caps)
      PROVE  UNCHANGED <<devices, resources, allocations>>
  BY <1>1 DEF CreateDeviceRefused, tables
<1>2. ASSUME NEW d \in Device,
             \/ CreateTimeline(d) \/ CreateShaderModule(d)
             \/ \E s \in 1 .. MaxShaders : CreatePipeline(d, s)
      PROVE  UNCHANGED <<devices, resources, allocations>>
  BY <1>2 DEF CreateTimeline, CreateShaderModule, CreatePipeline
<1>3. ASSUME NEW d \in Device, NEW caps \in CapSets, RecoverDeviceRefused(d, caps)
      PROVE  UNCHANGED <<devices, resources, allocations>>
  BY <1>3 DEF RecoverDeviceRefused, tables
<1>4. ASSUME NEW d \in Device, NEW ops \in OpSeqs, NEW t, NEW value,
             \/ SubmitExecuted(d, ops, t, value)
             \/ SubmitRefused(d, ops, t, value)
      PROVE  UNCHANGED <<devices, resources, allocations>>
  BY <1>4 DEF SubmitExecuted, SubmitRefused, tables, Driver!Accept
<1>5. ASSUME NEW d \in Device, NEW ops \in OpSeqs, NEW t, NEW value,
             SubmitFailed(d, ops, t, value)
      PROVE  UNCHANGED <<devices, resources, allocations>>
  BY <1>5 DEF SubmitFailed, tables, Driver!Reject, Driver!Fail, Driver!Lose,
              Driver!MarkFaulted
<1>6. ASSUME NEW g \in Gpu, AdminFault(g) \/ AdminClear(g)
      PROVE  UNCHANGED <<devices, resources, allocations>>
  BY <1>6 DEF AdminFault, AdminClear, Admin, tables, Driver!MarkFaulted,
              Driver!ResetDevice
<1>7. ASSUME NEW r \in 1 .. MaxAllocs PROVE ~AdminFree(r)
  BY DEF AdminFree, Admin
<1>8. CASE DeviceCalls
  BY <1>2, <1>3, <1>4, <1>5, <1>8 DEF DeviceCalls
<1> QED
  BY <1>1, <1>6, <1>7, <1>8 DEF Next

LEMMA DevicesStep ==
  ASSUME DevicesCounted, [Next]_vars
  PROVE  DevicesCounted'
<1> USE DEF DevicesCounted
<1>1. ASSUME NEW g, NEW caps, CreateDevice(g, caps)
      PROVE  DevicesCounted'
  <2>1. /\ count' = [count EXCEPT !["device"] = @ + 1]
        /\ devices' = Insert(devices, count.device + 1, g)
    BY <1>1 DEF CreateDevice, Counted, NewId
  <2>2. DOMAIN devices' = DOMAIN devices \cup {count.device + 1}
    BY <2>1 DEF Insert
  <2>3. /\ count' \in [device : Nat, shader : Nat, pipeline : Nat, timeline : Nat]
        /\ count'.device = count.device + 1
    BY <2>1
  <2> QED
    BY <2>2, <2>3
<1>2. CASE Next /\ DOMAIN devices' \subseteq DOMAIN devices
  <2>1. ASSUME NEW kind \in {"device", "shader", "pipeline", "timeline"},
               Counted(kind)
        PROVE  /\ count' \in [device : Nat, shader : Nat, pipeline : Nat,
                               timeline : Nat]
               /\ count'.device >= count.device
    BY <2>1 DEF Counted
  <2>2. \/ \E kind \in {"device", "shader", "pipeline", "timeline"} : Counted(kind)
        \/ UNCHANGED count
    BY <1>2, StepCounts DEF CreateTimeline
  <2> QED
    BY <1>2, <2>1, <2>2
<1>3. CASE UNCHANGED vars
  BY <1>3 DEF vars, tables
<1> QED
  BY <1>1, <1>2, <1>3, StepChangesDevices

LEMMA BackedStep ==
  ASSUME "free_vram" \notin AdminCalls, BackedInv, [Next]_vars
  PROVE  ResourcesBacked'
<1> USE DEF BackedInv, ResourcesBacked
<1>1. ASSUME NEW g \in Gpu \cup {UnknownGpu}, NEW caps \in CapSets,
             CreateDevice(g, caps)
      PROVE  ResourcesBacked'
  <2>1. /\ devices' = Insert(devices, count.device + 1, g)
        /\ UNCHANGED <<resources, allocations>>
    BY <1>1 DEF CreateDevice, NewId, Driver!OtherCall
  <2>2. \A d \in DOMAIN devices : devices'[d] = devices[d]
    BY <2>1 DEF DevicesCounted, Insert
  <2> QED
    BY <2>1, <2>2 DEF ObjectsHaveDevices, IsDevice
<1>2. ASSUME NEW d \in Device, NEW kind \in Kinds, CreateResource(d, kind)
      PROVE  ResourcesBacked'
  <2>1. PICK a : /\ resources' = Insert(resources, a, [device |-> d, kind |-> kind])
                 /\ a \in DOMAIN allocations'
                 /\ allocations'[a].gpu = devices[d]
                 /\ \A b \in DOMAIN allocations \ {a} :
                      b \in DOMAIN allocations' /\ allocations'[b] = allocations[b]
                 /\ UNCHANGED devices
    <3>1. resources' = Insert(resources, issued', [device |-> d, kind |-> kind])
      BY <1>2 DEF CreateResource
    <3>2. allocations' = Insert(allocations, issued',
                                [gpu |-> devices[d], size |-> ResourceSize(kind)])
      BY <1>2 DEF CreateResource, Driver!AllocateVram, Insert, Driver!Insert
    <3>3. UNCHANGED devices
      BY <1>2 DEF CreateResource
    <3> HIDE DEF ResourcesBacked
    <3> QED
      BY <3>1, <3>2, <3>3 DEF Insert
  <2>2. /\ DOMAIN resources' = DOMAIN resources \cup {a}
        /\ resources'[a].device = d
        /\ \A r \in DOMAIN resources \ {a} : resources'[r] = resources[r]
    BY <2>1 DEF Insert
  <2> QED
    BY <2>1, <2>2
<1>3. ASSUME NEW q \in 1 .. MaxAllocs, FreeResource(q)
      PROVE  ResourcesBacked'
  <2>1. /\ DOMAIN resources' = DOMAIN resources \ {q}
        /\ \A r \in DOMAIN resources' : resources'[r] = resources[r]
        /\ UNCHANGED devices
    BY <1>3, RemoveTable DEF FreeResource
  <2>2. \A b \in DOMAIN allocations \ {q} :
          b \in DOMAIN allocations' /\ allocations'[b] = allocations[b]
    BY <1>3 DEF FreeResource, Driver!FreeVram, Driver!Remove, Driver!Restrict,
                Driver!OtherCall
  <2> QED
    BY <2>1, <2>2
<1>4. ASSUME NEW d \in Device, NEW caps \in CapSets, RecoverDevice(d, caps)
      PROVE  ResourcesBacked'
  <2>1. /\ \A e \in DOMAIN devices \ {d} : devices'[e] = devices[e]
        /\ UNCHANGED allocations
    BY <1>4, RemoveTable DEF RecoverDevice, Driver!ResetDevice
  <2>2. resources' = Survivors(resources, d)
    BY <1>4 DEF RecoverDevice
  <2>3. \A r \in DOMAIN resources' :
          r \in DOMAIN resources /\ resources'[r] = resources[r]
                                 /\ resources[r].device # d
    BY <2>2 DEF Survivors, Restrict
  <2> QED
    BY <2>1, <2>3 DEF ObjectsHaveDevices, IsDevice
<1>5. CASE UNCHANGED <<devices, resources, allocations>>
  BY <1>5
<1>6. CASE UNCHANGED vars
  BY <1>5, <1>6 DEF vars, tables, driverVars
<1> QED
  BY <1>1, <1>2, <1>3, <1>4, <1>5, <1>6, StepTouchesMemory

(***************************************************************************)
(* For any number of GPUs, devices and resources: unless the administrator *)
(* frees VRAM behind the runtime, every handle that still resolves is      *)
(* backed by an allocation on the GPU of its device.                       *)
(***************************************************************************)
THEOREM ResourcesStayBacked ==
  ASSUME "free_vram" \notin AdminCalls
  PROVE  Spec => []ResourcesBacked
<1>1. Init => BackedInv
  BY ObjectsInit DEF Init, EmptyTable, BackedInv, DevicesCounted, ResourcesBacked
<1>2. BackedInv /\ [Next]_vars => BackedInv'
  BY DevicesStep, ObjectsStep, BackedStep DEF BackedInv
<1>3. BackedInv => ResourcesBacked
  BY DEF BackedInv
<1> QED
  BY <1>1, <1>2, <1>3, PTL DEF Spec

-----------------------------------------------------------------------------
(***************************************************************************)
(* The ids of resources.  One is never given twice, so of those given so   *)
(* far a step keeps some, each with what it named.                         *)
(***************************************************************************)
IdsGiven == issued \in Nat /\ DOMAIN resources \subseteq 1 .. issued

NothingRebinds ==
  /\ issued <= issued'
  /\ \A r \in DOMAIN resources' \cap 1 .. issued :
       r \in DOMAIN resources /\ resources'[r] = resources[r]

LEMMA CreateAddsNewId ==
  ASSUME IdsGiven, NEW d, NEW kind, CreateResource(d, kind)
  PROVE  IdsGiven' /\ NothingRebinds
<1>1. /\ issued' = issued + 1
      /\ resources' = Insert(resources, issued', [device |-> d, kind |-> kind])
  BY DEF CreateResource, Driver!AllocateVram
<1>2. /\ DOMAIN resources' = DOMAIN resources \cup {issued'}
      /\ \A r \in DOMAIN resources \ {issued'} : resources'[r] = resources[r]
  BY <1>1 DEF Insert
<1> QED
  BY <1>1, <1>2 DEF IdsGiven, NothingRebinds

LEMMA FreeTakesId ==
  ASSUME IdsGiven, NEW q, FreeResource(q)
  PROVE  IdsGiven' /\ NothingRebinds
<1>1. /\ DOMAIN resources' \subseteq DOMAIN resources
      /\ \A r \in DOMAIN resources' : resources'[r] = resources[r]
  BY RemoveTable DEF FreeResource
<1>2. UNCHANGED issued
  BY DEF FreeResource, Driver!FreeVram, Driver!OtherCall
<1> QED
  BY <1>1, <1>2 DEF IdsGiven, NothingRebinds

(* What is issued, is issued by create_resource.                           *)
LEMMA StepIssues ==
  ASSUME Next
  PROVE  \/ \E d \in Device, kind \in Kinds : CreateResource(d, kind)
         \/ UNCHANGED issued
<1> USE DEF Driver!OtherCall
<1>1. ASSUME NEW g \in Gpu \cup {UnknownGpu}, NEW caps \in CapSets,
             CreateDevice(g, caps) \/ CreateDeviceRefused(g, caps)
      PROVE  UNCHANGED issued
  BY <1>1 DEF CreateDevice, CreateDeviceRefused
<1>2. ASSUME NEW d \in Device,
             \/ CreateTimeline(d) \/ CreateShaderModule(d)
             \/ \E s \in 1 .. MaxShaders : CreatePipeline(d, s)
      PROVE  UNCHANGED issued
  BY <1>2 DEF CreateTimeline, CreateShaderModule, CreatePipeline
<1>3. ASSUME NEW d \in Device, NEW caps \in CapSets,
             RecoverDevice(d, caps) \/ RecoverDeviceRefused(d, caps)
      PROVE  UNCHANGED issued
  BY <1>3 DEF RecoverDevice, RecoverDeviceRefused, Driver!ResetDevice
<1>4. ASSUME NEW d \in Device, NEW ops \in OpSeqs, NEW t, NEW value,
             \/ SubmitExecuted(d, ops, t, value)
             \/ SubmitRefused(d, ops, t, value)
      PROVE  UNCHANGED issued
  BY <1>4 DEF SubmitExecuted, SubmitRefused, Driver!Accept
<1>5. ASSUME NEW d \in Device, NEW ops \in OpSeqs, NEW t, NEW value,
             SubmitFailed(d, ops, t, value)
      PROVE  UNCHANGED issued
  BY <1>5 DEF SubmitFailed, Driver!Reject, Driver!Fail, Driver!Lose,
              Driver!MarkFaulted
<1>6. ASSUME NEW r \in 1 .. MaxAllocs, FreeResource(r) \/ AdminFree(r)
      PROVE  UNCHANGED issued
  BY <1>6 DEF FreeResource, AdminFree, Driver!FreeVram
<1>7. ASSUME NEW g \in Gpu, AdminFault(g) \/ AdminClear(g)
      PROVE  UNCHANGED issued
  BY <1>7 DEF AdminFault, AdminClear, Driver!MarkFaulted, Driver!ResetDevice
<1>8. CASE DeviceCalls
  BY <1>2, <1>3, <1>4, <1>5, <1>8 DEF DeviceCalls
<1> QED
  BY <1>1, <1>6, <1>7, <1>8 DEF Next

LEMMA RuntimeKeepsNames ==
  ASSUME IdsGiven, Next
  PROVE  IdsGiven' /\ NothingRebinds
<1>1. ASSUME NEW d \in Device, NEW kind \in Kinds, CreateResource(d, kind)
      PROVE  IdsGiven' /\ NothingRebinds
  BY <1>1, CreateAddsNewId
<1>2. ASSUME UNCHANGED issued,
             DOMAIN resources' \subseteq DOMAIN resources,
             \A r \in DOMAIN resources' : resources'[r] = resources[r]
      PROVE  IdsGiven' /\ NothingRebinds
  BY <1>2 DEF IdsGiven, NothingRebinds
<1>3. ASSUME NEW r \in 1 .. MaxAllocs, FreeResource(r)
      PROVE  IdsGiven' /\ NothingRebinds
  BY <1>3, FreeTakesId
<1>4. ASSUME NEW g \in Gpu \cup {UnknownGpu}, NEW caps \in CapSets,
             CreateDevice(g, caps)
      PROVE  UNCHANGED resources
  BY <1>4 DEF CreateDevice
<1>5. ASSUME NEW d \in Device,
             CreateShaderModule(d) \/ \E s \in 1 .. MaxShaders : CreatePipeline(d, s)
      PROVE  UNCHANGED resources
  BY <1>5 DEF CreateShaderModule, CreatePipeline
<1>6. ASSUME NEW d \in Device, NEW caps \in CapSets, RecoverDevice(d, caps)
      PROVE  /\ DOMAIN resources' \subseteq DOMAIN resources
             /\ \A r \in DOMAIN resources' : resources'[r] = resources[r]
  <2>1. resources' = Survivors(resources, d)
    BY <1>6 DEF RecoverDevice
  <2> QED
    BY <2>1 DEF Survivors, Restrict
<1>7. ASSUME UNCHANGED objects PROVE UNCHANGED resources
  BY <1>7 DEF objects
<1> QED
  BY <1>1, <1>2, <1>3, <1>4, <1>5, <1>6, <1>7, StepChangesObjects, StepIssues

-----------------------------------------------------------------------------
(***************************************************************************)
(* The driver.  The runtime makes only calls of the contract, for GPUs it  *)
(* has, so that the accounting of the contract is that of the runtime.     *)
(***************************************************************************)
DevicesKnown == \A d \in DOMAIN devices : devices[d] \in Gpu

LEMMA SizeIsUsize ==
  ASSUME NEW kind \in Kinds
  PROVE  ResourceSize(kind) \in Usize
<1>1. \A n \in Nat : n % UsizeModulus \in Usize
  BY GraphicsRuntimeAssumption DEF Usize
<1>2. CASE kind.type = "Buffer"
  BY <1>2, GraphicsRuntimeAssumption DEF ResourceKind, ResourceSize
<1>3. CASE kind.type # "Buffer"
  <2>1. kind.width \in Nat /\ kind.height \in Nat /\ kind.depth \in Nat
    BY <1>3, GraphicsRuntimeAssumption DEF ResourceKind
  <2>2. bytes_per_pixel(kind.format) \in Nat
    BY DEF bytes_per_pixel
  <2>3. kind.width * kind.height * kind.depth * bytes_per_pixel(kind.format) \in Nat
    BY <2>1, <2>2
  <2> QED
    BY <1>1, <1>3, <2>3 DEF ResourceSize
<1> QED
  BY <1>2, <1>3

LEMMA StepIsDriverCall ==
  ASSUME DevicesKnown, [Next]_vars
  PROVE  [Driver!Next]_driverVars
<1> USE DEF DevicesKnown, IsDevice
<1>1. CASE Driver!OtherCall
  BY <1>1 DEF Driver!Next
<1>2. ASSUME NEW d \in Device, NEW kind \in Kinds, CreateResource(d, kind)
      PROVE  Driver!Next
  BY <1>2, SizeIsUsize DEF CreateResource, Driver!Next
<1>3. ASSUME NEW r \in 1 .. MaxAllocs, FreeResource(r) \/ AdminFree(r)
      PROVE  Driver!Next
  BY <1>3 DEF FreeResource, AdminFree, Driver!Next, Driver!AllocId
<1>4. ASSUME NEW d \in Device, NEW caps \in CapSets, RecoverDevice(d, caps)
      PROVE  Driver!Next
  BY <1>4 DEF RecoverDevice, Driver!Next
<1>5. ASSUME NEW d \in Device, NEW ops \in OpSeqs, NEW t, NEW value,
             SubmitExecuted(d, ops, t, value) \/ SubmitFailed(d, ops, t, value)
      PROVE  Driver!Next
  BY <1>5 DEF SubmitExecuted, SubmitFailed, Submittable, Driver!Next, Driver!Submit
<1>6. ASSUME NEW g \in Gpu, AdminFault(g) \/ AdminClear(g)
      PROVE  Driver!Next
  BY <1>6 DEF AdminFault, AdminClear, Driver!Next
<1>7. ASSUME NEW g, NEW caps, CreateDevice(g, caps) \/ CreateDeviceRefused(g, caps)
      PROVE  Driver!OtherCall
  BY <1>7 DEF CreateDevice, CreateDeviceRefused
<1>8. ASSUME NEW d, \/ CreateTimeline(d) \/ CreateShaderModule(d)
                    \/ \E s \in 1 .. MaxShaders : CreatePipeline(d, s)
                    \/ \E caps \in CapSets : RecoverDeviceRefused(d, caps)
      PROVE  Driver!OtherCall
  BY <1>8 DEF CreateTimeline, CreateShaderModule, CreatePipeline,
              RecoverDeviceRefused
<1>9. ASSUME NEW d, NEW ops, NEW t, NEW value, SubmitRefused(d, ops, t, value)
      PROVE  Driver!OtherCall
  BY <1>9 DEF SubmitRefused
<1>10. CASE DeviceCalls
  BY <1>1, <1>2, <1>4, <1>5, <1>8, <1>9, <1>10 DEF DeviceCalls
<1>11. CASE UNCHANGED vars
  BY <1>11 DEF vars
<1> QED
  BY <1>1, <1>3, <1>6, <1>7, <1>10, <1>11 DEF Next

LEMMA StepKeepsDevicesKnown ==
  ASSUME DevicesKnown, [Next]_vars
  PROVE  DevicesKnown'
<1> USE DEF DevicesKnown
<1>1. ASSUME NEW g, NEW caps, CreateDevice(g, caps)
      PROVE  DevicesKnown'
  <2>1. devices' = Insert(devices, NewId("device"), g) /\ g \in Gpu
    BY <1>1 DEF CreateDevice
  <2> QED
    BY <2>1 DEF Insert
<1>2. ASSUME NEW d, NEW caps, RecoverDevice(d, caps)
      PROVE  DevicesKnown'
  <2>1. devices' = Remove(devices, d)
    BY <1>2 DEF RecoverDevice
  <2> QED
    BY <2>1 DEF Remove, Restrict
<1>3. CASE UNCHANGED devices
  BY <1>3
<1>4. ASSUME NEW d,
             \/ \E kind \in Kinds : CreateResource(d, kind)
             \/ CreateShaderModule(d)
             \/ \E s \in 1 .. MaxShaders : CreatePipeline(d, s)
             \/ FreeResource(d) \/ UNCHANGED objects \/ UNCHANGED vars
      PROVE  UNCHANGED devices
  BY <1>4 DEF CreateResource, CreateShaderModule, CreatePipeline, FreeResource,
              objects, vars, tables
<1> QED
  BY <1>1, <1>2, <1>3, <1>4, StepChangesObjects

(***************************************************************************)
(* GraphicsRuntime uses its driver by the contract only.                   *)
(***************************************************************************)
THEOREM RuntimeKeepsContract == Spec => Driver!Spec
<1>1. Init => Driver!Init /\ DevicesKnown
  BY DEF Init, EmptyTable, DevicesKnown
<1>2. DevicesKnown /\ [Next]_vars => DevicesKnown'
  BY StepKeepsDevicesKnown
<1>3. DevicesKnown /\ [Next]_vars => [Driver!Next]_(Driver!driverVars)
  BY StepIsDriverCall DEF driverVars, Driver!driverVars
<1> QED
  BY <1>1, <1>2, <1>3, PTL DEF Spec, Driver!Spec

-----------------------------------------------------------------------------
(***************************************************************************)
(* So the bytes of every pool are accounted for below the runtime.  What   *)
(* the proofs below need of a state of the driver, they take from here.    *)
(***************************************************************************)
DriverKept == DevicesKnown /\ Accounts!Accounting

LEMMA DriverInit == ASSUME Init PROVE DriverKept
<1>1. DevicesKnown
  BY DEF Init, EmptyTable, DevicesKnown
<1>2. Accounts!Init
  BY DEF Init, EmptyTable, Driver!Init, Driver!NoReply, Accounts!Init,
         Accounts!EmptyTable, Accounts!NoReply, Driver!EmptyTable
<1>3. Accounts!GpuDriverAssumption
  BY GraphicsRuntimeAssumption DEF Usize, Accounts!GpuDriverAssumption
<1> QED
  BY <1>1, <1>2, <1>3, Accounts!InitAccounts DEF DriverKept

LEMMA DriverStep ==
  ASSUME DriverKept, [Next]_vars
  PROVE  DriverKept'
<1>1. DevicesKnown'
  BY StepKeepsDevicesKnown DEF DriverKept
<1>2. [Driver!Next]_driverVars
  BY StepIsDriverCall DEF DriverKept
<1>3. [Accounts!Next]_(Accounts!driverVars)
  BY <1>2 DEF driverVars, Driver!Next, Driver!AllocateVram, Driver!Fits,
     Driver!Insert, Driver!FreeVram, Driver!Remove, Driver!Restrict,
     Driver!Submit, Driver!Accept, Driver!Reject, Driver!Fail, Driver!Lose,
     Driver!MarkFaulted, Driver!ResetDevice, Driver!OtherCall, Driver!NoReply,
     Driver!AllocId,
     Accounts!Next, Accounts!AllocateVram, Accounts!Fits, Accounts!Insert,
     Accounts!FreeVram, Accounts!Remove, Accounts!Restrict, Accounts!Submit,
     Accounts!Accept, Accounts!Reject, Accounts!Fail, Accounts!Lose,
     Accounts!MarkFaulted, Accounts!ResetDevice, Accounts!OtherCall,
     Accounts!NoReply, Accounts!AllocId, Accounts!driverVars
<1>4. Accounts!GpuDriverAssumption
  BY GraphicsRuntimeAssumption DEF Usize, Accounts!GpuDriverAssumption
<1>5. Accounts!Accounting'
  BY <1>3, <1>4, Accounts!StepKeepsAccounting DEF DriverKept
<1> QED
  BY <1>1, <1>5 DEF DriverKept

(* What the accounting says of the driver's types.                         *)
LEMMA DriverTyped == ASSUME DriverKept PROVE Driver!TypeOK
BY DEF DriverKept, Accounts!Accounting, Accounts!TypeOK, Accounts!Allocation,
       Accounts!IsTable, Accounts!Reply, Accounts!NoReply, Accounts!Outcome,
       Driver!TypeOK, Driver!Allocation, Driver!IsTable, Driver!Reply,
       Driver!NoReply, Driver!Outcome

(***************************************************************************)
(* Whatever devices come and go and are recovered, and whatever the        *)
(* administrator does behind the runtime: every byte of every pool is free *)
(* or held by exactly one allocation.                                      *)
(***************************************************************************)
THEOREM RuntimePoolsAccounted == Spec => []Accounts!VramAccounting
<1>1. DriverKept => Accounts!VramAccounting
  BY DEF DriverKept, Accounts!Accounting, Accounts!Accounted,
         Accounts!VramAccounting
<1>2. Init => DriverKept
  BY DriverInit
<1>3. DriverKept /\ [Next]_vars => DriverKept'
  BY DriverStep
<1> QED
  BY <1>1, <1>2, <1>3, PTL DEF Spec

-----------------------------------------------------------------------------
(***************************************************************************)
(* Faults.  A step changes the fault of at most one GPU: of the one whose  *)
(* device submitted or was recovered, or that the hook named.              *)
(***************************************************************************)
ChangesFault(g, fault) == faulted' = [faulted EXCEPT ![g] = fault]

LEMMA StepChangesFaults ==
  ASSUME Next
  PROVE  \/ \E d \in DOMAIN devices :
              /\ ChangesFault(devices[d], TRUE)
              /\ call' = [op |-> "submit", actor |-> d, granted |-> TRUE]
         \/ \E d \in DOMAIN devices :
              /\ ChangesFault(devices[d], FALSE)
              /\ call' = [op |-> "recover_device", actor |-> d, granted |-> TRUE]
         \/ \E g \in Gpu, fault \in BOOLEAN :
              /\ ChangesFault(g, fault)
              /\ call' = [op |-> "driver_mut", actor |-> g, granted |-> TRUE]
         \/ UNCHANGED faulted
<1> USE DEF Driver!OtherCall
<1>1. ASSUME NEW g \in Gpu \cup {UnknownGpu}, NEW caps \in CapSets,
             CreateDevice(g, caps) \/ CreateDeviceRefused(g, caps)
      PROVE  UNCHANGED faulted
  BY <1>1 DEF CreateDevice, CreateDeviceRefused
<1>2. ASSUME NEW d \in Device,
             \/ CreateTimeline(d) \/ CreateShaderModule(d)
             \/ \E s \in 1 .. MaxShaders : CreatePipeline(d, s)
             \/ \E kind \in Kinds : CreateResource(d, kind)
             \/ \E caps \in CapSets : RecoverDeviceRefused(d, caps)
      PROVE  UNCHANGED faulted
  BY <1>2 DEF CreateTimeline, CreateShaderModule, CreatePipeline, CreateResource,
              RecoverDeviceRefused, Driver!AllocateVram
<1>3. ASSUME NEW d \in Device, NEW caps \in CapSets, RecoverDevice(d, caps)
      PROVE  /\ d \in DOMAIN devices
             /\ ChangesFault(devices[d], FALSE)
             /\ call' = [op |-> "recover_device", actor |-> d, granted |-> TRUE]
  BY <1>3 DEF RecoverDevice, MayRecover, IsDevice, Logged, Driver!ResetDevice,
              ChangesFault, Grants
<1>4. ASSUME NEW d \in Device, NEW ops \in OpSeqs, NEW t, NEW value,
             \/ SubmitExecuted(d, ops, t, value)
             \/ SubmitRefused(d, ops, t, value)
      PROVE  UNCHANGED faulted
  BY <1>4 DEF SubmitExecuted, SubmitRefused, Driver!Accept
<1>5. ASSUME NEW d \in Device, NEW ops \in OpSeqs, NEW t, NEW value,
             SubmitFailed(d, ops, t, value)
      PROVE  /\ d \in DOMAIN devices
             /\ ChangesFault(devices[d], TRUE) \/ UNCHANGED faulted
             /\ call' = [op |-> "submit", actor |-> d, granted |-> TRUE]
  BY <1>5 DEF SubmitFailed, Submittable, IsDevice, Logged, Driver!Reject,
              Driver!Fail, Driver!Lose, Driver!MarkFaulted, ChangesFault
<1>6. ASSUME NEW r \in 1 .. MaxAllocs, FreeResource(r) \/ AdminFree(r)
      PROVE  UNCHANGED faulted
  BY <1>6 DEF FreeResource, AdminFree, Driver!FreeVram
<1>7. ASSUME NEW g \in Gpu, AdminFault(g) \/ AdminClear(g)
      PROVE  /\ \E fault \in BOOLEAN : ChangesFault(g, fault)
             /\ call' = [op |-> "driver_mut", actor |-> g, granted |-> TRUE]
  BY <1>7 DEF AdminFault, AdminClear, Admin, Driver!MarkFaulted,
              Driver!ResetDevice, ChangesFault
<1>8. CASE DeviceCalls
  BY <1>2, <1>3, <1>4, <1>5, <1>8 DEF DeviceCalls
<1> QED
  BY <1>1, <1>6, <1>7, <1>8 DEF Next

(***************************************************************************)
(* For any GPUs, devices and callers: a GPU faults only with a submission  *)
(* of one of its own devices, and is healed only by a granted recovery of  *)
(* one; the administrator's hooks do either.                               *)
(***************************************************************************)
THEOREM FaultsAreCaused == Spec => FaultsHaveCause
<1>1. ASSUME DriverKept, [Next]_vars PROVE [FaultCaused]_vars
  <2>1. faulted \in [Gpu -> BOOLEAN]
    BY <1>1, DriverTyped DEF Driver!TypeOK
  <2>2. ASSUME NEW h \in Gpu, NEW fault \in BOOLEAN, ChangesFault(h, fault)
        PROVE  /\ \A g \in Gpu \ {h} : faulted'[g] = faulted[g]
               /\ faulted'[h] = fault
    BY <2>1, <2>2 DEF ChangesFault
  <2>3. \A d \in DOMAIN devices : devices[d] \in Gpu
    BY <1>1 DEF DriverKept, DevicesKnown
  <2>4. CASE Next
    <3>1. ASSUME NEW d \in DOMAIN devices, NEW fault \in BOOLEAN,
                 ChangesFault(devices[d], fault),
                 call' = [op |-> IF fault THEN "submit" ELSE "recover_device",
                          actor |-> d, granted |-> TRUE]
          PROVE  FaultCaused
      <4>1. /\ \A g \in Gpu \ {devices[d]} : faulted'[g] = faulted[g]
            /\ faulted'[devices[d]] = fault
        BY <2>2, <2>3, <3>1
      <4> QED
        BY <3>1, <4>1 DEF FaultCaused
    <3>2. ASSUME NEW h \in Gpu, NEW fault \in BOOLEAN, ChangesFault(h, fault),
                 call' = [op |-> "driver_mut", actor |-> h, granted |-> TRUE]
          PROVE  FaultCaused
      BY <2>2, <3>2 DEF FaultCaused
    <3>3. CASE UNCHANGED faulted
      BY <3>3 DEF FaultCaused
    <3> QED
      BY <2>4, <3>1, <3>2, <3>3, StepChangesFaults
  <2> QED
    BY <1>1, <2>4
<1> QED
  BY <1>1, DriverInit, DriverStep, PTL DEF Spec, FaultsHaveCause

-----------------------------------------------------------------------------
(***************************************************************************)
(* Types.  The counts only grow, and with them the ids a table may have.   *)
(* One part for each table, and one lemma for each part.                   *)
(***************************************************************************)
Counts == [device : Nat, shader : Nat, pipeline : Nat, timeline : Nat]

DevicesTyped ==
  /\ DOMAIN devices \subseteq 1 .. count.device
  /\ DOMAIN deviceCaps = DOMAIN devices
  /\ \A d \in DOMAIN deviceCaps : deviceCaps[d] \in CapSets

ResourcesTyped ==
  /\ DOMAIN resources \subseteq 1 .. issued
  /\ \A r \in DOMAIN resources :
       resources[r] \in [device : 1 .. count.device, kind : Kinds]

ShadersTyped ==
  /\ DOMAIN shaders \subseteq 1 .. count.shader
  /\ \A s \in DOMAIN shaders : shaders[s] \in [device : 1 .. count.device]

PipelinesTyped ==
  /\ DOMAIN pipelines \subseteq 1 .. count.pipeline
  /\ \A p \in DOMAIN pipelines :
       pipelines[p] \in [device : 1 .. count.device, shader : 1 .. count.shader]

TimelinesTyped ==
  /\ DOMAIN timelines = 1 .. count.timeline
  /\ \A t \in DOMAIN timelines : timelines[t] \in 0 .. MaxValue
  /\ DOMAIN timelineDevice = DOMAIN timelines
  /\ \A t \in DOMAIN timelineDevice : timelineDevice[t] \in 1 .. count.device

CallTyped ==
  call \in [op : {"other", "create_device", "submit", "recover_device", "driver_mut"},
            actor : Nat \cup Gpu \cup {UnknownGpu}, granted : BOOLEAN]

TablesTyped ==
  /\ count \in Counts
  /\ DevicesTyped /\ ResourcesTyped /\ ShadersTyped /\ PipelinesTyped
  /\ TimelinesTyped

LEMMA CountsGrow ==
  ASSUME count \in Counts, Next
  PROVE  /\ count' \in Counts
         /\ count.device <= count'.device /\ count.shader <= count'.shader
         /\ count.pipeline <= count'.pipeline
         /\ count.timeline <= count'.timeline
<1>1. ASSUME NEW kind \in {"device", "shader", "pipeline", "timeline"}, Counted(kind)
      PROVE  /\ count' \in Counts
             /\ count.device <= count'.device /\ count.shader <= count'.shader
             /\ count.pipeline <= count'.pipeline
             /\ count.timeline <= count'.timeline
  BY <1>1 DEF Counts, Counted
<1>2. \A d : CreateTimeline(d) => Counted("timeline")
  BY DEF CreateTimeline
<1>3. CASE UNCHANGED count
  BY <1>3 DEF Counts
<1> QED
  BY <1>1, <1>2, <1>3, StepCounts

LEMMA StepKeepsDevicesTyped ==
  ASSUME TablesTyped, Next
  PROVE  DevicesTyped'
<1> USE DEF DevicesTyped
<1>0. count.device <= count'.device /\ count \in Counts /\ count' \in Counts
  BY CountsGrow DEF TablesTyped
<1>1. ASSUME NEW g, NEW caps \in CapSets, CreateDevice(g, caps)
      PROVE  DevicesTyped'
  <2>1. /\ count' = [count EXCEPT !["device"] = @ + 1]
        /\ devices' = Insert(devices, count.device + 1, g)
        /\ deviceCaps' = Insert(deviceCaps, count.device + 1, caps)
    BY <1>1 DEF CreateDevice, Counted, NewId
  <2>2. /\ DOMAIN devices' = DOMAIN devices \cup {count.device + 1}
        /\ DOMAIN deviceCaps' = DOMAIN deviceCaps \cup {count.device + 1}
        /\ deviceCaps'[count.device + 1] = caps
        /\ \A x \in DOMAIN deviceCaps \ {count.device + 1} :
             deviceCaps'[x] = deviceCaps[x]
    BY <2>1 DEF Insert
  <2>3. count'.device = count.device + 1 /\ count.device \in Nat
    BY <1>0, <2>1 DEF Counts
  <2>4. DOMAIN devices' \subseteq 1 .. count'.device
    BY <2>2, <2>3 DEF TablesTyped
  <2> QED
    BY <2>2, <2>4 DEF TablesTyped
<1>2. ASSUME /\ DOMAIN devices' \subseteq DOMAIN devices
             /\ DOMAIN deviceCaps' = DOMAIN devices'
             /\ \A x \in DOMAIN deviceCaps' : deviceCaps'[x] = deviceCaps[x]
      PROVE  DevicesTyped'
  <2>1. DOMAIN devices' \subseteq 1 .. count'.device
    BY <1>0, <1>2 DEF TablesTyped, Counts
  <2> QED
    BY <1>2, <2>1 DEF TablesTyped
<1>3. ASSUME NEW d, NEW caps, RecoverDevice(d, caps)
      PROVE  DevicesTyped'
  <2>1. devices' = Remove(devices, d) /\ deviceCaps' = Remove(deviceCaps, d)
    BY <1>3 DEF RecoverDevice
  <2>2. /\ DOMAIN devices' = DOMAIN devices \ {d}
        /\ DOMAIN deviceCaps' = DOMAIN deviceCaps \ {d}
        /\ \A x \in DOMAIN deviceCaps' : deviceCaps'[x] = deviceCaps[x]
    BY <2>1, RemoveTable
  <2> QED
    BY <1>2, <2>2 DEF TablesTyped
<1>4. ASSUME NEW d,
             \/ \E kind \in Kinds : CreateResource(d, kind)
             \/ CreateShaderModule(d)
             \/ \E s \in 1 .. MaxShaders : CreatePipeline(d, s)
             \/ FreeResource(d) \/ UNCHANGED objects
      PROVE  UNCHANGED <<devices, deviceCaps>>
  BY <1>4 DEF CreateResource, CreateShaderModule, CreatePipeline, FreeResource,
              objects
<1>5. CASE UNCHANGED <<devices, deviceCaps>>
  BY <1>2, <1>5 DEF TablesTyped
<1> QED
  BY <1>1, <1>3, <1>4, <1>5, StepChangesObjects

(* An object is made on a device that is there, or stays what it was.      *)
LEMMA StepKeepsResourcesTyped ==
  ASSUME TablesTyped, issued \in Nat, Next
  PROVE  ResourcesTyped'
<1>1. IdsGiven' /\ NothingRebinds
  BY RuntimeKeepsNames DEF TablesTyped, ResourcesTyped, IdsGiven
<1>2. 1 .. count.device \subseteq 1 .. count'.device
  BY CountsGrow DEF TablesTyped, Counts
<1>3. ASSUME NEW d \in Device, NEW kind \in Kinds, CreateResource(d, kind)
      PROVE  ResourcesTyped'
  <2>1. /\ d \in 1 .. count.device
        /\ resources' = Insert(resources, issued', [device |-> d, kind |-> kind])
    BY <1>3 DEF CreateResource, IsDevice, TablesTyped, DevicesTyped
  <2>2. /\ DOMAIN resources' = DOMAIN resources \cup {issued'}
        /\ resources'[issued'] = [device |-> d, kind |-> kind]
        /\ \A x \in DOMAIN resources \ {issued'} : resources'[x] = resources[x]
    BY <2>1 DEF Insert
  <2> QED
    BY <1>1, <1>2, <2>1, <2>2 DEF TablesTyped, ResourcesTyped, IdsGiven
<1>4. CASE UNCHANGED issued
  BY <1>1, <1>2, <1>4 DEF TablesTyped, ResourcesTyped, IdsGiven, NothingRebinds
<1> QED
  BY <1>3, <1>4, StepIssues

LEMMA StepKeepsShadersTyped ==
  ASSUME TablesTyped, Next
  PROVE  ShadersTyped'
<1>0. /\ count.device <= count'.device /\ count.shader <= count'.shader
      /\ count \in Counts /\ count' \in Counts
  BY CountsGrow DEF TablesTyped
<1>1. ASSUME NEW d \in Device, CreateShaderModule(d)
      PROVE  ShadersTyped'
  <2>1. /\ count' = [count EXCEPT !["shader"] = @ + 1]
        /\ shaders' = Insert(shaders, count.shader + 1, [device |-> d])
        /\ d \in 1 .. count.device
    BY <1>1 DEF CreateShaderModule, Counted, NewId, IsDevice, TablesTyped,
                DevicesTyped
  <2>2. /\ DOMAIN shaders' = DOMAIN shaders \cup {count.shader + 1}
        /\ shaders'[count.shader + 1] = [device |-> d]
        /\ \A x \in DOMAIN shaders \ {count.shader + 1} : shaders'[x] = shaders[x]
    BY <2>1 DEF Insert
  <2>3. count'.shader = count.shader + 1 /\ count.shader \in Nat
    BY <1>0, <2>1 DEF Counts
  <2>4. DOMAIN shaders' \subseteq 1 .. count'.shader
    BY <2>2, <2>3 DEF TablesTyped, ShadersTyped
  <2>5. 1 .. count.device \subseteq 1 .. count'.device
    BY <1>0 DEF Counts
  <2> QED
    BY <2>1, <2>2, <2>4, <2>5 DEF TablesTyped, ShadersTyped
<1>2. ASSUME /\ DOMAIN shaders' \subseteq DOMAIN shaders
             /\ \A x \in DOMAIN shaders' : shaders'[x] = shaders[x]
      PROVE  ShadersTyped'
  <2>1. /\ 1 .. count.device \subseteq 1 .. count'.device
        /\ 1 .. count.shader \subseteq 1 .. count'.shader
    BY <1>0 DEF Counts
  <2> QED
    BY <1>2, <2>1 DEF TablesTyped, ShadersTyped
<1>3. ASSUME NEW d, NEW caps, RecoverDevice(d, caps)
      PROVE  /\ DOMAIN shaders' \subseteq DOMAIN shaders
             /\ \A x \in DOMAIN shaders' : shaders'[x] = shaders[x]
  <2>1. shaders' = Survivors(shaders, d)
    BY <1>3 DEF RecoverDevice
  <2> QED
    BY <2>1 DEF Survivors, Restrict
<1>4. ASSUME NEW d,
             \/ \E caps \in CapSets : CreateDevice(d, caps)
             \/ \E kind \in Kinds : CreateResource(d, kind)
             \/ \E s \in 1 .. MaxShaders : CreatePipeline(d, s)
             \/ FreeResource(d) \/ UNCHANGED objects
      PROVE  UNCHANGED shaders
  BY <1>4 DEF CreateDevice, CreateResource, CreatePipeline, FreeResource, objects
<1> QED
  BY <1>1, <1>2, <1>3, <1>4, StepChangesObjects

LEMMA StepKeepsPipelinesTyped ==
  ASSUME TablesTyped, Next
  PROVE  PipelinesTyped'
<1>0. /\ count.device <= count'.device /\ count.shader <= count'.shader
      /\ count.pipeline <= count'.pipeline
      /\ count \in Counts /\ count' \in Counts
  BY CountsGrow DEF TablesTyped
<1>1. /\ 1 .. count.device \subseteq 1 .. count'.device
      /\ 1 .. count.shader \subseteq 1 .. count'.shader
      /\ 1 .. count.pipeline \subseteq 1 .. count'.pipeline
  BY <1>0 DEF Counts
<1>2. ASSUME NEW d \in Device, NEW s \in 1 .. MaxShaders, CreatePipeline(d, s)
      PROVE  PipelinesTyped'
  <2> DEFINE new == [device |-> d, shader |-> s]
  <2>1. /\ count' = [count EXCEPT !["pipeline"] = @ + 1]
        /\ pipelines' = Insert(pipelines, count.pipeline + 1, new)
    BY <1>2 DEF CreatePipeline, Counted, NewId
  <2>2. d \in 1 .. count.device /\ s \in 1 .. count.shader
    BY <1>2 DEF CreatePipeline, IsDevice, TablesTyped, DevicesTyped, ShadersTyped
  <2>3. /\ DOMAIN pipelines' = DOMAIN pipelines \cup {count.pipeline + 1}
        /\ pipelines'[count.pipeline + 1] = new
        /\ \A x \in DOMAIN pipelines \ {count.pipeline + 1} :
             pipelines'[x] = pipelines[x]
    BY <2>1 DEF Insert
  <2>4. count'.pipeline = count.pipeline + 1 /\ count.pipeline \in Nat
    BY <1>0, <2>1 DEF Counts
  <2>5. DOMAIN pipelines' \subseteq 1 .. count'.pipeline
    BY <2>3, <2>4 DEF TablesTyped, PipelinesTyped
  <2> QED
    BY <1>1, <2>2, <2>3, <2>5 DEF TablesTyped, PipelinesTyped
<1>3. ASSUME /\ DOMAIN pipelines' \subseteq DOMAIN pipelines
             /\ \A x \in DOMAIN pipelines' : pipelines'[x] = pipelines[x]
      PROVE  PipelinesTyped'
  BY <1>3, <1>1 DEF TablesTyped, PipelinesTyped
<1>4. ASSUME NEW d, NEW caps, RecoverDevice(d, caps)
      PROVE  /\ DOMAIN pipelines' \subseteq DOMAIN pipelines
             /\ \A x \in DOMAIN pipelines' : pipelines'[x] = pipelines[x]
  <2>1. pipelines' = Survivors(pipelines, d)
    BY <1>4 DEF RecoverDevice
  <2> QED
    BY <2>1 DEF Survivors, Restrict
<1>5. ASSUME NEW d,
             \/ \E caps \in CapSets : CreateDevice(d, caps)
             \/ \E kind \in Kinds : CreateResource(d, kind)
             \/ CreateShaderModule(d)
             \/ FreeResource(d) \/ UNCHANGED objects
      PROVE  UNCHANGED pipelines
  BY <1>5 DEF CreateDevice, CreateResource, CreateShaderModule, FreeResource,
              objects
<1> QED
  BY <1>2, <1>3, <1>4, <1>5, StepChangesObjects

(* The device of a timeline is written when it is created, and never again. *)
LEMMA StepKeepsTimelineDevice ==
  ASSUME Next
  PROVE  (\E d \in Device : CreateTimeline(d)) \/ UNCHANGED timelineDevice
<1>1. ASSUME NEW g \in Gpu \cup {UnknownGpu}, NEW caps \in CapSets,
             CreateDevice(g, caps) \/ CreateDeviceRefused(g, caps)
      PROVE  UNCHANGED timelineDevice
  BY <1>1 DEF CreateDevice, CreateDeviceRefused
<1>2. ASSUME NEW d \in Device,
             \/ CreateShaderModule(d)
             \/ \E kind \in Kinds : CreateResource(d, kind)
             \/ \E s \in 1 .. MaxShaders : CreatePipeline(d, s)
             \/ \E caps \in CapSets : RecoverDevice(d, caps)
                                      \/ RecoverDeviceRefused(d, caps)
      PROVE  UNCHANGED timelineDevice
  BY <1>2 DEF CreateShaderModule, CreateResource, CreatePipeline, RecoverDevice,
              RecoverDeviceRefused
<1>3. ASSUME NEW d \in Device, NEW ops \in OpSeqs, NEW t, NEW value,
             \/ SubmitExecuted(d, ops, t, value)
             \/ SubmitFailed(d, ops, t, value)
             \/ SubmitRefused(d, ops, t, value)
      PROVE  UNCHANGED timelineDevice
  BY <1>3 DEF SubmitExecuted, SubmitFailed, SubmitRefused
<1>4. ASSUME NEW r, FreeResource(r) \/ AdminFree(r) \/ AdminFault(r) \/ AdminClear(r)
      PROVE  UNCHANGED timelineDevice
  BY <1>4 DEF FreeResource, AdminFree, AdminFault, AdminClear, Admin
<1>5. CASE DeviceCalls
  BY <1>2, <1>3, <1>5 DEF DeviceCalls
<1> QED
  BY <1>1, <1>4, <1>5 DEF Next

LEMMA StepKeepsTimelinesTyped ==
  ASSUME TablesTyped, Next
  PROVE  TimelinesTyped'
<1>0. 1 .. count.device \subseteq 1 .. count'.device
  BY CountsGrow DEF TablesTyped, Counts
<1>1. ASSUME NEW d \in Device, CreateTimeline(d)
      PROVE  TimelinesTyped'
  <2> DEFINE t == count.timeline + 1
  <2>1. /\ count' = [count EXCEPT !["timeline"] = @ + 1]
        /\ timelines' = Insert(timelines, t, 0)
        /\ timelineDevice' = Insert(timelineDevice, t, d)
        /\ d \in 1 .. count.device
    BY <1>1 DEF CreateTimeline, Counted, NewId, IsDevice, TablesTyped, DevicesTyped
  <2>2. count'.timeline = t /\ count.timeline \in Nat
    BY <2>1 DEF TablesTyped, Counts
  <2>3. 1 .. t = (1 .. count.timeline) \cup {t}
    BY <2>2
  <2> HIDE DEF t
  <2>4. /\ DOMAIN timelines' = DOMAIN timelines \cup {t}
        /\ timelines'[t] = 0
        /\ \A x \in DOMAIN timelines \ {t} : timelines'[x] = timelines[x]
    BY <2>1 DEF Insert
  <2>5. /\ DOMAIN timelineDevice' = DOMAIN timelineDevice \cup {t}
        /\ timelineDevice'[t] = d
        /\ \A x \in DOMAIN timelineDevice \ {t} :
             timelineDevice'[x] = timelineDevice[x]
    BY <2>1 DEF Insert
  <2>6. 0 \in 0 .. MaxValue
    BY GraphicsRuntimeAssumption
  <2>7. /\ DOMAIN timelines' = 1 .. count'.timeline
        /\ DOMAIN timelineDevice' = DOMAIN timelines'
    BY <2>2, <2>3, <2>4, <2>5 DEF TablesTyped, TimelinesTyped
  <2>8. \A x \in DOMAIN timelines' : timelines'[x] \in 0 .. MaxValue
    BY <2>4, <2>6 DEF TablesTyped, TimelinesTyped
  <2>9. \A x \in DOMAIN timelineDevice' : timelineDevice'[x] \in 1 .. count'.device
    BY <1>0, <2>1, <2>5 DEF TablesTyped, TimelinesTyped
  <2> QED
    BY <2>7, <2>8, <2>9 DEF TimelinesTyped
<1>2. ASSUME ~ \E d \in Device : CreateTimeline(d)
      PROVE  TimelinesTyped'
  <2>1. UNCHANGED timelineDevice /\ count'.timeline = count.timeline
    <3>1. ASSUME NEW kind \in {"device", "shader", "pipeline"}, Counted(kind)
          PROVE  count'.timeline = count.timeline
      BY <3>1 DEF Counted, TablesTyped, Counts
    <3> QED
      BY <1>2, <3>1, StepCounts, StepKeepsTimelineDevice
  <2>2. ASSUME NEW d, NEW ops, NEW t, NEW value \in 0 .. MaxValue,
               SubmitExecuted(d, ops, t, value)
        PROVE  /\ DOMAIN timelines' = DOMAIN timelines
               /\ \A x \in DOMAIN timelines : timelines'[x] \in 0 .. MaxValue
    <3>1. t \in DOMAIN timelines /\ timelines' = Insert(timelines, t, value)
      BY <2>2 DEF SubmitExecuted, Submittable, Beyond
    <3> QED
      BY <3>1 DEF Insert, TablesTyped, TimelinesTyped
  <2>3. /\ DOMAIN timelines' = DOMAIN timelines
        /\ \A x \in DOMAIN timelines : timelines'[x] \in 0 .. MaxValue
    BY <1>2, <2>2, StepChangesTimelines DEF TablesTyped, TimelinesTyped
  <2> QED
    BY <1>0, <2>1, <2>3 DEF TablesTyped, TimelinesTyped
<1> QED
  BY <1>1, <1>2

LEMMA StepTypesCall ==
  ASSUME Driver!TypeOK, Next
  PROVE  CallTyped'
<1>1. ASSUME NEW op \in {"create_device", "submit", "recover_device"},
             NEW actor \in Nat \cup Gpu \cup {UnknownGpu}, NEW granted \in BOOLEAN,
             Logged(op, actor, granted)
      PROVE  CallTyped'
  BY <1>1 DEF Logged, CallTyped
<1>2. ASSUME Unlogged PROVE CallTyped'
  BY <1>2 DEF Unlogged, NoCall, CallTyped
<1>3. ASSUME NEW kind, NEW g \in Gpu, Admin(kind, g) PROVE CallTyped'
  BY <1>3 DEF Admin, CallTyped
<1>4. \A caps, c : Grants(caps, c) \in BOOLEAN
  BY DEF Grants
<1>5. ASSUME NEW g \in Gpu \cup {UnknownGpu}, NEW caps \in CapSets,
             CreateDevice(g, caps) \/ CreateDeviceRefused(g, caps)
      PROVE  CallTyped'
  <2>1. \/ Logged("create_device", g, TRUE)
        \/ Logged("create_device", g, Grants(caps, "GpuMemoryAlloc"))
    BY <1>5 DEF CreateDevice, CreateDeviceRefused
  <2> QED
    BY <1>1, <1>4, <2>1
<1>6. ASSUME NEW d \in Device, NEW caps \in CapSets,
             RecoverDevice(d, caps) \/ RecoverDeviceRefused(d, caps)
      PROVE  CallTyped'
  <2>1. Logged("recover_device", d, Grants(caps, "GpuAdmin"))
    BY <1>6 DEF RecoverDevice, RecoverDeviceRefused
  <2> QED
    BY <1>1, <1>4, <2>1 DEF Device
<1>7. ASSUME NEW d \in Device, NEW ops, NEW t, NEW value,
             \/ SubmitExecuted(d, ops, t, value)
             \/ SubmitFailed(d, ops, t, value)
             \/ SubmitRefused(d, ops, t, value)
      PROVE  CallTyped'
  <2>1. \/ Logged("submit", d, TRUE)
        \/ Logged("submit", d, Grants(deviceCaps[d], "GpuCommandSubmit"))
    BY <1>7 DEF SubmitExecuted, SubmitFailed, SubmitRefused
  <2>2. Grants(deviceCaps[d], "GpuCommandSubmit") \in BOOLEAN
    BY <1>4
  <2>3. d \in Nat \cup Gpu \cup {UnknownGpu}
    BY DEF Device
  <2> QED
    BY <1>1, <2>1, <2>2, <2>3
<1>8. ASSUME NEW d,
             \/ CreateTimeline(d) \/ CreateShaderModule(d) \/ FreeResource(d)
             \/ \E kind \in Kinds : CreateResource(d, kind)
             \/ \E s \in 1 .. MaxShaders : CreatePipeline(d, s)
      PROVE  Unlogged
  BY <1>8 DEF CreateTimeline, CreateShaderModule, FreeResource, CreateResource,
              CreatePipeline
<1>9. ASSUME NEW g \in Gpu, AdminFault(g) \/ AdminClear(g)
      PROVE  CallTyped'
  BY <1>3, <1>9 DEF AdminFault, AdminClear
<1>10. ASSUME NEW a, AdminFree(a)
       PROVE  CallTyped'
  BY <1>3, <1>10 DEF AdminFree, Driver!TypeOK, Driver!Allocation
<1>11. CASE DeviceCalls
  BY <1>2, <1>6, <1>7, <1>8, <1>11 DEF DeviceCalls
<1> QED
  BY <1>2, <1>5, <1>8, <1>9, <1>10, <1>11 DEF Next

(***************************************************************************)
(* The inductive invariant: the driver's account with the types of all     *)
(* tables.                                                                 *)
(***************************************************************************)
RuntimeTyped == DriverKept /\ TablesTyped /\ CallTyped

LEMMA TypedInit == ASSUME Init PROVE RuntimeTyped
<1>1. TablesTyped
  BY GraphicsRuntimeAssumption
     DEF Init, EmptyTable, Driver!Init, TablesTyped, Counts, DevicesTyped,
         ResourcesTyped, ShadersTyped, PipelinesTyped, TimelinesTyped
<1>2. CallTyped
  BY DEF Init, NoCall, CallTyped
<1> QED
  BY <1>1, <1>2, DriverInit DEF RuntimeTyped

LEMMA TypedStep ==
  ASSUME RuntimeTyped, [Next]_vars
  PROVE  RuntimeTyped'
<1>1. DriverKept'
  BY DriverStep DEF RuntimeTyped
<1>2. Driver!TypeOK /\ issued \in Nat
  BY DriverTyped DEF RuntimeTyped, Driver!TypeOK
<1>3. CASE Next
  <2>1. TablesTyped
    BY DEF RuntimeTyped
  <2>2. count' \in Counts
    BY <1>3, <2>1, CountsGrow DEF TablesTyped
  <2>3. /\ DevicesTyped' /\ ResourcesTyped' /\ ShadersTyped' /\ PipelinesTyped'
        /\ TimelinesTyped' /\ CallTyped'
    BY <1>2, <1>3, <2>1, StepKeepsDevicesTyped, StepKeepsResourcesTyped,
       StepKeepsShadersTyped, StepKeepsPipelinesTyped, StepKeepsTimelinesTyped,
       StepTypesCall
  <2> QED
    BY <1>1, <2>2, <2>3 DEF RuntimeTyped, TablesTyped
<1>4. CASE UNCHANGED vars
  <2>1. TablesTyped' /\ CallTyped'
    BY <1>4 DEF RuntimeTyped, vars, driverVars, tables, TablesTyped, Counts,
       DevicesTyped, ResourcesTyped, ShadersTyped, PipelinesTyped,
       TimelinesTyped, CallTyped
  <2> QED
    BY <1>1, <2>1 DEF RuntimeTyped
<1> QED
  BY <1>3, <1>4

LEMMA RuntimeTypedHolds == Spec => []RuntimeTyped
BY TypedInit, TypedStep, PTL DEF Spec

(***************************************************************************)
(* Type correctness of the runtime with its driver, for all constants: no  *)
(* table ever holds an id that was not given out, names a device, shader   *)
(* or GPU that never was, or a timeline value beyond what was asked for.   *)
(***************************************************************************)
THEOREM RuntimeTypeCorrect == Spec => []TypeOK
<1>1. RuntimeTyped => TypeOK
  <2>1. ASSUME RuntimeTyped PROVE TypeOK
    <3>1. Driver!TypeOK
      BY <2>1, DriverTyped DEF RuntimeTyped
    <3> QED
      BY <2>1, <3>1 DEF TypeOK, RuntimeTyped, DriverKept, DevicesKnown, TablesTyped,
         Counts, DevicesTyped, ResourcesTyped, ShadersTyped, PipelinesTyped,
         TimelinesTyped, CallTyped
  <2> QED
    BY <2>1
<1> QED
  BY <1>1, RuntimeTypedHolds, PTL

-----------------------------------------------------------------------------
(***************************************************************************)
(* Sizes.  An image of so many rows, columns and layers has their product  *)
(* of pixels, and a product that wrapped is less than the one it stands    *)
(* for.                                                                    *)
(***************************************************************************)
LEMMA PixelsAreCounted ==
  ASSUME NEW w \in Nat, NEW h \in Nat, NEW d \in Nat
  PROVE  Cardinality((1 .. w) \X (1 .. h) \X (1 .. d)) = w * h * d
<1> DEFINE A == 1 .. w
           B == 1 .. h
           C == 1 .. d
           P == (A \X B) \X C
           f == [x \in P |-> <<x[1][1], x[1][2], x[2]>>]
<1>1. /\ IsFiniteSet(A) /\ Cardinality(A) = w
      /\ IsFiniteSet(B) /\ Cardinality(B) = h
      /\ IsFiniteSet(C) /\ Cardinality(C) = d
  BY FS_Interval
<1>2. f \in Bijection(P, A \X B \X C)
  <2>1. f \in [P -> A \X B \X C]
    OBVIOUS
  <2>2. \A x, y \in P : f[x] = f[y] => x = y
    OBVIOUS
  <2>3. \A t \in A \X B \X C : \E x \in P : f[x] = t
    <3>1. ASSUME NEW t \in A \X B \X C
          PROVE  <<<<t[1], t[2]>>, t[3]>> \in P /\ f[<<<<t[1], t[2]>>, t[3]>>] = t
      OBVIOUS
    <3> QED
      BY <3>1
  <2> HIDE DEF f, P, A, B, C
  <2> QED
    BY <2>1, <2>2, <2>3 DEF Bijection, Injection, Surjection, IsInjective
<1> HIDE DEF A, B, C, f
<1>3. IsFiniteSet(A \X B) /\ Cardinality(A \X B) = w * h
  BY <1>1, FS_Product
<1>4. IsFiniteSet(P) /\ Cardinality(P) = w * h * d
  BY <1>1, <1>3, FS_Product
<1>5. ExistsBijection(P, A \X B \X C)
  BY <1>2 DEF ExistsBijection
<1>6. Cardinality(A \X B \X C) = w * h * d
  <2> HIDE DEF P
  <2> QED
    BY <1>4, <1>5, FS_Bijection
<1> QED
  BY <1>6 DEF A, B, C

LEMMA SizeIsNeededOrLess ==
  ASSUME NEW kind \in Kinds
  PROVE  LET needed == BytesNeeded(kind)
         IN  IF needed \in Usize THEN ResourceSize(kind) = needed
             ELSE ResourceSize(kind) < needed
<1>1. CASE kind.type = "Buffer"
  <2>1. kind.size \in Usize
    BY <1>1, GraphicsRuntimeAssumption DEF ResourceKind
  <2> QED
    BY <1>1, <2>1 DEF BytesNeeded, ResourceSize
<1>2. CASE kind.type # "Buffer"
  <2>1. kind.width \in Nat /\ kind.height \in Nat /\ kind.depth \in Nat
    BY <1>2, GraphicsRuntimeAssumption DEF ResourceKind
  <2>2. Cardinality(Pixels(kind)) = kind.width * kind.height * kind.depth
    BY <2>1, PixelsAreCounted DEF Pixels
  <2>3. PICK n \in Nat : /\ BytesNeeded(kind) = n
                         /\ ResourceSize(kind) = n % UsizeModulus
    <3>1. bytes_per_pixel(kind.format) \in Nat
      BY DEF bytes_per_pixel
    <3>2. kind.width * kind.height * kind.depth * bytes_per_pixel(kind.format) \in Nat
      BY <2>1, <3>1
    <3> QED
      BY <1>2, <2>2, <3>2 DEF BytesNeeded, ResourceSize
  <2>4. /\ n \in Usize => n % UsizeModulus = n
        /\ n \notin Usize => n % UsizeModulus < n
    BY GraphicsRuntimeAssumption DEF Usize
  <2> QED
    BY <2>3, <2>4
<1> QED
  BY <1>1, <1>2

(***************************************************************************)
(* The inductive invariant: an allocation under the id of a resource is    *)
(* the one made for it.  It needs that neither table gives an id twice.    *)
(***************************************************************************)
SizesMatch ==
  \A r \in DOMAIN resources \cap DOMAIN allocations :
    allocations[r].size = ResourceSize(resources[r].kind)

(* The allocations a step of the driver keeps, it keeps as they are.       *)
LEMMA DriverRebindsNothing ==
  ASSUME Driver!TypeOK, [Driver!Next]_driverVars,
         NEW a \in DOMAIN allocations' \cap 1 .. issued
  PROVE  a \in DOMAIN allocations /\ allocations'[a] = allocations[a]
<1>1. ASSUME NEW g \in Gpu, NEW size \in Usize, Driver!AllocateVram(g, size)
      PROVE  a \in DOMAIN allocations /\ allocations'[a] = allocations[a]
  BY <1>1 DEF Driver!AllocateVram, Driver!Insert, Driver!TypeOK
<1>2. ASSUME NEW b \in Driver!AllocId, Driver!FreeVram(b)
      PROVE  a \in DOMAIN allocations /\ allocations'[a] = allocations[a]
  BY <1>2 DEF Driver!FreeVram, Driver!Remove, Driver!Restrict
<1>3. ASSUME NEW g \in Gpu, \/ Driver!Submit(g) \/ Driver!MarkFaulted(g)
                            \/ Driver!ResetDevice(g)
      PROVE  UNCHANGED allocations
  BY <1>3 DEF Driver!Submit, Driver!Accept, Driver!Reject, Driver!Fail,
              Driver!Lose, Driver!MarkFaulted, Driver!ResetDevice
<1>4. Driver!OtherCall \/ UNCHANGED driverVars => UNCHANGED allocations
  BY DEF Driver!OtherCall, driverVars
<1> QED
  BY <1>1, <1>2, <1>3, <1>4 DEF Driver!Next

LEMMA StepKeepsSizes ==
  ASSUME RuntimeTyped, SizesMatch, [Next]_vars
  PROVE  SizesMatch'
<1>1. /\ Driver!TypeOK /\ [Driver!Next]_driverVars
      /\ issued \in Nat /\ ResourcesTyped
  BY DriverTyped, StepIsDriverCall
     DEF RuntimeTyped, DriverKept, Driver!TypeOK, TablesTyped
<1>2. ASSUME NEW d \in Device, NEW kind \in Kinds, CreateResource(d, kind)
      PROVE  SizesMatch'
  <2>1. /\ issued' = issued + 1
        /\ allocations' = Insert(allocations, issued',
                                 [gpu |-> devices[d], size |-> ResourceSize(kind)])
        /\ resources' = Insert(resources, issued', [device |-> d, kind |-> kind])
    BY <1>2 DEF CreateResource, Driver!AllocateVram, Insert, Driver!Insert
  <2>2. /\ DOMAIN resources' = DOMAIN resources \cup {issued'}
        /\ resources'[issued'].kind = kind
        /\ \A r \in DOMAIN resources \ {issued'} : resources'[r] = resources[r]
    BY <2>1 DEF Insert
  <2>3. /\ DOMAIN allocations' = DOMAIN allocations \cup {issued'}
        /\ allocations'[issued'].size = ResourceSize(kind)
        /\ \A r \in DOMAIN allocations \ {issued'} :
             allocations'[r] = allocations[r]
    BY <2>1 DEF Insert
  <2> QED
    BY <2>2, <2>3 DEF SizesMatch
<1>3. CASE Next /\ UNCHANGED issued
  <2>1. IdsGiven' /\ NothingRebinds
    BY <1>1, <1>3, RuntimeKeepsNames DEF ResourcesTyped, IdsGiven
  <2>2. ASSUME NEW r \in DOMAIN resources' \cap DOMAIN allocations'
        PROVE  /\ r \in DOMAIN resources /\ resources'[r] = resources[r]
               /\ r \in DOMAIN allocations /\ allocations'[r] = allocations[r]
    <3>1. r \in 1 .. issued
      BY <1>3, <2>1 DEF IdsGiven
    <3> QED
      BY <1>1, <2>1, <3>1, DriverRebindsNothing DEF NothingRebinds
  <2> QED
    BY <2>2 DEF SizesMatch
<1>4. CASE UNCHANGED vars
  BY <1>4 DEF vars, driverVars, tables, SizesMatch
<1> QED
  BY <1>2, <1>3, <1>4, StepIssues

(***************************************************************************)
(* For any pool, any width of usize and any kinds: a resource has exactly  *)
(* the bytes its kind counts out, unless a usize cannot count them; then   *)
(* it has fewer.                                                           *)
(***************************************************************************)
THEOREM ResourcesAreSized == Spec => []ResourcesHaveTheirBytes
<1>1. Init => RuntimeTyped /\ SizesMatch
  BY TypedInit DEF Init, EmptyTable, SizesMatch
<1>2. RuntimeTyped /\ SizesMatch /\ [Next]_vars => (RuntimeTyped /\ SizesMatch)'
  BY TypedStep, StepKeepsSizes
<1>3. ASSUME RuntimeTyped, SizesMatch,
             NEW r \in DOMAIN resources \cap DOMAIN allocations
      PROVE  LET needed == BytesNeeded(resources[r].kind)
             IN  IF needed \in Usize THEN allocations[r].size = needed
                 ELSE allocations[r].size < needed
  <2>1. resources[r].kind \in Kinds
    BY <1>3 DEF RuntimeTyped, TablesTyped, ResourcesTyped
  <2>2. allocations[r].size = ResourceSize(resources[r].kind)
    BY <1>3 DEF SizesMatch
  <2> QED
    BY <2>1, <2>2, SizeIsNeededOrLess
<1>4. RuntimeTyped /\ SizesMatch => ResourcesHaveTheirBytes
  BY <1>3 DEF ResourcesHaveTheirBytes
<1> QED
  BY <1>1, <1>2, <1>4, PTL DEF Spec

=============================================================================
