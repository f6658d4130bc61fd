---------------------------- MODULE VulkanRender ----------------------------
(***************************************************************************)
(* One submission as the Vulkan backend executes it:                       *)
(* VulkanContext::render_clear_to_offscreen of crates/vulkan_backend.  The *)
(* call makes a VkDevice and seven objects on it, submits, waits, reads    *)
(* the pixels back and destroys everything again; any of its Vulkan calls  *)
(* may fail, and every failure has a clean-up list of its own.  The module *)
(* is about those lists.                                                   *)
(*                                                                         *)
(* A Vulkan call is one step, and so is each destruction; what the GPU     *)
(* does with the submission is concurrent with both.                       *)
(***************************************************************************)
EXTENDS Integers, Sequences, FiniteSets

CONSTANTS WaitErrors  \* how wait_for_fences may fail: "lost", "memory"

ASSUME VulkanRenderAssumption == WaitErrors \subseteq {"lost", "memory"}

VARIABLES
  at,       \* which call of Plan is next; 0 before the call, Len + 1 after it
  live,     \* Vulkan objects that exist
  undo,     \* objects still to be destroyed before the call returns
  gpu,      \* the submission: "none", "pending" or "done"
  result    \* "none", then "pixels", "lost" or "error"

vars == <<at, live, undo, gpu, result>>

(* A Vulkan call, the object it makes, and what is destroyed if it fails.  *)
Call(name, makes, undoing) == [name |-> name, makes |-> makes, undo |-> undoing]

-----------------------------------------------------------------------------
cleanup_image  == <<"image", "imageMemory">>
cleanup_buffer == <<"buffer", "bufferMemory">>

(* Bug: the buffer's list is forgotten when there is no memory for it.     *)
BufferCallsLeaking ==
  << Call("create_buffer", {"buffer"}, cleanup_image),
     Call("find_memory_type", {}, cleanup_image),
     Call("allocate_memory", {"bufferMemory"}, cleanup_image),
     Call("bind_buffer_memory", {}, <<"bufferMemory", "buffer">> \o cleanup_image) >>

(* Bug: the helper frees a memory that was never allocated.                *)
BufferCallsFreeingTwice ==
  << Call("create_buffer", {"buffer"}, cleanup_image),
     Call("find_memory_type", {}, cleanup_buffer \o cleanup_image),
     Call("allocate_memory", {"bufferMemory"}, cleanup_buffer \o cleanup_image),
     Call("bind_buffer_memory", {}, cleanup_buffer \o cleanup_image) >>

ImageCalls ==
  << Call("create_image", {"image"}, <<>>),
     Call("find_memory_type", {}, <<"image">>),
     Call("allocate_memory", {"imageMemory"}, <<"image">>),
     Call("bind_image_memory", {}, <<"imageMemory", "image">>) >>

BufferCalls ==
  << Call("create_buffer", {"buffer"}, cleanup_image),
     Call("find_memory_type", {}, <<"buffer">> \o cleanup_image),
     Call("allocate_memory", {"bufferMemory"}, <<"buffer">> \o cleanup_image),
     Call("bind_buffer_memory", {}, <<"bufferMemory", "buffer">> \o cleanup_image) >>

WithPool == <<"commandPool">> \o cleanup_buffer \o cleanup_image

(* The command buffers belong to the pool and go with it.                  *)
CommandCalls ==
  << Call("create_command_pool", {"commandPool"}, cleanup_buffer \o cleanup_image),
     Call("allocate_command_buffers", {}, WithPool),
     Call("record", {}, WithPool),
     Call("create_fence", {"fence"}, WithPool) >>

(* The last lines of the function run whether the submission succeeded or  *)
(* not.                                                                    *)
Cleanup == <<"fence">> \o WithPool

SubmitCalls ==
  << Call("queue_submit", {}, Cleanup),
     Call("wait_for_fences", {}, Cleanup),
     Call("map_memory", {}, Cleanup) >>

(* What comes before the device exists needs no clean-up.                  *)
DeviceCalls ==
  << Call("check_dimensions", {}, <<>>),
     Call("enumerate_physical_devices", {}, <<>>),
     Call("find_queue_family", {}, <<>>),
     Call("enumerate_device_extensions", {}, <<>>),
     Call("create_device", {"device"}, <<>>) >>

Plan == DeviceCalls \o ImageCalls \o BufferCalls \o CommandCalls \o SubmitCalls

(* Calls that are not Vulkan calls fail with an error of the backend's own.*)
NeverLost == {"check_dimensions", "find_queue_family", "find_memory_type"}

Returned == Len(Plan) + 1

-----------------------------------------------------------------------------
Init ==
  /\ at = 0
  /\ live = {}
  /\ undo = <<>>
  /\ gpu = "none"
  /\ result = "none"

Begin ==
  /\ at = 0
  /\ at' = 1
  /\ UNCHANGED <<live, undo, gpu, result>>

Running == at \in 1 .. Len(Plan) /\ result = "none"
Current == Plan[at]

Succeed ==
  /\ Running
  /\ Current.name \notin {"queue_submit", "wait_for_fences", "map_memory"}
  /\ live' = live \cup Current.makes
  /\ at' = at + 1
  /\ UNCHANGED <<undo, gpu, result>>

(* The failed call's list, then the device if there is one.                *)
Destroying(list) ==
  undo' = list \o IF "device" \in live THEN <<"device">> ELSE <<>>

Fail ==
  /\ Running
  /\ Current.name # "wait_for_fences"
  /\ result' \in IF Current.name \in NeverLost THEN {"error"} ELSE {"error", "lost"}
  /\ Destroying(Current.undo)
  /\ UNCHANGED <<at, live, gpu>>

Submit ==
  /\ Running
  /\ Current.name = "queue_submit"
  /\ gpu' = "pending"
  /\ at' = at + 1
  /\ UNCHANGED <<live, undo, result>>

(* The hardware finishes, whatever the host is doing.                      *)
Finish ==
  /\ gpu = "pending"
  /\ gpu' = "done"
  /\ UNCHANGED <<at, live, undo, result>>

(* Bug: goes on without looking at the fence.                              *)
WaitNot ==
  /\ Running
  /\ Current.name = "wait_for_fences"
  /\ at' = at + 1
  /\ UNCHANGED <<live, undo, gpu, result>>

(* The fence is signaled; there is no timeout.                             *)
Wait ==
  /\ Running
  /\ Current.name = "wait_for_fences"
  /\ gpu = "done"
  /\ at' = at + 1
  /\ UNCHANGED <<live, undo, gpu, result>>

(* A lost device has nothing pending any more; a wait that runs out of     *)
(* memory says nothing of the submission.                                  *)
WaitFails ==
  /\ Running
  /\ Current.name = "wait_for_fences"
  /\ \/ "lost" \in WaitErrors /\ result' = "lost" /\ gpu' = "done"
     \/ "memory" \in WaitErrors /\ result' = "error" /\ UNCHANGED gpu
  /\ Destroying(Current.undo)
  /\ UNCHANGED <<at, live>>

ReadBack ==
  /\ Running
  /\ Current.name = "map_memory"
  /\ result' = "pixels"
  /\ Destroying(Current.undo)
  /\ UNCHANGED <<at, live, gpu>>

Destroy ==
  /\ undo # <<>>
  /\ live' = live \ {Head(undo)}
  /\ undo' = Tail(undo)
  /\ UNCHANGED <<at, gpu, result>>

Return ==
  /\ result # "none"
  /\ undo = <<>>
  /\ at # Returned
  /\ at' = Returned
  /\ UNCHANGED <<live, undo, gpu, result>>

Next == \/ Begin \/ Succeed \/ Fail \/ Submit \/ Finish \/ Wait \/ WaitFails
        \/ ReadBack \/ Destroy \/ Return

Spec == Init /\ [][Next]_vars

-----------------------------------------------------------------------------
(***************************************************************************)
(* "Every Vulkan object this function creates [...] is destroyed before    *)
(* returning, success or error - nothing outlives this call"               *)
(* (vulkan_backend lib.rs:267-270).                                        *)
(***************************************************************************)
NothingOutlivesCall == at = Returned => live = {}

(***************************************************************************)
(* No clean-up list destroys an object that was never made or is already   *)
(* gone, and the device goes last.                                         *)
(***************************************************************************)
DestroysLiveObjectsOnce ==
  /\ \A i \in DOMAIN undo : undo[i] \in live
  /\ \A i, j \in DOMAIN undo : undo[i] = undo[j] => i = j
  /\ \A i \in DOMAIN undo : undo[i] = "device" => i = Len(undo)

UsedByGpu == {"device", "image", "imageMemory", "buffer", "bufferMemory",
              "commandPool", "fence"}

(***************************************************************************)
(* While the submission is pending, what it uses exists: the clean-up      *)
(* "is after a fence wait or on a path where the image was never submitted *)
(* to a queue" (vulkan_backend lib.rs:700-702, 678-686).                   *)
(***************************************************************************)
PendingWorkKeepsObjects == gpu = "pending" => UsedByGpu \subseteq live

(***************************************************************************)
(* The one way to destroy what a pending submission uses is a wait that    *)
(* fails without saying anything of the submission: every other path has   *)
(* waited for it, was told that the device is lost, or never submitted.    *)
(***************************************************************************)
OnlyAFailedWaitUncovers ==
  gpu = "pending" /\ ~(UsedByGpu \subseteq live) =>
    /\ result = "error"
    /\ at # Returned => Current.name = "wait_for_fences"

(***************************************************************************)
(* The pixels handed back were read after the GPU had finished writing     *)
(* them (vulkan_backend lib.rs:657-660).                                   *)
(***************************************************************************)
PixelsAreFinished == result = "pixels" => gpu = "done"

=============================================================================
