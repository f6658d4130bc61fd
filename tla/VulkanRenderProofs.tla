------------------------- MODULE VulkanRenderProofs -------------------------
(***************************************************************************)
(* The clean-up of a submission: whichever of its twenty Vulkan calls      *)
(* fails, and however the wait may fail, everything made is destroyed once *)
(* before the call returns, and the pixels it hands back are finished.     *)
(***************************************************************************)
EXTENDS VulkanRender, SequenceTheorems, TLAPS

-----------------------------------------------------------------------------
(***************************************************************************)
(* Clean-up lists.  A list undoes a set of objects when it destroys each   *)
(* of them once and nothing else.                                          *)
(***************************************************************************)
Undoes(list, objects) ==
  /\ list \in Seq(objects)
  /\ \A o \in objects : \E i \in DOMAIN list : list[i] = o
  /\ \A i, j \in DOMAIN list : list[i] = list[j] => i = j

(* The device, if the list destroys it, is the last.                       *)
DeviceLast(list) == \A i \in DOMAIN list : list[i] = "device" => i = Len(list)

(* Everything made by the calls before the n-th.                           *)
Made(n) == UNION {Plan[j].makes : j \in 1 .. n - 1}

(***************************************************************************)
(* The clean-up list of every call is that of the objects made before it,  *)
(* but for the device.                                                     *)
(***************************************************************************)
EveryListIsExact ==
  \A n \in 1 .. Len(Plan) : Undoes(Plan[n].undo, Made(n) \ {"device"})

(***************************************************************************)
(* The twenty calls: which of them submit, wait and read back, and what    *)
(* each of them makes.                                                     *)
(***************************************************************************)
LEMMA PlanCalls ==
  /\ Len(Plan) = 20
  /\ \A n \in 1 .. 20 : /\ Plan[n].name = "queue_submit" <=> n = 18
                        /\ Plan[n].name = "wait_for_fences" <=> n = 19
                        /\ Plan[n].name = "map_memory" <=> n = 20
BY DEF Plan, DeviceCalls, ImageCalls, BufferCalls, CommandCalls, SubmitCalls, Call

(* The call that makes an object.                                          *)
Maker == [device |-> 5, image |-> 6, imageMemory |-> 8, buffer |-> 10,
          bufferMemory |-> 12, commandPool |-> 14, fence |-> 17]

LEMMA PlanMakes ==
  ASSUME NEW n \in 1 .. 20
  PROVE  Plan[n].makes = {o \in UsedByGpu : Maker[o] = n}
<1>1. /\ Plan[5].makes = {"device"} /\ Plan[6].makes = {"image"}
      /\ Plan[8].makes = {"imageMemory"} /\ Plan[10].makes = {"buffer"}
      /\ Plan[12].makes = {"bufferMemory"} /\ Plan[14].makes = {"commandPool"}
      /\ Plan[17].makes = {"fence"}
      /\ \A m \in {1, 2, 3, 4, 7, 9, 11, 13, 15, 16, 18, 19, 20} :
           Plan[m].makes = {}
  BY DEF Plan, DeviceCalls, ImageCalls, BufferCalls, CommandCalls, SubmitCalls,
         Call
<1>2. CASE n \in {1, 2, 3, 4, 7, 9, 11, 13, 15, 16, 18, 19, 20}
  BY <1>1, <1>2 DEF UsedByGpu, Maker
<1>3. CASE n \in {5, 6, 8, 10}
  BY <1>1, <1>3 DEF UsedByGpu, Maker
<1>4. CASE n \in {12, 14, 17}
  BY <1>1, <1>4 DEF UsedByGpu, Maker
<1> QED
  BY <1>2, <1>3, <1>4

LEMMA MadeBefore ==
  ASSUME NEW n \in 1 .. 20
  PROVE  Made(n) = {o \in UsedByGpu : Maker[o] < n}
<1>1. \A o \in UsedByGpu : Maker[o] \in 1 .. 20
  BY DEF UsedByGpu, Maker
<1>2. ASSUME NEW o
      PROVE  o \in Made(n) <=> \E j \in 1 .. 20 : j < n /\ o \in Plan[j].makes
  BY DEF Made
<1>3. ASSUME NEW o
      PROVE  o \in Made(n) <=> o \in UsedByGpu /\ Maker[o] < n
  BY <1>1, <1>2, PlanMakes
<1> QED
  BY <1>3

LEMMA PlanUndoes ==
  /\ \A n \in 1 .. 6 : Plan[n].undo = <<>>
  /\ \A n \in {7, 8} : Plan[n].undo = <<"image">>
  /\ Plan[9].undo = <<"imageMemory", "image">>
  /\ Plan[10].undo = cleanup_image
  /\ \A n \in {11, 12} : Plan[n].undo = <<"buffer">> \o cleanup_image
  /\ Plan[13].undo = <<"bufferMemory", "buffer">> \o cleanup_image
  /\ Plan[14].undo = cleanup_buffer \o cleanup_image
  /\ \A n \in 15 .. 17 : Plan[n].undo = WithPool
  /\ \A n \in 18 .. 20 : Plan[n].undo = Cleanup
<1> USE DEF Plan, DeviceCalls, ImageCalls, BufferCalls, CommandCalls, SubmitCalls,
            Call
<1>1. \A n \in 1 .. 6 : Plan[n].undo = <<>>
  OBVIOUS
<1>2. \A n \in {7, 8} : Plan[n].undo = <<"image">>
  OBVIOUS
<1>3. /\ Plan[9].undo = <<"imageMemory", "image">>
      /\ Plan[10].undo = cleanup_image
  OBVIOUS
<1>4. \A n \in {11, 12} : Plan[n].undo = <<"buffer">> \o cleanup_image
  OBVIOUS
<1>5. Plan[13].undo = <<"bufferMemory", "buffer">> \o cleanup_image
  OBVIOUS
<1>6. Plan[14].undo = cleanup_buffer \o cleanup_image
  OBVIOUS
<1>7. \A n \in 15 .. 17 : Plan[n].undo = WithPool
  OBVIOUS
<1>8. \A n \in 18 .. 20 : Plan[n].undo = Cleanup
  OBVIOUS
<1> HIDE DEF Plan, DeviceCalls, ImageCalls, BufferCalls, CommandCalls,
             SubmitCalls, Call
<1> QED
  BY <1>1, <1>2, <1>3, <1>4, <1>5, <1>6, <1>7, <1>8

(***************************************************************************)
(* Lists that undo different objects, one after the other.                 *)
(***************************************************************************)
LEMMA UndoesBoth ==
  ASSUME NEW S, NEW s, Undoes(s, S), NEW T, NEW t, Undoes(t, T), S \cap T = {}
  PROVE  Undoes(s \o t, S \cup T)
<1> DEFINE u == s \o t
<1>1. s \in Seq(S \cup T) /\ t \in Seq(S \cup T)
  BY DEF Undoes
<1>2. /\ u \in Seq(S \cup T)
      /\ Len(u) = Len(s) + Len(t)
      /\ \A i \in 1 .. Len(s) : u[i] = s[i]
      /\ \A i \in 1 .. Len(t) : u[Len(s) + i] = t[i]
  BY <1>1
<1>3. /\ Len(s) \in Nat /\ DOMAIN s = 1 .. Len(s) /\ \A i \in 1 .. Len(s) : s[i] \in S
      /\ Len(t) \in Nat /\ DOMAIN t = 1 .. Len(t) /\ \A i \in 1 .. Len(t) : t[i] \in T
      /\ DOMAIN u = 1 .. Len(u)
  BY <1>2 DEF Undoes
<1> HIDE DEF u
<1>4. ASSUME NEW i \in DOMAIN u
      PROVE  \/ i \in 1 .. Len(s) /\ u[i] = s[i] /\ u[i] \in S
             \/ i - Len(s) \in 1 .. Len(t) /\ u[i] = t[i - Len(s)] /\ u[i] \in T
  <2>1. CASE i <= Len(s)
    BY <1>2, <1>3, <2>1
  <2>2. CASE i > Len(s)
    <3>1. i - Len(s) \in 1 .. Len(t) /\ i = Len(s) + (i - Len(s))
      BY <1>2, <1>3, <2>2
    <3> QED
      BY <1>2, <1>3, <3>1
  <2> QED
    BY <1>2, <1>3, <2>1, <2>2
<1>5. \A o \in S \cup T : \E i \in DOMAIN u : u[i] = o
  <2>1. ASSUME NEW o \in S PROVE \E i \in DOMAIN u : u[i] = o
    BY <1>2, <1>3 DEF Undoes
  <2>2. ASSUME NEW o \in T PROVE \E i \in DOMAIN u : u[i] = o
    <3>1. PICK i \in 1 .. Len(t) : t[i] = o
      BY <1>3 DEF Undoes
    <3>2. Len(s) + i \in DOMAIN u
      BY <1>2, <1>3
    <3> QED
      BY <1>2, <3>1, <3>2
  <2> QED
    BY <2>1, <2>2
<1>6. ASSUME NEW i \in DOMAIN u, NEW j \in DOMAIN u, u[i] = u[j]
      PROVE  i = j
  <2>1. i \in Int /\ j \in Int
    BY <1>2, <1>3
  <2>2. CASE u[i] \in S
    BY <1>3, <1>4, <1>6, <2>2 DEF Undoes
  <2>3. CASE u[i] \in T
    <3>1. i - Len(s) \in DOMAIN t /\ j - Len(s) \in DOMAIN t
          /\ t[i - Len(s)] = t[j - Len(s)]
      BY <1>3, <1>4, <1>6, <2>3
    <3>2. i - Len(s) = j - Len(s)
      BY <3>1 DEF Undoes
    <3> QED
      BY <1>3, <2>1, <3>2
  <2> QED
    BY <1>4, <2>2, <2>3
<1> QED
  BY <1>2, <1>5, <1>6 DEF Undoes, u

LEMMA UndoesFew ==
  /\ Undoes(<<>>, {})
  /\ \A a : Undoes(<<a>>, {a})
  /\ \A a, b : a # b => Undoes(<<a, b>>, {a, b})
BY DEF Undoes

LEMMA ListsUndo ==
  /\ Undoes(cleanup_image, {"image", "imageMemory"})
  /\ Undoes(<<"buffer">> \o cleanup_image, {"buffer", "image", "imageMemory"})
  /\ Undoes(<<"bufferMemory", "buffer">> \o cleanup_image,
            {"buffer", "bufferMemory", "image", "imageMemory"})
  /\ Undoes(cleanup_buffer \o cleanup_image,
            {"buffer", "bufferMemory", "image", "imageMemory"})
  /\ Undoes(WithPool,
            {"commandPool", "buffer", "bufferMemory", "image", "imageMemory"})
  /\ Undoes(Cleanup, UsedByGpu \ {"device"})
<1>1. Undoes(cleanup_image, {"image", "imageMemory"})
  BY UndoesFew DEF cleanup_image
<1>2. Undoes(cleanup_buffer, {"buffer", "bufferMemory"})
  BY UndoesFew DEF cleanup_buffer
<1>3. Undoes(<<"bufferMemory", "buffer">>, {"buffer", "bufferMemory"})
  <2>1. Undoes(<<"bufferMemory", "buffer">>, {"bufferMemory", "buffer"})
    BY UndoesFew
  <2> QED
    BY <2>1
<1> DEFINE images == {"image", "imageMemory"}
           buffers == {"buffer", "bufferMemory"}
<1>4. Undoes(<<"buffer">> \o cleanup_image, {"buffer"} \cup images)
  BY <1>1, UndoesFew, UndoesBoth
<1>5. Undoes(<<"bufferMemory", "buffer">> \o cleanup_image, buffers \cup images)
  BY <1>1, <1>3, UndoesBoth
<1>6. Undoes(cleanup_buffer \o cleanup_image, buffers \cup images)
  BY <1>1, <1>2, UndoesBoth
<1>7. Undoes(<<"commandPool">> \o cleanup_buffer, {"commandPool"} \cup buffers)
  BY <1>2, UndoesFew, UndoesBoth
<1>8. Undoes(WithPool, ({"commandPool"} \cup buffers) \cup images)
  BY <1>1, <1>7, UndoesBoth DEF WithPool
<1>9. Undoes(Cleanup, {"fence"} \cup (({"commandPool"} \cup buffers) \cup images))
  BY <1>8, UndoesFew, UndoesBoth DEF Cleanup
<1>10. /\ buffers \cup images = {"buffer", "bufferMemory", "image", "imageMemory"}
       /\ {"buffer"} \cup images = {"buffer", "image", "imageMemory"}
       /\ ({"commandPool"} \cup buffers) \cup images
            = {"commandPool", "buffer", "bufferMemory", "image", "imageMemory"}
       /\ {"fence"} \cup (({"commandPool"} \cup buffers) \cup images)
            = UsedByGpu \ {"device"}
  BY DEF UsedByGpu
<1> QED
  BY <1>1, <1>4, <1>5, <1>6, <1>8, <1>9, <1>10

LEMMA ListsAreExact == EveryListIsExact
<1> SUFFICES ASSUME NEW n \in 1 .. 20
             PROVE  Undoes(Plan[n].undo, Made(n) \ {"device"})
  BY PlanCalls DEF EveryListIsExact
<1> DEFINE M == Made(n) \ {"device"}
<1>1. CASE n \in 1 .. 6
  <2>1. M = {}
    BY <1>1, MadeBefore DEF UsedByGpu, Maker
  <2> QED
    BY <1>1, <2>1, PlanUndoes, UndoesFew
<1>2. CASE n \in {7, 8}
  <2>1. M = {"image"}
    BY <1>2, MadeBefore DEF UsedByGpu, Maker
  <2> QED
    BY <1>2, <2>1, PlanUndoes, UndoesFew
<1>3. CASE n \in {9, 10}
  <2>1. M = {"image", "imageMemory"}
    BY <1>3, MadeBefore DEF UsedByGpu, Maker
  <2>2. Undoes(<<"imageMemory", "image">>, M)
    BY <2>1, UndoesFew
  <2> QED
    BY <1>3, <2>1, <2>2, PlanUndoes, ListsUndo
<1>4. CASE n \in {11, 12}
  <2>1. M = {"buffer", "image", "imageMemory"}
    BY <1>4, MadeBefore DEF UsedByGpu, Maker
  <2> QED
    BY <1>4, <2>1, PlanUndoes, ListsUndo
<1>5. CASE n \in {13, 14}
  <2>1. M = {"buffer", "bufferMemory", "image", "imageMemory"}
    BY <1>5, MadeBefore DEF UsedByGpu, Maker
  <2> QED
    BY <1>5, <2>1, PlanUndoes, ListsUndo
<1>6. CASE n \in 15 .. 17
  <2>1. M = {"commandPool", "buffer", "bufferMemory", "image", "imageMemory"}
    BY <1>6, MadeBefore DEF UsedByGpu, Maker
  <2> QED
    BY <1>6, <2>1, PlanUndoes, ListsUndo
<1>7. CASE n \in 18 .. 20
  <2>1. M = UsedByGpu \ {"device"}
    BY <1>7, MadeBefore DEF UsedByGpu, Maker
  <2> QED
    BY <1>7, <2>1, PlanUndoes, ListsUndo
<1> QED
  BY <1>1, <1>2, <1>3, <1>4, <1>5, <1>6, <1>7

-----------------------------------------------------------------------------
(***************************************************************************)
(* The inductive invariant.  Until a call has failed or the pixels are     *)
(* read, what exists is what the calls made so far; after that it is what  *)
(* is still to be destroyed.  The submission is pending only between       *)
(* queue_submit and the end of the wait, or after a wait that failed.      *)
(***************************************************************************)
Making ==
  result = "none" =>
    /\ at \in 0 .. Len(Plan)
    /\ live = Made(at)
    /\ undo = <<>>
    /\ at # 0 /\ gpu = "pending" => Current.name = "wait_for_fences"
    /\ at # 0 /\ Current.name = "map_memory" => gpu = "done"
    /\ at = 0 => gpu = "none"

Unmaking ==
  result # "none" =>
    /\ at \in 1 .. Returned
    /\ Undoes(undo, live) /\ DeviceLast(undo)
    /\ gpu = "pending" =>
         /\ result = "error"
         /\ at # Returned => Current.name = "wait_for_fences"
    /\ result = "pixels" => gpu = "done"
    /\ at = Returned => undo = <<>>

Rendered ==
  /\ result \in {"none", "pixels", "lost", "error"}
  /\ gpu \in {"none", "pending", "done"}
  /\ Making /\ Unmaking

(***************************************************************************)
(* The first of a clean-up list is destroyed, and the rest undoes the rest.*)
(***************************************************************************)
LEMMA UndoesRest ==
  ASSUME NEW S, NEW s, Undoes(s, S), DeviceLast(s), s # <<>>
  PROVE  Undoes(Tail(s), S \ {Head(s)}) /\ DeviceLast(Tail(s))
<1> DEFINE t == Tail(s)
<1>1. s \in Seq(S) /\ Len(s) \in Nat /\ Len(s) > 0 /\ DOMAIN s = 1 .. Len(s)
  BY DEF Undoes
<1>2. /\ t \in Seq(S) /\ Len(t) = Len(s) - 1 /\ DOMAIN t = 1 .. Len(t)
      /\ \A i \in DOMAIN t : i + 1 \in DOMAIN s /\ t[i] = s[i + 1]
      /\ Head(s) = s[1]
  BY <1>1
<1> HIDE DEF t
<1>3. \A i \in DOMAIN t : t[i] \in S \ {Head(s)}
  <2> SUFFICES ASSUME NEW i \in DOMAIN t
               PROVE  t[i] \in S \ {Head(s)}
    OBVIOUS
  <2>1. i \in Nat /\ i >= 1 /\ i + 1 \in DOMAIN s /\ 1 \in DOMAIN s
    BY <1>1, <1>2
  <2>2. s[i + 1] = s[1] => i + 1 = 1
    BY <2>1 DEF Undoes
  <2>3. s[i + 1] \in S
    BY <1>1, <2>1
  <2> QED
    BY <1>2, <2>1, <2>2, <2>3
<1>4. t \in Seq(S \ {Head(s)})
  BY <1>2, <1>3
<1>5. ASSUME NEW o \in S \ {Head(s)}
      PROVE  \E i \in DOMAIN t : t[i] = o
  <2>1. PICK j \in DOMAIN s : s[j] = o
    BY DEF Undoes
  <2>2. j # 1 /\ j \in 1 .. Len(s)
    BY <1>1, <1>2, <2>1, <1>5
  <2>3. j - 1 \in DOMAIN t /\ (j - 1) + 1 = j
    BY <1>1, <1>2, <2>2
  <2> QED
    BY <1>2, <2>1, <2>3
<1>6. ASSUME NEW i \in DOMAIN t, NEW j \in DOMAIN t, t[i] = t[j]
      PROVE  i = j
  <2>1. i \in Nat /\ j \in Nat
    BY <1>2
  <2>2. i + 1 = j + 1
    BY <1>2, <1>6 DEF Undoes
  <2> QED
    BY <2>1, <2>2
<1>7. ASSUME NEW i \in DOMAIN t, t[i] = "device"
      PROVE  i = Len(t)
  <2>1. i + 1 = Len(s)
    BY <1>2, <1>7 DEF DeviceLast
  <2> QED
    BY <1>1, <1>2, <2>1
<1> QED
  BY <1>4, <1>5, <1>6, <1>7 DEF Undoes, DeviceLast, t

(***************************************************************************)
(* Whichever call fails, what is left to destroy is what exists.           *)
(***************************************************************************)
LEMMA DestroysEverything ==
  ASSUME Making, Running, Destroying(Current.undo)
  PROVE  Undoes(undo', live) /\ DeviceLast(undo')
<1> DEFINE list == Current.undo
           rest == live \ {"device"}
<1>1. Undoes(list, rest)
  BY ListsAreExact DEF EveryListIsExact, Making, Running, Current
<1>2. \A i \in DOMAIN list : list[i] # "device"
  BY <1>1 DEF Undoes
<1> HIDE DEF list, rest
<1>3. CASE "device" \in live
  <2>1. undo' = list \o <<"device">>
    BY <1>3 DEF Destroying, list
  <2>2. Undoes(undo', rest \cup {"device"})
    BY <1>1, <2>1, UndoesFew, UndoesBoth DEF rest
  <2>3. rest \cup {"device"} = live
    BY <1>3 DEF rest
  <2>4. DeviceLast(undo')
    <3>1. list \in Seq(rest)
      BY <1>1 DEF Undoes
    <3> QED
      BY <1>2, <2>1, <3>1 DEF DeviceLast
  <2> QED
    BY <2>2, <2>3, <2>4
<1>4. CASE "device" \notin live
  <2>1. list \in Seq(rest)
    BY <1>1 DEF Undoes
  <2>2. undo' = list /\ rest = live
    BY <1>4, <2>1 DEF Destroying, list, rest
  <2> QED
    BY <1>1, <1>2, <2>2 DEF DeviceLast
<1> QED
  BY <1>3, <1>4

LEMMA MadeNext ==
  ASSUME NEW n \in 1 .. 20
  PROVE  Made(n + 1) = Made(n) \cup Plan[n].makes
BY DEF Made

(* A submission has all the objects there are.                             *)
LEMMA AllMade == \A n \in 18 .. 20 : Made(n) = UsedByGpu
<1> SUFFICES ASSUME NEW n \in 18 .. 20
             PROVE  Made(n) = UsedByGpu
  OBVIOUS
<1>1. \A o \in UsedByGpu : Maker[o] < n
  BY DEF UsedByGpu, Maker
<1>2. Made(n) = {o \in UsedByGpu : Maker[o] < n}
  BY MadeBefore
<1> QED
  BY <1>1, <1>2

LEMMA StepKeepsRendered ==
  ASSUME Rendered, [Next]_vars
  PROVE  Rendered'
<1> USE PlanCalls DEF Rendered, Returned
<1>1. CASE Begin
  BY <1>1 DEF Begin, Making, Unmaking, Made, Current
<1>2. CASE Succeed
  <2>1. at \in 1 .. 17 /\ live = Made(at)
    <3>1. at \in 1 .. 20 /\ at \notin {18, 19, 20}
      BY <1>2 DEF Succeed, Running, Current
    <3> QED
      BY <1>2, <3>1 DEF Succeed, Running, Making
  <2>2. live' = Made(at + 1)
    BY <1>2, <2>1, MadeNext DEF Succeed, Current
  <2> QED
    BY <1>2, <2>1, <2>2 DEF Succeed, Running, Current, Making, Unmaking
<1>3. CASE Fail
  BY <1>3, DestroysEverything DEF Fail, Running, Current, Making, Unmaking
<1>4. CASE Submit
  <2>1. at = 18
    BY <1>4 DEF Submit, Running, Current
  <2>2. Made(19) = Made(18)
    BY AllMade
  <2> QED
    BY <1>4, <2>1, <2>2 DEF Submit, Running, Current, Making, Unmaking
<1>5. CASE Finish
  BY <1>5 DEF Finish, Current, Making, Unmaking
<1>6. CASE Wait
  <2>1. at = 19
    BY <1>6 DEF Wait, Running, Current
  <2>2. Made(20) = Made(19)
    BY AllMade
  <2> QED
    BY <1>6, <2>1, <2>2 DEF Wait, Running, Current, Making, Unmaking
<1>7. CASE WaitFails
  BY <1>7, DestroysEverything DEF WaitFails, Running, Current, Making, Unmaking
<1>8. CASE ReadBack
  BY <1>8, DestroysEverything DEF ReadBack, Running, Current, Making, Unmaking
<1>9. CASE Destroy
  BY <1>9, UndoesRest DEF Destroy, Current, Making, Unmaking
<1>10. CASE Return
  BY <1>10 DEF Return, Current, Making, Unmaking
<1>11. CASE UNCHANGED vars
  BY <1>11 DEF vars, Current, Making, Unmaking
<1> QED
  BY <1>1, <1>2, <1>3, <1>4, <1>5, <1>6, <1>7, <1>8, <1>9, <1>10, <1>11 DEF Next

LEMMA RenderedHolds == Spec => []Rendered
<1>1. Init => Rendered
  BY PlanCalls DEF Init, Rendered, Making, Unmaking, Made
<1>2. Rendered /\ [Next]_vars => Rendered'
  BY StepKeepsRendered
<1> QED
  BY <1>1, <1>2, PTL DEF Spec

-----------------------------------------------------------------------------
(***************************************************************************)
(* Every object the call makes is destroyed before it returns, whichever   *)
(* of its calls failed.                                                    *)
(***************************************************************************)
THEOREM CallLeavesNothing == Spec => []NothingOutlivesCall
<1>1. Rendered => NothingOutlivesCall
  BY PlanCalls DEF Rendered, Making, Unmaking, Undoes, Returned,
                   NothingOutlivesCall
<1> QED
  BY <1>1, RenderedHolds, PTL

(***************************************************************************)
(* No clean-up list destroys what was never made or is already gone, and   *)
(* the device goes last.                                                   *)
(***************************************************************************)
THEOREM CleanupIsSound == Spec => []DestroysLiveObjectsOnce
<1>1. Rendered => DestroysLiveObjectsOnce
  BY DEF Rendered, Making, Unmaking, Undoes, DeviceLast, DestroysLiveObjectsOnce
<1> QED
  BY <1>1, RenderedHolds, PTL

(***************************************************************************)
(* What a pending submission uses exists, but after a wait that failed     *)
(* without saying anything of it.                                          *)
(***************************************************************************)
THEOREM PendingIsCovered == Spec => []OnlyAFailedWaitUncovers
<1>1. Rendered => OnlyAFailedWaitUncovers
  <2> SUFFICES ASSUME Rendered, result = "none", gpu = "pending"
               PROVE  UsedByGpu \subseteq live
    BY DEF Rendered, Unmaking, OnlyAFailedWaitUncovers
  <2>1. at = 19 /\ live = Made(19)
    BY PlanCalls DEF Rendered, Making, Current
  <2> QED
    BY <2>1, AllMade
<1> QED
  BY <1>1, RenderedHolds, PTL

(***************************************************************************)
(* The pixels handed back were read after the GPU had finished.            *)
(***************************************************************************)
THEOREM PixelsAreComplete == Spec => []PixelsAreFinished
<1>1. Rendered => PixelsAreFinished
  BY DEF Rendered, Unmaking, PixelsAreFinished
<1> QED
  BY <1>1, RenderedHolds, PTL

=============================================================================
