------------------------- MODULE DrmCompatShimProofs -------------------------
(***************************************************************************)
(* The whole system above the driver: the runtime, its display side and a  *)
(* DRM client beside the runtime's own callers.                            *)
(***************************************************************************)
EXTENDS DrmCompatShim, GraphicsRuntimeProofs

-----------------------------------------------------------------------------
(***************************************************************************)
(* The two places that keep the id of a resource without being told when   *)
(* it goes: a cursor, and a client that was given a descriptor.  Both are  *)
(* safe for one reason, that an id is never given twice; so nobody keeps   *)
(* an id that was not given yet.                                           *)
(***************************************************************************)
CursorsKnown ==
  \A c \in DOMAIN cursors :
    cursors[c] \in [image : 0 .. issued, visible : BOOLEAN]

KeptIds ==
  /\ IdsGiven
  /\ CursorsKnown /\ CursorsNeverShowBuffers
  /\ export[1] \in 0 .. issued /\ ExportsNeverRebind

LEMMA KeptInit == ASSUME ShimInit PROVE KeptIds
BY DEF ShimInit, DisplayInit, Init, Driver!Init, EmptyTable, NeverCreated,
       Nothing, Names, KeptIds, IdsGiven, CursorsKnown, CursorsNeverShowBuffers,
       ExportsNeverRebind

(* A step of the runtime, for whichever caller, leaves both as they are.   *)
LEMMA KeptByRuntime ==
  ASSUME KeptIds, IdsGiven', NothingRebinds, UNCHANGED <<displayVars, export>>
  PROVE  KeptIds'
<1> USE DEF KeptIds, IdsGiven, NothingRebinds
<1>1. UNCHANGED <<cursors, export>>
  BY DEF displayVars
<1>2. \A h \in 0 .. issued : h \in DOMAIN resources' =>
        h \in DOMAIN resources /\ resources'[h] = resources[h]
  OBVIOUS
<1>3. CursorsKnown'
  BY <1>1 DEF CursorsKnown
<1>4. CursorsNeverShowBuffers'
  BY <1>1, <1>2 DEF CursorsKnown, CursorsNeverShowBuffers, IsImage
<1>5. export'[1] \in 0 .. issued'
  BY <1>1
<1>6. ExportsNeverRebind'
  BY <1>1, <1>2 DEF ExportsNeverRebind, Names
<1> QED
  BY <1>3, <1>4, <1>5, <1>6

LEMMA KeptByDisplay ==
  ASSUME KeptIds, DisplayCall, UNCHANGED <<vars, export>>
  PROVE  KeptIds'
<1> USE DEF KeptIds
<1>1. UNCHANGED <<issued, resources, export>>
  BY DEF vars, driverVars, tables
<1>2. ASSUME NEW c, NEW cursor \in [image : 0 .. issued, visible : BOOLEAN],
             SetCursor(c, cursor),
             cursor.image \in DOMAIN resources => IsImage(cursor.image)
      PROVE  KeptIds'
  <2>1. /\ DOMAIN cursors' = DOMAIN cursors \cup {c}
        /\ cursors'[c] = cursor
        /\ \A x \in DOMAIN cursors \ {c} : cursors'[x] = cursors[x]
    BY <1>2 DEF SetCursor, Insert
  <2> QED
    BY <1>1, <1>2, <2>1 DEF IdsGiven, CursorsKnown, CursorsNeverShowBuffers,
                            IsImage, ExportsNeverRebind, Names
<1>3. ASSUME NEW c
      PROVE  /\ CursorState(c) \in [image : 0 .. issued, visible : BOOLEAN]
             /\ CursorState(c).image \in DOMAIN resources =>
                  IsImage(CursorState(c).image)
  BY DEF IdsGiven, CursorsKnown, CursorsNeverShowBuffers, CursorState,
         DefaultCursor, NoImage
<1>4. ASSUME NEW c, NEW r \in 1 .. MaxAllocs, SetCursorImage(c, r)
      PROVE  KeptIds'
  <2>1. r \in 0 .. issued /\ IsImage(r)
    BY <1>4 DEF SetCursorImage, IsImage, IdsGiven
  <2> QED
    BY <1>2, <1>3, <1>4, <2>1 DEF SetCursorImage
<1>5. ASSUME NEW c, ShowCursor(c) \/ HideCursor(c) \/ SetCursorPosition(c)
      PROVE  KeptIds'
  BY <1>2, <1>3, <1>5 DEF ShowCursor, HideCursor, SetCursorPosition
<1>6. CASE UNCHANGED cursors
  BY <1>1, <1>6 DEF IdsGiven, CursorsKnown, CursorsNeverShowBuffers, IsImage,
                    ExportsNeverRebind, Names
<1>7. ASSUME NEW c, RegisterConnector(c) \/ PresentFrame(c) \/ PresentFrameFails(c)
      PROVE  UNCHANGED cursors
  BY <1>7 DEF RegisterConnector, PresentFrame, PresentFrameFails
<1> QED
  BY <1>4, <1>5, <1>6, <1>7 DEF DisplayCall

LEMMA KeptStep ==
  ASSUME KeptIds, [ShimNext]_<<vars, displayVars, export>>
  PROVE  KeptIds'
<1>1. IdsGiven
  BY DEF KeptIds
<1>2. CASE Next /\ UNCHANGED <<displayVars, export>>
  BY <1>1, <1>2, RuntimeKeepsNames, KeptByRuntime
<1>3. CASE DisplayCall /\ UNCHANGED <<vars, export>>
  BY <1>3, KeptByDisplay
<1>4. ASSUME NEW d \in Device, NEW size, GemCreate(d, size)
      PROVE  KeptIds'
  BY <1>1, <1>4, CreateAddsNewId, KeptByRuntime DEF GemCreate
<1>5. ASSUME NEW h, GemClose(h)
      PROVE  KeptIds'
  BY <1>1, <1>5, FreeTakesId, KeptByRuntime DEF GemClose
<1>6. ASSUME NEW h \in {NeverCreated} \cup 1 .. issued, PrimeHandleToFd(h)
      PROVE  KeptIds'
  <2>1. /\ UNCHANGED <<issued, resources, cursors>>
        /\ export' = <<h, Names(h)>>
    BY <1>6 DEF PrimeHandleToFd, vars, driverVars, tables, displayVars
  <2>2. export'[1] = h /\ export'[2] = Names(h)
    BY <2>1
  <2>3. h \in 0 .. issued
    BY <1>1 DEF NeverCreated, IdsGiven
  <2> QED
    BY <2>1, <2>2, <2>3 DEF KeptIds, IdsGiven, CursorsKnown,
       CursorsNeverShowBuffers, IsImage, ExportsNeverRebind, Names
<1>7. CASE UNCHANGED <<vars, displayVars, export>>
  BY <1>7 DEF vars, driverVars, tables, displayVars, KeptIds, IdsGiven,
     CursorsKnown, CursorsNeverShowBuffers, IsImage, ExportsNeverRebind, Names
<1> QED
  BY <1>2, <1>3, <1>4, <1>5, <1>6, <1>7 DEF ShimNext, ShimCall, DisplayNext

(***************************************************************************)
(* For any number of connectors, resources and calls: the id a cursor      *)
(* keeps never comes to name a buffer.                                     *)
(***************************************************************************)
THEOREM CursorsShowImages == ShimSpec => []CursorsNeverShowBuffers
<1>1. KeptIds => CursorsNeverShowBuffers
  BY DEF KeptIds
<1> QED
  BY <1>1, KeptInit, KeptStep, PTL DEF ShimSpec

(***************************************************************************)
(* For any clients and resources: a descriptor names what it was exported  *)
(* for or nothing, and one exported for nothing never names anything.      *)
(***************************************************************************)
THEOREM DescriptorsKeepTheirResource == ShimSpec => []ExportsNeverRebind
<1>1. KeptIds => ExportsNeverRebind
  BY DEF KeptIds
<1> QED
  BY <1>1, KeptInit, KeptStep, PTL DEF ShimSpec

-----------------------------------------------------------------------------
(***************************************************************************)
(* The display side and the shim do nothing to the runtime that its own    *)
(* callers could not do: a GEM handle is a buffer of the runtime.          *)
(***************************************************************************)
LEMMA ShimStepIsRuntimeStep ==
  ASSUME [ShimNext]_<<vars, displayVars, export>>
  PROVE  [Next]_vars
<1>1. ASSUME NEW d \in Device, NEW kind \in Kinds, kind.type = "Buffer",
             GemCreate(d, kind.size)
      PROVE  Next
  <2>1. kind = [type |-> "Buffer", size |-> kind.size]
    BY <1>1, GraphicsRuntimeAssumption DEF ResourceKind
  <2>2. CreateResource(d, kind)
    BY <1>1, <2>1 DEF GemCreate
  <2> QED
    BY <2>2 DEF Next, DeviceCalls
<1>2. ASSUME NEW h \in 1 .. MaxAllocs, GemClose(h)
      PROVE  Next
  BY <1>2 DEF GemClose, Next
<1>3. ASSUME NEW h, PrimeHandleToFd(h)
      PROVE  UNCHANGED vars
  BY <1>3 DEF PrimeHandleToFd
<1> QED
  BY <1>1, <1>2, <1>3 DEF ShimNext, ShimCall, DisplayNext

(***************************************************************************)
(* The runtime with its display and a DRM client beside its own callers is *)
(* still the runtime: what was proved of it holds of the whole system.     *)
(***************************************************************************)
THEOREM SystemIsRuntime == ShimSpec => Spec
<1>1. ShimInit => Init
  BY DEF ShimInit, DisplayInit
<1>2. [ShimNext]_<<vars, displayVars, export>> => [Next]_vars
  BY ShimStepIsRuntimeStep
<1> QED
  BY <1>1, <1>2, PTL DEF ShimSpec, Spec

(***************************************************************************)
(* In particular, whatever the display and the DRM client do: no object    *)
(* outlives its device, every resource has its bytes and every pool its    *)
(* account, recovery takes one device, and timelines and faults change for *)
(* the reasons they may.                                                   *)
(***************************************************************************)
THEOREM SystemKeepsRuntime ==
  ShimSpec => /\ []ObjectsHaveDevices /\ []ResourcesHaveTheirBytes
              /\ []Accounts!VramAccounting
              /\ RecoveryIsolates /\ FaultsHaveCause /\ HandlesGoWithMemory
              /\ TimelinesMoveByExecution /\ ExecutionsAreSignalled
BY SystemIsRuntime, ObjectsKeepDevices, ResourcesAreSized, RuntimePoolsAccounted,
   RecoveryTakesOneDevice, FaultsAreCaused, MemoryGoesWithHandles,
   TimelinesMoveForward, NothingRunsInSilence, PTL

(***************************************************************************)
(* No call of the shim, closing a handle included, leaves a handle of the  *)
(* runtime without its memory, unless an administrator frees it.           *)
(***************************************************************************)
THEOREM SystemStaysBacked ==
  ASSUME "free_vram" \notin AdminCalls
  PROVE  ShimSpec => []ResourcesBacked
BY SystemIsRuntime, ResourcesStayBacked, PTL

-----------------------------------------------------------------------------
(***************************************************************************)
(* The screen.  Framebuffers are counted, so the last one presented is the *)
(* greatest, and it is nobody else's.                                      *)
(***************************************************************************)
ScreensTyped ==
  /\ connectors \subseteq Connector
  /\ framebuffers \in 0 .. MaxFramebuffers
  /\ DOMAIN scanout \subseteq connectors
  /\ \A c \in DOMAIN scanout : scanout[c] \in 1 .. framebuffers
  /\ DOMAIN cursors \subseteq connectors
  /\ DOMAIN presented \subseteq 1 .. framebuffers
  /\ \A f \in DOMAIN presented : presented[f] \in Connector

Screens == ScreensTyped /\ ScreensShowLastPresent

LEMMA ScreensInit == ASSUME ShimInit PROVE Screens
BY DisplayAssumption
   DEF ShimInit, DisplayInit, EmptyTable, Screens, ScreensTyped,
       ScreensShowLastPresent

LEMMA PresentKeepsScreens ==
  ASSUME Screens, NEW c \in Connector, PresentFrame(c)
  PROVE  Screens'
<1> USE DEF Screens, ScreensTyped
<1> DEFINE f == framebuffers'
<1>1. /\ f = framebuffers + 1 /\ f \in 1 .. MaxFramebuffers
      /\ f \notin DOMAIN presented
      /\ c \in connectors
      /\ UNCHANGED <<connectors, cursors>>
  BY DisplayAssumption DEF PresentFrame, AllocateFramebuffer, PageFlip, HasConnector
<1>2. /\ DOMAIN scanout' = DOMAIN scanout \cup {c}
      /\ scanout'[c] = f
      /\ \A x \in DOMAIN scanout \ {c} : scanout'[x] = scanout[x]
  <2>1. scanout' = Insert(scanout, c, f)
    BY DEF PresentFrame, PageFlip
  <2> QED
    BY <2>1 DEF Insert
<1>3. /\ DOMAIN presented' = DOMAIN presented \cup {f}
      /\ presented'[f] = c
      /\ \A x \in DOMAIN presented \ {f} : presented'[x] = presented[x]
  <2>1. presented' = Insert(presented, f, c)
    BY DEF PresentFrame
  <2> QED
    BY <2>1 DEF Insert
<1>4. ScreensTyped'
  BY <1>1, <1>2, <1>3
<1>5. ASSUME NEW e \in Connector
      PROVE  LET own == {x \in DOMAIN presented' : presented'[x] = e}
             IN  IF e \in DOMAIN scanout'
                 THEN scanout'[e] \in own /\ \A x \in own : x <= scanout'[e]
                 ELSE own = {}
  <2>1. CASE e = c
    BY <1>1, <1>2, <1>3, <2>1
  <2>2. CASE e # c
    <3>1. {x \in DOMAIN presented' : presented'[x] = e}
            = {x \in DOMAIN presented : presented[x] = e}
      BY <1>1, <1>3, <2>2
    <3>2. /\ e \in DOMAIN scanout' <=> e \in DOMAIN scanout
          /\ e \in DOMAIN scanout => scanout'[e] = scanout[e]
      BY <1>2, <2>2
    <3> QED
      BY <3>1, <3>2 DEF ScreensShowLastPresent
  <2> QED
    BY <2>1, <2>2
<1> QED
  BY <1>4, <1>5 DEF ScreensShowLastPresent

LEMMA ScreensStep ==
  ASSUME Screens, [ShimNext]_<<vars, displayVars, export>>
  PROVE  Screens'
<1> USE DEF Screens, ScreensTyped, ScreensShowLastPresent
<1>1. ASSUME NEW c \in Connector, NEW cursor, SetCursor(c, cursor)
      PROVE  Screens'
  <2>1. DOMAIN cursors' = DOMAIN cursors \cup {c} /\ c \in connectors
    BY <1>1 DEF SetCursor, Insert, HasConnector
  <2> QED
    BY <1>1, <2>1 DEF SetCursor
<1>2. ASSUME NEW c \in Connector,
             \/ \E r \in 1 .. MaxAllocs : SetCursorImage(c, r)
             \/ SetCursorPosition(c) \/ ShowCursor(c) \/ HideCursor(c)
      PROVE  \E cursor : SetCursor(c, cursor)
  BY <1>2 DEF SetCursorImage, SetCursorPosition, ShowCursor, HideCursor
<1>3. ASSUME NEW c \in Connector, RegisterConnector(c)
      PROVE  Screens'
  BY <1>3 DEF RegisterConnector
<1>4. ASSUME NEW c \in Connector, PresentFrameFails(c)
      PROVE  Screens'
  BY <1>4, DisplayAssumption DEF PresentFrameFails, AllocateFramebuffer
<1>5. CASE UNCHANGED displayVars
  BY <1>5 DEF displayVars
<1>6. CASE DisplayCall
  BY <1>1, <1>2, <1>3, <1>4, <1>6, PresentKeepsScreens DEF DisplayCall
<1>7. ShimCall \/ UNCHANGED <<vars, displayVars, export>> => UNCHANGED displayVars
  BY DEF ShimCall, GemCreate, GemClose, PrimeHandleToFd
<1> QED
  BY <1>5, <1>6, <1>7 DEF ShimNext, DisplayNext

(***************************************************************************)
(* For any number of connectors and presents, some of which fail half way: *)
(* every screen shows the last frame presented to it, and no other does.   *)
(***************************************************************************)
THEOREM ScreensShowTheirLast == ShimSpec => []ScreensShowLastPresent
<1>1. Screens => ScreensShowLastPresent
  BY DEF Screens
<1> QED
  BY <1>1, ScreensInit, ScreensStep, PTL DEF ShimSpec

(***************************************************************************)
(* Type correctness of the whole system above the driver.                  *)
(***************************************************************************)
THEOREM SystemTypeCorrect == ShimSpec => []ShimTypeOK
<1>1. TypeOK /\ Screens /\ KeptIds => ShimTypeOK
  BY DEF Screens, ScreensTyped, KeptIds, IdsGiven, CursorsKnown, ShimTypeOK,
         DisplayTypeOK, NoImage, NeverCreated
<1> QED
  BY <1>1, SystemIsRuntime, RuntimeTypeCorrect, ScreensInit, ScreensStep,
     KeptInit, KeptStep, PTL DEF ShimSpec

=============================================================================
