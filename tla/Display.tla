------------------------------- MODULE Display -------------------------------
(***************************************************************************)
(* What GraphicsRuntime (crates/graphics_runtime/src/lib.rs) does towards  *)
(* the screen: the PresentationBridge to the kernel's gpu_driver, and the  *)
(* table of cursors, one per connector, whose images are resources of the  *)
(* runtime.  Calls of both kinds interleave with all the others.           *)
(*                                                                         *)
(* gpu_driver::GPUDriver is outside the repository and is modelled from    *)
(* its use: connectors are only ever added, a framebuffer gets a fresh id  *)
(* and is never freed, and a page flip of an unknown connector fails, as   *)
(* one of a known connector may.  The size of a framebuffer and where on   *)
(* the screen a cursor is decide nothing here and are left out.            *)
(***************************************************************************)
EXTENDS GraphicsRuntime

CONSTANTS Connector,       \* the connector ids callers use
          MaxFramebuffers  \* bound: how many fit the display's memory

ASSUME DisplayAssumption == MaxFramebuffers \in Nat

VARIABLES
  (* gpu_driver *)
  connectors,    \* the connectors that were registered
  framebuffers,  \* how many framebuffers were allocated; ids are 1, 2, ...
  scanout,       \* connector -> the framebuffer it shows, if it shows one
  (* the runtime *)
  cursors,       \* connector -> [image, visible], made on first use
  (* what is observed of a behaviour *)
  presented      \* framebuffer -> the connector present returned it for

displayVars == <<connectors, framebuffers, scanout, cursors, presented>>

NoImage == 0
DefaultCursor == [image |-> NoImage, visible |-> FALSE]

DisplayInit ==
  /\ Init
  /\ connectors = {}
  /\ framebuffers = 0
  /\ scanout = EmptyTable
  /\ cursors = EmptyTable
  /\ presented = EmptyTable

-----------------------------------------------------------------------------
(* PresentationBridge *)

RegisterConnector(c) ==
  /\ connectors' = connectors \cup {c}
  /\ UNCHANGED <<framebuffers, scanout, cursors, presented>>

(* Bug: a connector nobody registered will do.                             *)
AnyConnector(c) == c \in Connector

HasConnector(c) == c \in connectors

(* A framebuffer of its own for every present; Err when there is no room.  *)
AllocateFramebuffer ==
  /\ framebuffers < MaxFramebuffers
  /\ framebuffers' = framebuffers + 1

PageFlip(c) ==
  /\ HasConnector(c)
  /\ scanout' = Insert(scanout, c, framebuffers')

PresentFrame(c) ==
  /\ AllocateFramebuffer
  /\ PageFlip(c)
  /\ presented' = Insert(presented, framebuffers', c)
  /\ UNCHANGED <<connectors, cursors>>

(* Bug: the result of page_flip is not looked at.                          *)
PresentIgnoresFlip(c) ==
  /\ AllocateFramebuffer
  /\ presented' = Insert(presented, framebuffers', c)
  /\ UNCHANGED <<connectors, scanout, cursors>>

(* page_flip fails: Err, and the framebuffer stays allocated.              *)
PresentFrameFails(c) ==
  /\ AllocateFramebuffer
  /\ UNCHANGED <<connectors, scanout, cursors, presented>>

-----------------------------------------------------------------------------
(* The cursors. *)

(* cursor_mut: the connector is known; its cursor is there or is made.     *)
CursorState(c) == IF c \in DOMAIN cursors THEN cursors[c] ELSE DefaultCursor

SetCursor(c, cursor) ==
  /\ HasConnector(c)
  /\ cursors' = Insert(cursors, c, cursor)
  /\ UNCHANGED <<connectors, framebuffers, scanout, presented>>

IsImage(r) == r \in DOMAIN resources /\ resources[r].kind.type = "Image"

SetCursorImage(c, r) ==
  /\ IsImage(r)
  /\ SetCursor(c, [CursorState(c) EXCEPT !.image = r])

SetCursorPosition(c) == SetCursor(c, CursorState(c))

ShowCursor(c) == SetCursor(c, [CursorState(c) EXCEPT !.visible = TRUE])

HideCursor(c) == SetCursor(c, [CursorState(c) EXCEPT !.visible = FALSE])

DisplayCall ==
  \E c \in Connector :
    \/ RegisterConnector(c)
    \/ PresentFrame(c) \/ PresentFrameFails(c)
    \/ \E r \in 1 .. MaxAllocs : SetCursorImage(c, r)
    \/ SetCursorPosition(c) \/ ShowCursor(c) \/ HideCursor(c)

DisplayNext ==
  \/ Next /\ UNCHANGED displayVars
  \/ DisplayCall /\ UNCHANGED vars

DisplaySpec == DisplayInit /\ [][DisplayNext]_<<vars, displayVars>>

-----------------------------------------------------------------------------
DisplayTypeOK ==
  /\ TypeOK
  /\ connectors \subseteq Connector
  /\ framebuffers \in 0 .. MaxFramebuffers
  /\ DOMAIN scanout \subseteq connectors
  /\ \A c \in DOMAIN scanout : scanout[c] \in 1 .. framebuffers
  /\ DOMAIN cursors \subseteq connectors
  /\ \A c \in DOMAIN cursors :
       cursors[c] \in [image : {NoImage} \cup 1 .. issued, visible : BOOLEAN]
  /\ DOMAIN presented \subseteq 1 .. framebuffers
  /\ \A f \in DOMAIN presented : presented[f] \in Connector

(***************************************************************************)
(* A connector shows the framebuffer of the last present that succeeded    *)
(* there, and no other connector shows it: a present that fails half way,  *)
(* after its framebuffer was allocated, changes no screen and hands no id  *)
(* out (graphics_runtime lib.rs:164-172).                                  *)
(***************************************************************************)
ScreensShowLastPresent ==
  \A c \in Connector :
    LET own == {f \in DOMAIN presented : presented[f] = c}
    IN  IF c \in DOMAIN scanout
        THEN scanout[c] \in own /\ \A f \in own : f <= scanout[c]
        ELSE own = {}

(***************************************************************************)
(* The id a cursor keeps is that of an image or of nothing: after the      *)
(* image was freed or went with its device, in whatever order other        *)
(* resources come and go, the id never comes to name a buffer              *)
(* (graphics_runtime lib.rs:278-294).                                      *)
(***************************************************************************)
CursorsNeverShowBuffers ==
  \A c \in DOMAIN cursors :
    cursors[c].image \in DOMAIN resources => IsImage(cursors[c].image)

=============================================================================
