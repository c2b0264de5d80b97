------------------------------ MODULE Desktop ------------------------------
(***************************************************************************)
(* The Windows desktop as the server sees it through the Win32 calls it    *)
(* makes.  The desktop is not part of the program: it moves whenever it    *)
(* likes.  What EnumWindows() reports matters only at the moment it is     *)
(* called, so it is a choice made by the caller; the foreground window is  *)
(* state, because the server caches it and later acts on the cached value. *)
(***************************************************************************)

CONSTANTS
  Window,   \* window handles (HWND)
  NULL      \* the null handle; also "no client", "no thread"

ASSUME WindowAssumption == NULL \notin Window

VARIABLE foreground   \* the window that keyboard input goes to, NULL if none

DesktopTypeOK == foreground \in Window \cup {NULL}

DesktopInit == foreground \in Window \cup {NULL}

(***************************************************************************)
(* The sets that EnumWindows(), filtered by hasGUI(), may report: windows  *)
(* are created and destroyed, shown and hidden, get and lose their title   *)
(* between any two calls.                                                  *)
(***************************************************************************)
MyEnumWindows == SUBSET Window

GetForegroundWindow == foreground

(***************************************************************************)
(* Another window comes to the foreground, listed or not (the task bar, a  *)
(* window without a title), or for a moment none has the focus.            *)
(***************************************************************************)
ForegroundChanges ==
  \E h \in Window \cup {NULL} : h # foreground /\ foreground' = h
=============================================================================
