------------------------- MODULE KeystrokeSelector -------------------------
(***************************************************************************)
(* The widget that takes the key combination to be sent: typed as text, or *)
(* grabbed from the keyboard; and the window around it, which must not be  *)
(* closed by the combination Alt+F4 while that is being grabbed.           *)
(***************************************************************************)
CONSTANTS
  Combo,      \* key combinations [key, mods]
  NoKey,      \* an empty QKeySequence, and the text of it
  AltF4,      \* the combination that closes a window
  GARBAGE     \* a text that names no combination

ASSUME ComboAssumption ==
  AltF4 \in Combo /\ {NoKey, GARBAGE} \cap Combo = {} /\ NoKey # GARBAGE

VARIABLES
  key_, waitingInput_,
  shown, green,   \* the text of the combo box; is it in successPalette_?
  grabbing,       \* keyboardGrabber() is the selector
  open            \* is the main window open?

selectorVars == <<key_, waitingInput_, shown, green, grabbing, open>>

SelectorTypeOK ==
  /\ key_ \in Combo \cup {NoKey}
  /\ shown \in Combo \cup {NoKey, GARBAGE}
  /\ waitingInput_ \in BOOLEAN /\ green \in BOOLEAN
  /\ grabbing \in BOOLEAN /\ open \in BOOLEAN

SelectorInit ==
  /\ key_ = NoKey /\ waitingInput_ = FALSE
  /\ shown = NoKey /\ green = FALSE
  /\ grabbing = FALSE /\ open = TRUE

\* Mutants: the keyboard is not released; the text is not brought up to date.
SetKeyGrabbing(k) ==
  /\ waitingInput_' = FALSE /\ UNCHANGED grabbing
  /\ key_' = k /\ shown' = k /\ green' = TRUE

SetKeyUnshown(k) ==
  /\ waitingInput_' = FALSE /\ grabbing' = FALSE
  /\ key_' = k /\ green' = TRUE /\ UNCHANGED shown

SetKey(k) ==
  /\ waitingInput_' = FALSE /\ grabbing' = FALSE
  /\ key_' = k /\ shown' = k /\ green' = TRUE

AcquireKey ==
  /\ waitingInput_' = TRUE /\ grabbing' = TRUE
  /\ UNCHANGED <<key_, shown, green, open>>

\* A key pressed with its modifiers; a modifier alone is not taken.
KeyPressEvent(k) ==
  /\ waitingInput_ /\ SetKey(k)
  /\ UNCHANGED open

\* An invalid text turns red and leaves key_ as it is.
SetKeyFromString(text) ==
  /\ \/ text \in Combo /\ SetKey(text)
     \/ text = GARBAGE /\ green' = FALSE /\ shown' = text
          /\ UNCHANGED <<key_, waitingInput_, grabbing>>
  /\ UNCHANGED open

\* closeEvent() of MainWindow: a combination that is being grabbed is Alt+F4.
CloseEvent ==
  IF grabbing THEN SetKey(AltF4) /\ UNCHANGED open
  ELSE open' = FALSE /\ UNCHANGED <<key_, waitingInput_, shown, green, grabbing>>

SelectorNext ==
  /\ open
  /\ \/ AcquireKey \/ CloseEvent
     \/ \E k \in Combo : KeyPressEvent(k)
     \/ \E t \in Combo \cup {GARBAGE} : SetKeyFromString(t)

-----------------------------------------------------------------------------
\* The keyboard is grabbed exactly while the selector waits for a key: never
\* left grabbed, whichever way the wait ends.
GrabbedWhileWaiting == grabbing = waitingInput_

\* What is shown in green is what will be sent.
GreenIsSent == green => shown = key_
=============================================================================
