------------------------------ MODULE Keyconv ------------------------------
(***************************************************************************)
(* Key codes.  keycodes.yaml relates the key codes of the protocol, the    *)
(* keys of Qt and the virtual keys of Windows; the conversions of client   *)
(* and server are switches generated from it, one case for each entry.     *)
(* A key of Qt is a record of the key and its modifiers, because a key of  *)
(* the numeric keypad is a plain key with KeypadModifier.                  *)
(***************************************************************************)
CONSTANTS
  Table,        \* entries [proto, qt, vk]
  KeyUnknown,   \* the code of every key that is not in the table
  Key_unknown,  \* what toQtKey() returns for it
  InvalidKey    \* what vk_of_proto() returns for it, -1

ASSUME TableAssumption ==
  /\ \A d, e \in Table :
       d = e \/ (d.proto # e.proto /\ d.qt # e.qt /\ d.vk # e.vk)
  /\ \A e \in Table : e.proto # KeyUnknown /\ e.qt # Key_unknown /\ e.vk # InvalidKey

ToKeycode(k) ==
  IF \E e \in Table : e.qt = k THEN (CHOOSE e \in Table : e.qt = k).proto ELSE KeyUnknown

ToQtKey(p) ==
  IF \E e \in Table : e.proto = p THEN (CHOOSE e \in Table : e.proto = p).qt ELSE Key_unknown

VkOfProto(p) ==
  IF \E e \in Table : e.proto = p THEN (CHOOSE e \in Table : e.proto = p).vk ELSE InvalidKey

ProtoOfVk(v) ==
  IF \E e \in Table : e.vk = v THEN (CHOOSE e \in Table : e.vk = v).proto ELSE KeyUnknown
=============================================================================
