---------------------------- MODULE MCKeystroke ----------------------------
(***************************************************************************)
(* An instance of Keystroke for TLC: a digit that is on the keypad too,    *)
(* with and without modifiers, Alt+F4, and a key that is not in the table. *)
(***************************************************************************)
EXTENDS Keystroke, TLC

CONSTANTS w1, w2

Plain(k) == [key |-> k, mods |-> {}]

MCTable == {
  [proto |-> "Key5",       qt |-> Plain("5"),  vk |-> "VK_5"],
  [proto |-> "KeyKeypad5", qt |-> [key |-> "5", mods |-> {"keypad"}], vk |-> "VK_NUMPAD5"],
  [proto |-> "KeyF4",      qt |-> Plain("F4"), vk |-> "VK_F4"]}

MCAltF4 == [key |-> "F4", mods |-> {"alt"}]
MCCombo == {MCAltF4, Plain("5"), [key |-> "5", mods |-> {"keypad"}], Plain("other"),
            [key |-> "5", mods |-> {"ctrl", "shift"}]}

Symmetry == Permutations(Worker)
=============================================================================
