----------------------------- MODULE Keystroke -----------------------------
(***************************************************************************)
(* The way of a keystroke, from the widget of a client to the keyboard of  *)
(* a server whose other workers serve other clients.  How the request gets *)
(* there is in Session and PdsServer.                                      *)
(***************************************************************************)
EXTENDS KeystrokeSelector, Injection

VARIABLE asked   \* history: the combination that each worker was asked for

vars == <<selectorVars, injectionVars, asked>>

TypeOK ==
  /\ SelectorTypeOK /\ InjectionTypeOK
  /\ asked \in [Worker -> Combo \cup {NoKey}]

Init == SelectorInit /\ InjectionInit /\ asked = [w \in Worker |-> NoKey]

\* Mutant: set_alt() is missing.
RequestWithoutAlt(k) ==
  IF k = NoKey THEN [code |-> KeyUnknown, mods |-> {}]
  ELSE [code |-> ToKeycode([k EXCEPT !.mods = {}]), mods |-> (k.mods \cap Modifier) \ {"alt"}]

\* MainWindow::sendKeystroke(): the key without its modifiers, among which is
\* KeypadModifier, and four of the modifiers.
Request(k) ==
  IF k = NoKey THEN [code |-> KeyUnknown, mods |-> {}]
  ELSE [code |-> ToKeycode([k EXCEPT !.mods = {}]), mods |-> k.mods \cap Modifier]

Ask(w, k) ==
  /\ Serve(w, Request(k))
  /\ asked' = [asked EXCEPT ![w] = k]
  /\ UNCHANGED selectorVars

\* The button `Send`.
SendKeystroke(w) == open /\ Ask(w, key_)

\* Another client, whose selector holds any combination.
OtherClient(w) == \E k \in Combo : Ask(w, k)

Next ==
  \/ SelectorNext /\ UNCHANGED <<injectionVars, asked>>
  \/ \E w \in Worker :
       \/ SendKeystroke(w) \/ OtherClient(w)
       \/ (Press(w) \/ Release(w)) /\ UNCHANGED <<selectorVars, asked>>

Spec == Init /\ [][Next]_vars

-----------------------------------------------------------------------------
\* The entry of a combination whose key is not on the keypad.
Entry(k) == {e \in Table : e.qt = [k EXCEPT !.mods = {}]}

\* The server types exactly the combination the client showed, when its key is
\* in the table and not on the keypad, and no other key is about meanwhile.
TypesWhatIsAsked ==
  \A w \in Worker :
    (wpc[w] = "idle" /\ typed[w] # {} /\ asked[w].mods \subseteq Modifier) =>
      \E e \in Entry(asked[w]) : typed[w] = asked[w].mods \cup {e.vk}
=============================================================================
