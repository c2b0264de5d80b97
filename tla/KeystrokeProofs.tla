--------------------------- MODULE KeystrokeProofs ---------------------------
(***************************************************************************)
(* Proofs about the way of a keystroke, for every table, every set of      *)
(* combinations and any number of workers.                                 *)
(***************************************************************************)
EXTENDS Keystroke, TLAPS

-----------------------------------------------------------------------------
(* What the conversions of key codes are to each other *)

\* Each conversion takes an entry's column to another column of the entry.
LEMMA Columns ==
  ASSUME NEW e \in Table
  PROVE  /\ ToKeycode(e.qt) = e.proto /\ ToQtKey(e.proto) = e.qt
         /\ VkOfProto(e.proto) = e.vk /\ ProtoOfVk(e.vk) = e.proto
<1>1. ToKeycode(e.qt) = e.proto
  <2>1. (CHOOSE d \in Table : d.qt = e.qt) = e
    BY TableAssumption
  <2> QED
    BY <2>1 DEF ToKeycode
<1>2. ToQtKey(e.proto) = e.qt /\ VkOfProto(e.proto) = e.vk
  <2>1. (CHOOSE d \in Table : d.proto = e.proto) = e
    BY TableAssumption
  <2> QED
    BY <2>1 DEF ToQtKey, VkOfProto
<1>3. ProtoOfVk(e.vk) = e.proto
  <2>1. (CHOOSE d \in Table : d.vk = e.vk) = e
    BY TableAssumption
  <2> QED
    BY <2>1 DEF ProtoOfVk
<1> QED
  BY <1>1, <1>2, <1>3

\* What is not in the table goes to KeyUnknown, and from there to no key.
LEMMA Unknown ==
  /\ \A q : (\A e \in Table : e.qt # q) => ToKeycode(q) = KeyUnknown
  /\ \A p : (\A e \in Table : e.proto # p) => VkOfProto(p) = InvalidKey /\ ToQtKey(p) = Key_unknown
  /\ VkOfProto(KeyUnknown) = InvalidKey /\ ToQtKey(KeyUnknown) = Key_unknown
BY TableAssumption DEF ToKeycode, VkOfProto, ToQtKey

(***************************************************************************)
(* From a key of the client to the virtual key of the server: every key    *)
(* arrives as that of its own entry in the table, and a key that is not in *)
(* the table as none (toKeycode() of the client, vk_of_proto() of the      *)
(* server).                                                                *)
(***************************************************************************)
THEOREM KeyArrives ==
  ASSUME NEW q
  PROVE  IF \E e \in Table : e.qt = q
           THEN \E e \in Table : e.qt = q /\ VkOfProto(ToKeycode(q)) = e.vk
           ELSE VkOfProto(ToKeycode(q)) = InvalidKey
BY Columns, Unknown

(***************************************************************************)
(* toQtKey() undoes toKeycode() on the keys of the table, and proto_of_vk()*)
(* undoes vk_of_proto() on its key codes.                                  *)
(***************************************************************************)
THEOREM RoundTrips ==
  /\ \A e \in Table : ToQtKey(ToKeycode(e.qt)) = e.qt
  /\ \A e \in Table : ProtoOfVk(VkOfProto(e.proto)) = e.proto
BY Columns

-----------------------------------------------------------------------------
(* The sequences of inputs that a keystroke becomes *)

Elems(s) == {s[i] : i \in 1 .. Len(s)}
Held(m, mods) == IF m \in mods THEN <<m>> ELSE << >>

\* The elements of two sequences, one behind the other.
LEMMA ElemsConcat ==
  ASSUME NEW S, NEW s \in Seq(S), NEW t \in Seq(S)
  PROVE  s \o t \in Seq(S) /\ Elems(s \o t) = Elems(s) \cup Elems(t)
<1>1. s \o t \in Seq(S) /\ Len(s \o t) = Len(s) + Len(t)
  OBVIOUS
<1>2. \A i \in 1 .. Len(s) + Len(t) :
        (s \o t)[i] = IF i <= Len(s) THEN s[i] ELSE t[i - Len(s)]
  OBVIOUS
<1>3. ASSUME NEW x \in Elems(s \o t) PROVE x \in Elems(s) \cup Elems(t)
  <2>1. PICK i \in 1 .. Len(s) + Len(t) : x = (s \o t)[i]
    BY <1>1, <1>3 DEF Elems
  <2>2. CASE i <= Len(s)
    BY <1>2, <2>1, <2>2 DEF Elems
  <2>3. CASE i > Len(s)
    <3>1. i - Len(s) \in 1 .. Len(t)
      BY <2>1, <2>3
    <3> QED
      BY <1>2, <2>1, <2>3, <3>1 DEF Elems
  <2> QED
    BY <2>1, <2>2, <2>3
<1>4. ASSUME NEW x \in Elems(s) PROVE x \in Elems(s \o t)
  <2>1. PICK i \in 1 .. Len(s) : x = s[i]
    BY <1>4 DEF Elems
  <2> QED
    BY <1>1, <1>2, <2>1 DEF Elems
<1>5. ASSUME NEW x \in Elems(t) PROVE x \in Elems(s \o t)
  <2>1. PICK i \in 1 .. Len(t) : x = t[i]
    BY <1>5 DEF Elems
  <2>2. i + Len(s) \in 1 .. Len(s) + Len(t) /\ ~(i + Len(s) <= Len(s))
        /\ (i + Len(s)) - Len(s) = i
    BY <2>1
  <2> QED
    BY <1>1, <1>2, <2>1, <2>2 DEF Elems
<1> QED
  BY <1>1, <1>3, <1>4, <1>5

\* One modifier, if it is asked for.
LEMMA ElemsHeld ==
  ASSUME NEW S, NEW m \in S, NEW mods
  PROVE  Held(m, mods) \in Seq(S) /\ Elems(Held(m, mods)) = {m} \cap mods
BY DEF Held, Elems

\* sendKeystroke() presses the modifiers of the request and its key.
LEMMA InputsAre ==
  ASSUME NEW req, VkOfProto(req.code) \in {e.vk : e \in Table}
  PROVE  /\ Inputs(req) \in Seq(VirtualKey) /\ Len(Inputs(req)) > 0
         /\ Elems(Inputs(req)) = (req.mods \cap Modifier) \cup {VkOfProto(req.code)}
<1> DEFINE S == VirtualKey
           key == <<VkOfProto(req.code)>>
           c == Held("ctrl", req.mods)
           ca == c \o Held("alt", req.mods)
           cas == ca \o Held("shift", req.mods)
           casm == cas \o Held("meta", req.mods)
<1>1. /\ VkOfProto(req.code) \in S
      /\ "ctrl" \in S /\ "alt" \in S /\ "shift" \in S /\ "meta" \in S
  BY DEF VirtualKey, Modifier
<1>2. key \in Seq(S) /\ Elems(key) = {VkOfProto(req.code)}
  BY <1>1 DEF Elems
<1>3. Inputs(req) = casm \o key
  BY DEF Inputs, Held
<1>4. c \in Seq(S) /\ Elems(c) = {"ctrl"} \cap req.mods
  BY <1>1, ElemsHeld
<1> HIDE DEF c, S, key
<1>5. ca \in Seq(S) /\ Elems(ca) = {"ctrl", "alt"} \cap req.mods
  BY <1>1, <1>4, ElemsHeld, ElemsConcat
<1> HIDE DEF ca
<1>6. cas \in Seq(S) /\ Elems(cas) = {"ctrl", "alt", "shift"} \cap req.mods
  BY <1>1, <1>5, ElemsHeld, ElemsConcat
<1> HIDE DEF cas
<1>7. casm \in Seq(S) /\ Elems(casm) = Modifier \cap req.mods
  BY <1>1, <1>6, ElemsHeld, ElemsConcat DEF Modifier
<1> HIDE DEF casm
<1>8. Inputs(req) \in Seq(S) /\ Elems(Inputs(req)) = (Modifier \cap req.mods) \cup {VkOfProto(req.code)}
  BY <1>2, <1>3, <1>7, ElemsConcat
<1>9. Len(Inputs(req)) > 0
  <2>1. Len(Inputs(req)) \in Nat /\ Elems(Inputs(req)) # {}
    BY <1>8
  <2> QED
    BY <2>1 DEF Elems
<1> QED
  BY <1>8, <1>9 DEF S

\* A virtual key that is valid comes from the table.
LEMMA ValidKey ==
  ASSUME NEW p, VkOfProto(p) # InvalidKey
  PROVE  VkOfProto(p) \in {e.vk : e \in Table}
BY Unknown, Columns

-----------------------------------------------------------------------------
(***************************************************************************)
(* The selector.  Each step sets the keyboard and the wait for a key at    *)
(* once, and shows in green only the key that it stores.                   *)
(***************************************************************************)
Selector == SelectorTypeOK /\ GrabbedWhileWaiting /\ GreenIsSent

LEMMA SelectorStep ==
  ASSUME Selector, SelectorNext \/ UNCHANGED selectorVars
  PROVE  Selector'
<1> USE DEF Selector, SelectorTypeOK, GrabbedWhileWaiting, GreenIsSent
<1>1. CASE AcquireKey
  BY <1>1 DEF AcquireKey
<1>2. CASE CloseEvent
  BY <1>2, ComboAssumption DEF CloseEvent, SetKey
<1>3. ASSUME NEW k \in Combo, KeyPressEvent(k) PROVE Selector'
  BY <1>3 DEF KeyPressEvent, SetKey
<1>4. ASSUME NEW t \in Combo \cup {GARBAGE}, SetKeyFromString(t) PROVE Selector'
  BY <1>4 DEF SetKeyFromString, SetKey
<1>5. CASE UNCHANGED selectorVars
  BY <1>5 DEF selectorVars
<1> QED
  BY <1>1, <1>2, <1>3, <1>4, <1>5 DEF SelectorNext

-----------------------------------------------------------------------------
(***************************************************************************)
(* The workers.  What a worker is about to press is what it was asked for, *)
(* and what it has typed is that and nothing else.                         *)
(***************************************************************************)
Pressed(w) ==
  LET req == Request(asked[w]) IN
  /\ asked[w] \in Combo
  /\ VkOfProto(req.code) # InvalidKey
  /\ ip[w] = Inputs(req)

Faithful ==
  \A w \in Worker :
    /\ wpc[w] = "press" => Pressed(w) /\ typed[w] = {}
    /\ wpc[w] = "release" => Pressed(w) /\ typed[w] \in {{}, KeysOf(w)}
    /\ typed[w] # {} =>
         /\ asked[w] \in Combo
         /\ VkOfProto(Request(asked[w]).code) # InvalidKey
         /\ typed[w] = Elems(Inputs(Request(asked[w])))

KeystrokeInv == TypeOK /\ Selector /\ KeysAreHeld /\ Faithful

\* A worker that holds no key can go on without one being lost.
LEMMA HeldByOthers ==
  ASSUME KeysAreHeld, NEW w \in Worker, wpc[w] # "release", UNCHANGED <<down, stuck>>,
         \A v \in Worker \ {w} : wpc'[v] = wpc[v] /\ ip'[v] = ip[v]
  PROVE  KeysAreHeld'
<1> SUFFICES ASSUME NEW x \in down, x \notin stuck
             PROVE  \E v \in Worker : wpc'[v] = "release" /\ x \in KeysOf(v)'
  BY DEF KeysAreHeld
<1>1. PICK v \in Worker : wpc[v] = "release" /\ x \in KeysOf(v)
  BY DEF KeysAreHeld
<1>2. v # w /\ wpc'[v] = wpc[v] /\ ip'[v] = ip[v]
  BY <1>1
<1> QED
  BY <1>1, <1>2 DEF KeysOf

\* What a worker has typed is no concern of another's step.
LEMMA FaithfulAlone ==
  ASSUME Faithful, NEW v \in Worker,
         wpc'[v] = wpc[v], ip'[v] = ip[v], typed'[v] = typed[v], asked'[v] = asked[v]
  PROVE  Faithful!(v)'
BY DEF Faithful, Pressed, KeysOf

\* A request is refused, or its keys will be pressed.
LEMMA AskStep ==
  ASSUME KeystrokeInv, NEW w \in Worker, NEW k \in Combo \cup {NoKey}, Ask(w, k)
  PROVE  KeystrokeInv'
<1> DEFINE req == Request(k)
<1>1. /\ wpc[w] = "idle" /\ asked' = [asked EXCEPT ![w] = k]
      /\ typed' = [typed EXCEPT ![w] = {}]
      /\ UNCHANGED <<down, stuck, selectorVars>>
  BY DEF Ask, Serve
<1>2. Selector'
  BY <1>1, SelectorStep DEF KeystrokeInv
<1>3. CASE Respond(w, "WindowLostFocus")
  <2>1. TypeOK'
    BY <1>1, <1>2, <1>3 DEF KeystrokeInv, Selector, TypeOK, InjectionTypeOK, Respond
  <2>2. KeysAreHeld'
    BY <1>1, <1>3, HeldByOthers DEF KeystrokeInv, TypeOK, InjectionTypeOK, Respond
  <2>3. Faithful'
    <3> SUFFICES ASSUME NEW v \in Worker PROVE Faithful!(v)'
      BY DEF Faithful
    <3>1. CASE v # w
      BY <1>1, <1>3, <3>1, FaithfulAlone DEF KeystrokeInv, TypeOK, InjectionTypeOK, Respond
    <3>2. CASE v = w
      <4>1. wpc'[w] = "idle" /\ typed'[w] = {}
        BY <1>1, <1>3 DEF KeystrokeInv, TypeOK, InjectionTypeOK, Respond
      <4> QED
        BY <3>2, <4>1
    <3> QED
      BY <3>1, <3>2
  <2> QED
    BY <1>2, <2>1, <2>2, <2>3 DEF KeystrokeInv
<1>4. CASE /\ VkOfProto(req.code) # InvalidKey
           /\ ip' = [ip EXCEPT ![w] = Inputs(req)]
           /\ status' = [status EXCEPT ![w] = "none"]
           /\ wpc' = [wpc EXCEPT ![w] = "press"]
  <2>1. Inputs(req) \in Seq(VirtualKey)
    BY <1>4, ValidKey, InputsAre
  <2>2. k # NoKey
    BY <1>4, Unknown DEF Request
  <2> HIDE DEF req
  <2>3. TypeOK'
    BY <1>1, <1>2, <1>4, <2>1 DEF KeystrokeInv, Selector, TypeOK, InjectionTypeOK
  <2>4. KeysAreHeld'
    BY <1>1, <1>4, HeldByOthers DEF KeystrokeInv, TypeOK, InjectionTypeOK
  <2>5. Faithful'
    <3> SUFFICES ASSUME NEW v \in Worker PROVE Faithful!(v)'
      BY DEF Faithful
    <3>1. CASE v # w
      BY <1>1, <1>4, <3>1, FaithfulAlone DEF KeystrokeInv, TypeOK, InjectionTypeOK
    <3>2. CASE v = w
      <4>1. /\ wpc'[w] = "press" /\ typed'[w] = {} /\ ip'[w] = Inputs(req)
            /\ asked'[w] = k /\ k \in Combo
        BY <1>1, <1>4, <2>2 DEF KeystrokeInv, TypeOK, InjectionTypeOK
      <4> QED
        BY <1>4, <3>2, <4>1 DEF Pressed, req
    <3> QED
      BY <3>1, <3>2
  <2> QED
    BY <1>2, <2>3, <2>4, <2>5 DEF KeystrokeInv
<1> QED
  BY <1>3, <1>4 DEF Ask, Serve

\* The first SendInput(): the keys pressed will be released by the same worker.
LEMMA PressStep ==
  ASSUME KeystrokeInv, NEW w \in Worker, Press(w), UNCHANGED <<selectorVars, asked>>
  PROVE  KeystrokeInv'
<1>1. Selector'
  BY SelectorStep DEF KeystrokeInv
<1>2. PICK n \in 0 .. Len(ip[w]) :
       /\ down' = down \cup {ip[w][i] : i \in 1 .. n}
       /\ typed' = [typed EXCEPT ![w] = IF n = Len(ip[w]) /\ Undisturbed(w) THEN down' ELSE {}]
       /\ IF n = 0 THEN Respond(w, "WindowLostFocus")
                   ELSE wpc' = [wpc EXCEPT ![w] = "release"] /\ UNCHANGED <<ip, status>>
  BY DEF Press
<1>3. /\ wpc[w] = "press" /\ UNCHANGED <<stuck, asked>>
      /\ ip[w] \in Seq(VirtualKey) /\ Pressed(w) /\ Len(ip[w]) \in Nat
  BY DEF Press, KeystrokeInv, TypeOK, InjectionTypeOK, Faithful
<1>4. {ip[w][i] : i \in 1 .. n} \subseteq KeysOf(w) /\ KeysOf(w) \subseteq VirtualKey
  BY <1>2, <1>3 DEF KeysOf
<1>5. Len(ip[w]) > 0 /\ KeysOf(w) = Elems(Inputs(Request(asked[w])))
  BY <1>3, ValidKey, InputsAre DEF Pressed, KeysOf, Elems
<1>6. typed'[w] \in {{}, KeysOf(w)} /\ (typed'[w] # {} => n # 0)
  <2>1. typed'[w] = IF n = Len(ip[w]) /\ Undisturbed(w) THEN down' ELSE {}
    BY <1>2 DEF KeystrokeInv, TypeOK, InjectionTypeOK
  <2>2. Undisturbed(w) => down = {}
    BY DEF Undisturbed
  <2>3. n = Len(ip[w]) => {ip[w][i] : i \in 1 .. n} = KeysOf(w) /\ n # 0
    BY <1>5 DEF KeysOf
  <2> QED
    BY <1>2, <2>1, <2>2, <2>3
<1>7. CASE n = 0
  <2>1. Respond(w, "WindowLostFocus") /\ down' = down /\ typed' = [typed EXCEPT ![w] = {}]
    <3>1. n # Len(ip[w]) /\ {ip[w][i] : i \in 1 .. n} = {}
      BY <1>3, <1>5, <1>7
    <3> QED
      BY <1>2, <1>7, <3>1
  <2>2. TypeOK'
    BY <1>1, <1>3, <2>1 DEF KeystrokeInv, Selector, TypeOK, InjectionTypeOK, Respond
  <2>3. KeysAreHeld'
    BY <1>3, <2>1, HeldByOthers DEF KeystrokeInv, TypeOK, InjectionTypeOK, Respond
  <2>4. Faithful'
    <3> SUFFICES ASSUME NEW v \in Worker PROVE Faithful!(v)'
      BY DEF Faithful
    <3>1. CASE v # w
      BY <1>3, <2>1, <3>1, FaithfulAlone DEF KeystrokeInv, TypeOK, InjectionTypeOK, Respond
    <3>2. CASE v = w
      <4>1. wpc'[w] = "idle" /\ typed'[w] = {}
        BY <2>1 DEF KeystrokeInv, TypeOK, InjectionTypeOK, Respond
      <4> QED
        BY <3>2, <4>1
    <3> QED
      BY <3>1, <3>2
  <2> QED
    BY <1>1, <2>2, <2>3, <2>4 DEF KeystrokeInv
<1>8. CASE n # 0
  <2>1. wpc' = [wpc EXCEPT ![w] = "release"] /\ UNCHANGED <<ip, status>>
    BY <1>2, <1>8
  <2>2. /\ typed' = [typed EXCEPT ![w] = typed'[w]]
        /\ down' \subseteq down \cup KeysOf(w)
    BY <1>2, <1>4 DEF KeystrokeInv, TypeOK, InjectionTypeOK
  <2>3. TypeOK'
    BY <1>1, <1>3, <1>4, <1>6, <2>1, <2>2
       DEF KeystrokeInv, Selector, TypeOK, InjectionTypeOK
  <2>4. KeysAreHeld'
    BY <1>3, <2>1, <2>2 DEF KeystrokeInv, TypeOK, InjectionTypeOK, KeysAreHeld, KeysOf
  <2>5. Faithful'
    <3> SUFFICES ASSUME NEW v \in Worker
                 PROVE  Faithful!(v)'
      BY DEF Faithful
    <3>1. CASE v # w
      <4>1. typed'[v] = typed[v]
        BY <1>2, <3>1 DEF KeystrokeInv, TypeOK, InjectionTypeOK
      <4> QED
        BY <1>3, <2>1, <3>1, <4>1, FaithfulAlone DEF KeystrokeInv, TypeOK, InjectionTypeOK
    <3>2. CASE v = w
      BY <1>3, <1>5, <1>6, <2>1, <3>2
         DEF KeystrokeInv, TypeOK, InjectionTypeOK, Faithful, Pressed, KeysOf
    <3> QED
      BY <3>1, <3>2
  <2> QED
    BY <1>1, <2>3, <2>4, <2>5 DEF KeystrokeInv
<1> QED
  BY <1>7, <1>8

\* The second SendInput(): what it does not release is stuck.
LEMMA ReleaseStep ==
  ASSUME KeystrokeInv, NEW w \in Worker, Release(w), UNCHANGED <<selectorVars, asked>>
  PROVE  KeystrokeInv'
<1>1. Selector'
  BY SelectorStep DEF KeystrokeInv
<1> DEFINE freed(n) == {ip[w][i] : i \in 1 .. n}
           left(n) == {ip[w][i] : i \in n + 1 .. Len(ip[w])} \cap down
<1>2. PICK n \in 0 .. Len(ip[w]) :
        /\ down' = down \ freed(n)
        /\ stuck' = (stuck \ freed(n)) \cup left(n)
        /\ Respond(w, IF n = 0 THEN "WindowLostFocus" ELSE "Success")
        /\ typed' = [typed EXCEPT ![w] = IF n = Len(ip[w]) THEN @ ELSE {}]
  BY DEF Release
<1>3. wpc[w] = "release" /\ Pressed(w) /\ ip[w] \in Seq(VirtualKey) /\ Len(ip[w]) \in Nat
  BY DEF Release, KeystrokeInv, TypeOK, InjectionTypeOK, Faithful
<1>4. KeysOf(w) \cap down \subseteq freed(n) \cup left(n)
  BY <1>3 DEF KeysOf
<1> HIDE DEF freed, left
<1>5. left(n) \subseteq down
  BY DEF left
<1>6. TypeOK'
  BY <1>1, <1>2, <1>5 DEF KeystrokeInv, Selector, TypeOK, InjectionTypeOK, Respond
<1>7. KeysAreHeld'
  <2>1. \A v \in Worker \ {w} : wpc'[v] = wpc[v] /\ ip'[v] = ip[v]
    BY <1>2 DEF Respond, KeystrokeInv, TypeOK, InjectionTypeOK
  <2>2. ASSUME NEW x \in down', x \notin stuck'
        PROVE  \E v \in Worker : wpc'[v] = "release" /\ x \in KeysOf(v)'
    <3>1. x \in down /\ x \notin freed(n) /\ x \notin left(n) /\ x \notin stuck
      BY <1>2, <2>2
    <3>2. PICK v \in Worker : wpc[v] = "release" /\ x \in KeysOf(v)
      BY <3>1 DEF KeystrokeInv, KeysAreHeld
    <3>3. v # w
      BY <1>4, <3>1, <3>2
    <3> QED
      BY <2>1, <3>2, <3>3 DEF KeysOf
  <2> QED
    BY <2>2 DEF KeysAreHeld
<1>8. Faithful'
  <2>1. UNCHANGED asked /\ typed'[w] \in {typed[w], {}}
    BY <1>2 DEF KeystrokeInv, TypeOK, InjectionTypeOK
  <2> SUFFICES ASSUME NEW v \in Worker
               PROVE  Faithful!(v)'
    BY DEF Faithful
  <2>2. CASE v # w
    <3>1. wpc'[v] = wpc[v] /\ ip'[v] = ip[v] /\ typed'[v] = typed[v]
      BY <1>2, <2>2 DEF Respond, KeystrokeInv, TypeOK, InjectionTypeOK
    <3> QED
      BY <2>1, <3>1, FaithfulAlone DEF KeystrokeInv
  <2>3. CASE v = w
    <3>1. wpc'[w] = "idle"
      BY <1>2 DEF Respond, KeystrokeInv, TypeOK, InjectionTypeOK
    <3>2. asked' = asked /\ typed'[w] \in {typed[w], {}}
      BY <2>1
    <3> QED
      BY <2>3, <3>1, <3>2 DEF KeystrokeInv, Faithful
  <2> QED
    BY <2>2, <2>3
<1> QED
  BY <1>1, <1>6, <1>7, <1>8 DEF KeystrokeInv

\* The inductive invariant of the way of a keystroke.
THEOREM KeystrokeAlways == Spec => []KeystrokeInv
<1>1. Init => KeystrokeInv
  <2> SUFFICES ASSUME Init PROVE KeystrokeInv
    OBVIOUS
  <2> USE DEF Init, SelectorInit, InjectionInit
  <2>1. TypeOK
    <3>1. SelectorTypeOK
      BY DEF SelectorTypeOK
    <3>2. InjectionTypeOK
      BY DEF InjectionTypeOK
    <3> QED
      BY <3>1, <3>2 DEF TypeOK
  <2>2. Selector
    BY <2>1, ComboAssumption DEF TypeOK, Selector, GrabbedWhileWaiting, GreenIsSent
  <2>3. KeysAreHeld /\ Faithful
    BY DEF KeysAreHeld, Faithful
  <2> QED
    BY <2>1, <2>2, <2>3 DEF KeystrokeInv
<1>2. KeystrokeInv /\ [Next]_vars => KeystrokeInv'
  <2> SUFFICES ASSUME KeystrokeInv, [Next]_vars PROVE KeystrokeInv'
    OBVIOUS
  <2>1. CASE (SelectorNext \/ UNCHANGED selectorVars) /\ UNCHANGED <<injectionVars, asked>>
    <3>1. Selector'
      BY <2>1, SelectorStep DEF KeystrokeInv
    <3>2. KeysAreHeld' /\ Faithful'
      BY <2>1 DEF KeystrokeInv, KeysAreHeld, Faithful, Pressed, KeysOf, injectionVars
    <3> QED
      BY <2>1, <3>1, <3>2 DEF KeystrokeInv, Selector, TypeOK, InjectionTypeOK, injectionVars
  <2>2. ASSUME NEW w \in Worker, SendKeystroke(w) \/ OtherClient(w) PROVE KeystrokeInv'
    <3>1. key_ \in Combo \cup {NoKey}
      BY DEF KeystrokeInv, TypeOK, SelectorTypeOK
    <3> QED
      BY <2>2, <3>1, AskStep DEF SendKeystroke, OtherClient
  <2>3. ASSUME NEW w \in Worker, (Press(w) \/ Release(w)) /\ UNCHANGED <<selectorVars, asked>>
        PROVE  KeystrokeInv'
    BY <2>3, PressStep, ReleaseStep
  <2> QED
    BY <2>1, <2>2, <2>3 DEF Next, vars
<1> QED
  BY <1>1, <1>2, PTL DEF Spec

(***************************************************************************)
(* Every variable keeps its type.                                          *)
(***************************************************************************)
THEOREM KeystrokeTypeCorrect == Spec => []TypeOK
<1>1. KeystrokeInv => TypeOK
  BY DEF KeystrokeInv
<1> QED
  BY <1>1, KeystrokeAlways, PTL

(***************************************************************************)
(* The keyboard is never left grabbed, whichever way the wait for a key    *)
(* ends: by the key, by a text typed meanwhile, or by the close event that *)
(* Alt+F4 becomes.                                                         *)
(***************************************************************************)
THEOREM NeverLeftGrabbed == Spec => []GrabbedWhileWaiting
<1>1. KeystrokeInv => GrabbedWhileWaiting
  BY DEF KeystrokeInv, Selector
<1> QED
  BY <1>1, KeystrokeAlways, PTL

(***************************************************************************)
(* What the selector shows in green is the key that `Send` sends.          *)
(***************************************************************************)
THEOREM GreenIsAlwaysSent == Spec => []GreenIsSent
<1>1. KeystrokeInv => GreenIsSent
  BY DEF KeystrokeInv, Selector
<1> QED
  BY <1>1, KeystrokeAlways, PTL

(***************************************************************************)
(* Every key that is down will be released by the worker that pressed it,  *)
(* or is one that SendInput() refused to release.                          *)
(***************************************************************************)
THEOREM KeysStayHeld == Spec => []KeysAreHeld
<1>1. KeystrokeInv => KeysAreHeld
  BY DEF KeystrokeInv
<1> QED
  BY <1>1, KeystrokeAlways, PTL

(***************************************************************************)
(* A worker that was not disturbed has typed exactly the combination that  *)
(* its client asked for, for every table of key codes.                     *)
(***************************************************************************)
THEOREM TypesExactly == Spec => []TypesWhatIsAsked
<1>1. KeystrokeInv => TypesWhatIsAsked
  <2> SUFFICES ASSUME KeystrokeInv, NEW w \in Worker, typed[w] # {}, asked[w].mods \subseteq Modifier
               PROVE  \E e \in Entry(asked[w]) : typed[w] = asked[w].mods \cup {e.vk}
    BY DEF TypesWhatIsAsked
  <2> DEFINE k == asked[w]
             q == [k EXCEPT !.mods = {}]
  <2>1. /\ k \in Combo /\ VkOfProto(Request(k).code) # InvalidKey
        /\ typed[w] = Elems(Inputs(Request(k)))
    BY DEF KeystrokeInv, Faithful
  <2>2. Request(k) = [code |-> ToKeycode(q), mods |-> k.mods \cap Modifier]
    BY <2>1, ComboAssumption DEF Request
  <2>3. PICK e \in Table : e.qt = q /\ VkOfProto(ToKeycode(q)) = e.vk
    BY <2>1, <2>2, KeyArrives
  <2>4. typed[w] = (Request(k).mods \cap Modifier) \cup {VkOfProto(Request(k).code)}
    BY <2>1, ValidKey, InputsAre
  <2> QED
    BY <2>2, <2>3, <2>4 DEF Entry
<1> QED
  BY <1>1, KeystrokeAlways, PTL
=============================================================================
