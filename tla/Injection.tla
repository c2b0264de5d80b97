----------------------------- MODULE Injection -----------------------------
(***************************************************************************)
(* ProcessWindow::sendKeystroke(): a worker presses the modifiers and the  *)
(* key of a request with one SendInput() and releases them with another.   *)
(* The workers share one keyboard.  SendInput() is external: the events of *)
(* a call are not interleaved with others', and it inserts as many of the  *)
(* first of them as it can.                                                *)
(***************************************************************************)
EXTENDS Naturals, Sequences, Keyconv

CONSTANT Worker

\* The modifiers of a KeystrokeRequest.
Modifier == {"ctrl", "alt", "shift", "meta"}

VARIABLES
  wpc,      \* "idle", "press" or "release"
  ip,       \* the keys a worker presses, modifiers first
  down,     \* the keys that are down
  status,   \* the status of the last response
  (* history *)
  stuck,    \* the keys that a SendInput() failed to release
  typed     \* the keys down when the worker had pressed all of its keys, {} if
            \* it did not press and release all, or other keys were about

injectionVars == <<wpc, ip, down, status, stuck, typed>>

VirtualKey == Modifier \cup {e.vk : e \in Table}
KeysOf(w) == {ip[w][i] : i \in 1 .. Len(ip[w])}

InjectionTypeOK ==
  /\ wpc \in [Worker -> {"idle", "press", "release"}]
  /\ ip \in [Worker -> Seq(VirtualKey)]
  /\ down \subseteq VirtualKey /\ stuck \subseteq VirtualKey
  /\ status \in [Worker -> {"none", "Success", "WindowLostFocus"}]
  /\ typed \in [Worker -> SUBSET VirtualKey]

InjectionInit ==
  /\ wpc = [w \in Worker |-> "idle"] /\ ip = [w \in Worker |-> << >>]
  /\ status = [w \in Worker |-> "none"]
  /\ down = {} /\ stuck = {}
  /\ typed = [w \in Worker |-> {}]

\* The modifiers of a request in the order of the code, then its key.
Inputs(req) ==
  LET held(m) == IF m \in req.mods THEN <<m>> ELSE << >>
  IN  held("ctrl") \o held("alt") \o held("shift") \o held("meta")
        \o <<VkOfProto(req.code)>>

Respond(w, s) ==
  /\ status' = [status EXCEPT ![w] = s]
  /\ wpc' = [wpc EXCEPT ![w] = "idle"]
  /\ ip' = [ip EXCEPT ![w] = << >>]

\* Mutant: an invalid key is not refused.
ServeUnknown(w, req) ==
  /\ wpc[w] = "idle"
  /\ ip' = [ip EXCEPT ![w] = Inputs(req)]
  /\ status' = [status EXCEPT ![w] = "none"]
  /\ wpc' = [wpc EXCEPT ![w] = "press"]
  /\ typed' = [typed EXCEPT ![w] = {}]
  /\ UNCHANGED <<down, stuck>>

\* readMessage() has a request: the target may not have the focus, and the key
\* may have no virtual key.
Serve(w, req) ==
  /\ wpc[w] = "idle"
  /\ \/ Respond(w, "WindowLostFocus")
     \/ /\ VkOfProto(req.code) # InvalidKey
        /\ ip' = [ip EXCEPT ![w] = Inputs(req)]
        /\ status' = [status EXCEPT ![w] = "none"]
        /\ wpc' = [wpc EXCEPT ![w] = "press"]
  /\ typed' = [typed EXCEPT ![w] = {}]
  /\ UNCHANGED <<down, stuck>>

\* No other worker is between its two calls, and no key is down.
Undisturbed(w) == down = {} /\ \A v \in Worker \ {w} : wpc[v] # "release"

\* The first SendInput(); it fails only if it inserts nothing.
Press(w) ==
  /\ wpc[w] = "press"
  /\ \E n \in 0 .. Len(ip[w]) :
       /\ down' = down \cup {ip[w][i] : i \in 1 .. n}
       /\ typed' = [typed EXCEPT ![w] = IF n = Len(ip[w]) /\ Undisturbed(w) THEN down' ELSE {}]
       /\ IF n = 0 THEN Respond(w, "WindowLostFocus")
                   ELSE wpc' = [wpc EXCEPT ![w] = "release"] /\ UNCHANGED <<ip, status>>
  /\ UNCHANGED stuck

\* Mutant: the key itself is not released.
ReleaseModifiers(w) ==
  /\ wpc[w] = "release"
  /\ down' = down \ {ip[w][i] : i \in 1 .. Len(ip[w]) - 1}
  /\ Respond(w, "Success")
  /\ UNCHANGED <<stuck, typed>>

\* The second SendInput()
Release(w) ==
  /\ wpc[w] = "release"
  /\ \E n \in 0 .. Len(ip[w]) :
       LET left == {ip[w][i] : i \in n + 1 .. Len(ip[w])} \cap down
       IN  /\ down' = down \ {ip[w][i] : i \in 1 .. n}
           /\ stuck' = (stuck \ {ip[w][i] : i \in 1 .. n}) \cup left
           /\ Respond(w, IF n = 0 THEN "WindowLostFocus" ELSE "Success")
           /\ typed' = [typed EXCEPT ![w] = IF n = Len(ip[w]) THEN @ ELSE {}]

-----------------------------------------------------------------------------
\* Every key that is down is held by a worker that will release it, or is one
\* that SendInput() refused to release: whatever fails on the way, and however
\* the workers' calls interleave.
KeysAreHeld ==
  down \subseteq stuck \cup UNION {KeysOf(w) : w \in {v \in Worker : wpc[v] = "release"}}
=============================================================================
