----------------------------- MODULE PdsServer -----------------------------
(***************************************************************************)
(* The server: the accept loop, the pool of worker threads that serve one  *)
(* client each, and the monitor thread that polls the desktop every 250 ms *)
(* and tells every client in `active` what changed.                        *)
(*                                                                         *)
(* One action is one step another thread can observe: the acquisition of a *)
(* mutex together with what is done under it when nothing else can block   *)
(* there, one sendN() call, one assignment of closeConnection().  A frame  *)
(* is two sendN() calls, its size and its body.                            *)
(*                                                                         *)
(* The last group of variables is history: what the program on the other   *)
(* end of each connection knows after decoding every frame written so far. *)
(***************************************************************************)
EXTENDS Desktop, Naturals, Sequences

CONSTANTS
  Conn,            \* connection attempts; bounds the clients that ever come
  Worker,          \* threads of the pool, THREAD_NO in the code
  Monitor,         \* the thread that runs checkWindowsEvents()
  Handle,          \* SOCKET values the operating system hands out
  INVALID_SOCKET,
  DESKTOP,         \* (HWND)MAXUINT64, sent when no listed window has focus
  Recycle          \* may a closed SOCKET value be handed out again?

ASSUME ThreadAssumption == Monitor \notin Worker /\ NULL \notin Worker \cup {Monitor}
ASSUME ConnAssumption == NULL \notin Conn
ASSUME HandleAssumption == NULL \notin Handle /\ INVALID_SOCKET \notin Handle \cup {NULL}
ASSUME DesktopAssumption == DESKTOP \notin Window \cup {NULL}
ASSUME RecycleAssumption == Recycle \in BOOLEAN

VARIABLES
  (* the network *)
  peer,        \* the other end: not yet "up", "stuck" when it does not read, "gone"
  owner,       \* the connection that an open SOCKET value denotes, or NULL
  used,        \* SOCKET values handed out so far
  (* ClientList and Client objects *)
  pending,     \* accepted connections that no worker has taken
  active,      \* the elements of `active`
  line,        \* the order in which addClient() has put clients at its end
  sck, isClosed, cLock,
  (* WindowsList *)
  winHandles, onFocus, windowsLock,
  (* the workers *)
  wpc, client, snapFocus, snap, target,
  (* the monitor: locals of update(), and of notify() which it calls *)
  mpc, updated, current, closing, opening, event, activeLock, todo, mopen,
  (* history: the other end *)
  stream,      \* "fresh", "listed", "event-first", "mixed" or "hung"
  apps, focused

netVars     == <<peer, owner, used>>
clientVars  == <<sck, isClosed, cLock>>
windowsVars == <<winHandles, onFocus, windowsLock>>
workerVars  == <<wpc, client, snapFocus, snap, target>>
updateVars  == <<updated, current, closing, opening>>
notifyVars  == <<event, activeLock, todo, mopen>>
monVars     == <<mpc, updateVars, notifyVars>>
viewVars    == <<stream, apps, focused>>
envVars     == <<foreground, netVars>>
activeVars  == <<active, line>>
listVars    == <<pending, activeVars>>
nonWorkerVars == <<envVars, listVars, clientVars, windowsVars, monVars, viewVars>>
vars == <<workerVars, nonWorkerVars>>

Thread == Worker \cup {Monitor}
NoEvent == [kind |-> "none", win |-> NULL]
Event == [kind : {"created", "destroyed"}, win : Window]
           \cup [kind : {"got_focus"}, win : Window \cup {DESKTOP, NULL}]

\* Where a worker stands in serveClient(): each value names the next step.
WorkerPC == {"get", "add", "lock", "focus", "windows",
             "listSize", "listBody", "focusSize", "focusBody",
             "read", "check", "inject", "respSize", "respBody",
             "close", "invalidate", "mark", "cleanup"}
MonitorPC == {"sleep", "event", "notify", "size", "body"}

TypeOK ==
  /\ DesktopTypeOK
  /\ peer \in [Conn -> {"away", "up", "stuck", "gone"}]
  /\ owner \in [Handle -> Conn \cup {NULL}]
  /\ used \subseteq Handle
  /\ pending \in Seq(Conn)
  /\ active \subseteq Conn
  /\ line \in Seq(Conn)
  /\ sck \in [Conn -> Handle \cup {INVALID_SOCKET}]
  /\ isClosed \in [Conn -> BOOLEAN]
  /\ cLock \in [Conn -> Thread \cup {NULL}]
  /\ winHandles \subseteq Window
  /\ onFocus \in Window \cup {DESKTOP, NULL}
  /\ windowsLock \in {Monitor, NULL}
  /\ wpc \in [Worker -> WorkerPC]
  /\ client \in [Worker -> Conn \cup {NULL}]
  /\ snapFocus \in [Worker -> Window \cup {DESKTOP, NULL}]
  /\ snap \in [Worker -> SUBSET Window]
  /\ target \in [Worker -> Window \cup {NULL}]
  /\ mpc \in MonitorPC
  /\ updated \subseteq Window
  /\ current \in Window \cup {NULL}
  /\ closing \subseteq Window
  /\ opening \subseteq Window
  /\ event \in Event \cup {NoEvent}
  /\ activeLock \in {Monitor, NULL}
  /\ todo \subseteq Conn
  /\ mopen \in Conn \cup {NULL}
  /\ stream \in [Conn -> {"fresh", "listed", "event-first", "mixed", "hung"}]
  /\ apps \in [Conn -> SUBSET Window]
  /\ focused \in [Conn -> Window \cup {NULL}]

\* Both lists are empty; WindowsList() fills its two fields before main() runs.
Init ==
  /\ DesktopInit
  /\ peer = [c \in Conn |-> "away"]
  /\ owner = [h \in Handle |-> NULL]
  /\ used = {}
  /\ pending = << >>
  /\ active = {}
  /\ line = << >>
  /\ sck = [c \in Conn |-> INVALID_SOCKET]
  /\ isClosed = [c \in Conn |-> FALSE]
  /\ cLock = [c \in Conn |-> NULL]
  /\ winHandles \in MyEnumWindows
  /\ onFocus = GetForegroundWindow
  /\ windowsLock = NULL
  /\ wpc = [w \in Worker |-> "get"]
  /\ client = [w \in Worker |-> NULL]
  /\ snapFocus = [w \in Worker |-> NULL]
  /\ snap = [w \in Worker |-> {}]
  /\ target = [w \in Worker |-> NULL]
  /\ mpc = "sleep"
  /\ updated = {}
  /\ current = NULL
  /\ closing = {}
  /\ opening = {}
  /\ event = NoEvent
  /\ activeLock = NULL
  /\ todo = {}
  /\ mopen = NULL
  /\ stream = [c \in Conn |-> "fresh"]
  /\ apps = [c \in Conn |-> {}]
  /\ focused = [c \in Conn |-> NULL]

-----------------------------------------------------------------------------
(***************************************************************************)
(* Sockets.  send() on h reaches the connection that h denotes when it is  *)
(* called, if the other end is still there; it blocks while the buffers    *)
(* are full because the other end does not read.                           *)
(***************************************************************************)
IsOpen(h) == h \in Handle /\ owner[h] # NULL
SendMayFail(h) == IsOpen(h) => peer[owner[h]] = "gone"
SendReturns(h) == IsOpen(h) => peer[owner[h]] # "stuck"
Reached(h) == {c \in Conn : IsOpen(h) /\ owner[h] = c /\ peer[c] \in {"up", "stuck"}}

\* Some thread has written the size of a frame to c, and not yet its body.
MidFrame(c) ==
  \/ mpc = "body" /\ mopen = c
  \/ \E w \in Worker : client[w] = c /\ wpc[w] \in {"listBody", "focusBody", "respBody"}

(***************************************************************************)
(* What the other end makes of the bytes.  A size that arrives inside      *)
(* another frame desynchronises it for good.  The first message is taken   *)
(* for an AppList, whatever it is; each later one is an Event, handled as  *)
(* in connection.cpp, where `focused` is the App whose focused_ is set.    *)
(* A message without windows has no bytes: the client, which reads zero    *)
(* bytes of it again and again, hangs as soon as the next one comes.       *)
(***************************************************************************)
ReceiveSize(h) ==
  /\ stream' = [c \in Conn |->
                  IF c \in Reached(h) /\ MidFrame(c) THEN "mixed" ELSE stream[c]]
  /\ UNCHANGED <<apps, focused>>

ReceiveAppList(h, windows) ==
  LET Fresh == {c \in Reached(h) : stream[c] = "fresh"} IN
  /\ stream' = [c \in Conn |->
                  IF c \notin Fresh THEN stream[c]
                  ELSE IF windows = {} THEN "hung" ELSE "listed"]
  /\ apps' = [c \in Conn |-> IF c \in Fresh THEN windows ELSE apps[c]]
  /\ focused' = [c \in Conn |-> IF c \in Fresh THEN NULL ELSE focused[c]]

AppsAfter(e, A) ==
  IF e.kind = "created" THEN A \cup {e.win}
  ELSE IF e.kind = "destroyed" THEN A \ {e.win}
  ELSE A

\* (mutant) setFocusedApp() does not ask whether the application is known
FocusedAfterUnchecked(e, A, f) ==
  IF e.kind = "got_focus" THEN e.win ELSE IF f = e.win THEN NULL ELSE f

FocusedAfter(e, A, f) ==
  IF e.kind = "got_focus"
    THEN IF e.win \in A THEN e.win ELSE NULL
    ELSE IF f = e.win THEN NULL ELSE f

ReceiveEvent(h, e) ==
  LET Listed == {c \in Reached(h) : stream[c] = "listed"} IN
  /\ stream' = [c \in Conn |->
                  IF c \in Reached(h) /\ stream[c] = "fresh" THEN "event-first" ELSE stream[c]]
  /\ apps' = [c \in Conn |-> IF c \in Listed THEN AppsAfter(e, apps[c]) ELSE apps[c]]
  /\ focused' = [c \in Conn |->
                   IF c \in Listed THEN FocusedAfter(e, apps[c], focused[c]) ELSE focused[c]]

-----------------------------------------------------------------------------
(***************************************************************************)
(* The accept loop of main(), and the other ends.                          *)
(***************************************************************************)
Accept(c, h) ==
  /\ peer[c] = "away"
  /\ owner[h] = NULL /\ (Recycle \/ h \notin used)
  /\ peer' = [peer EXCEPT ![c] = "up"]
  /\ owner' = [owner EXCEPT ![h] = c]
  /\ used' = used \cup {h}
  /\ sck' = [sck EXCEPT ![c] = h]
  /\ pending' = Append(pending, c)
  /\ UNCHANGED <<foreground, activeVars, isClosed, cLock, windowsVars, workerVars, monVars,
                 viewVars>>

\* accept() fails (the other end has reset); its result is queued unchecked.
AcceptFails(c) ==
  /\ peer[c] = "away"
  /\ peer' = [peer EXCEPT ![c] = "gone"]
  /\ pending' = Append(pending, c)
  /\ UNCHANGED <<foreground, owner, used, activeVars, clientVars, windowsVars, workerVars,
                 monVars, viewVars>>

\* The other end stops reading, or reads again.
Stall(c) ==
  /\ peer[c] \in {"up", "stuck"}
  /\ peer' = [peer EXCEPT ![c] = IF @ = "up" THEN "stuck" ELSE "up"]
  /\ UNCHANGED <<foreground, owner, used, listVars, clientVars, windowsVars,
                 workerVars, monVars, viewVars>>

\* The other end closes the connection or vanishes.
Depart(c) ==
  /\ peer[c] \in {"up", "stuck"}
  /\ peer' = [peer EXCEPT ![c] = "gone"]
  /\ UNCHANGED <<foreground, owner, used, listVars, clientVars, windowsVars,
                 workerVars, monVars, viewVars>>

-----------------------------------------------------------------------------
(***************************************************************************)
(* A worker: serveClient().                                                *)
(***************************************************************************)
Goto(w, next) == wpc' = [wpc EXCEPT ![w] = next]

\* (mutant) the predicate of the wait is size_ > 1
GetClientLate(w) ==
  /\ wpc[w] = "get"
  /\ Len(pending) > 1
  /\ client' = [client EXCEPT ![w] = Head(pending)]
  /\ pending' = Tail(pending)
  /\ Goto(w, "add")
  /\ UNCHANGED <<envVars, activeVars, clientVars, windowsVars, snapFocus, snap, target,
                 monVars, viewVars>>

\* pending.getClient()
GetClient(w) ==
  /\ wpc[w] = "get"
  /\ pending # << >>
  /\ client' = [client EXCEPT ![w] = Head(pending)]
  /\ pending' = Tail(pending)
  /\ Goto(w, "add")
  /\ UNCHANGED <<envVars, activeVars, clientVars, windowsVars, snapFocus, snap, target,
                 monVars, viewVars>>

\* active.addClient()
AddClient(w) ==
  /\ wpc[w] = "add"
  /\ activeLock = NULL
  /\ active' = active \cup {client[w]}
  /\ line' = Append(line, client[w])
  /\ Goto(w, "lock")
  /\ UNCHANGED <<envVars, pending, clientVars, windowsVars, client, snapFocus, snap,
                 target, monVars, viewVars>>

\* sendProcessList() takes cLock_ and holds it to the end
LockClient(w) ==
  /\ wpc[w] = "lock"
  /\ cLock[client[w]] = NULL
  /\ cLock' = [cLock EXCEPT ![client[w]] = w]
  /\ Goto(w, "focus")
  /\ UNCHANGED <<envVars, listVars, sck, isClosed, windowsVars, client, snapFocus,
                 snap, target, monVars, viewVars>>

\* windows_list.onFocus()
ReadFocus(w) ==
  /\ wpc[w] = "focus"
  /\ windowsLock = NULL
  /\ snapFocus' = [snapFocus EXCEPT ![w] = onFocus]
  /\ Goto(w, "windows")
  /\ UNCHANGED <<nonWorkerVars, client, snap, target>>

\* (mutant) windows() without its lock_guard
ReadWindowsUnlocked(w) ==
  /\ wpc[w] = "windows"
  /\ snap' = [snap EXCEPT ![w] = winHandles]
  /\ Goto(w, "listSize")
  /\ UNCHANGED <<nonWorkerVars, client, snapFocus, target>>

\* windows_list.windows()
ReadWindows(w) ==
  /\ wpc[w] = "windows"
  /\ windowsLock = NULL
  /\ snap' = [snap EXCEPT ![w] = winHandles]
  /\ Goto(w, "listSize")
  /\ UNCHANGED <<nonWorkerVars, client, snapFocus, target>>

SendListSize(w) ==
  /\ wpc[w] = "listSize"
  /\ IsOpen(sck[client[w]]) /\ SendReturns(sck[client[w]])
  /\ ReceiveSize(sck[client[w]])
  /\ Goto(w, "listBody")
  /\ UNCHANGED <<envVars, listVars, clientVars, windowsVars, client, snapFocus, snap,
                 target, monVars>>

\* sendN() of no bytes calls no send(), and succeeds
SendListBody(w) ==
  /\ wpc[w] = "listBody"
  /\ snap[w] = {} \/ (IsOpen(sck[client[w]]) /\ SendReturns(sck[client[w]]))
  /\ ReceiveAppList(sck[client[w]], snap[w])
  /\ snap' = [snap EXCEPT ![w] = {}]
  /\ Goto(w, "focusSize")
  /\ UNCHANGED <<envVars, listVars, clientVars, windowsVars, client, snapFocus, target,
                 monVars>>

SendFocusSize(w) ==
  /\ wpc[w] = "focusSize"
  /\ IsOpen(sck[client[w]]) /\ SendReturns(sck[client[w]])
  /\ ReceiveSize(sck[client[w]])
  /\ Goto(w, "focusBody")
  /\ UNCHANGED <<envVars, listVars, clientVars, windowsVars, client, snapFocus, snap,
                 target, monVars>>

SendFocusBody(w) ==
  /\ wpc[w] = "focusBody"
  /\ IsOpen(sck[client[w]]) /\ SendReturns(sck[client[w]])
  /\ ReceiveEvent(sck[client[w]], [kind |-> "got_focus", win |-> snapFocus[w]])
  /\ snapFocus' = [snapFocus EXCEPT ![w] = NULL]
  /\ cLock' = [cLock EXCEPT ![client[w]] = NULL]
  /\ Goto(w, "read")
  /\ UNCHANGED <<envVars, listVars, sck, isClosed, windowsVars, client, snap, target,
                 monVars>>

\* (mutant) the error returns leave cLock_ locked
GreetingFailsLocked(w) ==
  /\ wpc[w] \in {"listSize", "listBody", "focusSize", "focusBody"}
  /\ wpc[w] = "listBody" => snap[w] # {}
  /\ SendMayFail(sck[client[w]])
  /\ snap' = [snap EXCEPT ![w] = {}]
  /\ snapFocus' = [snapFocus EXCEPT ![w] = NULL]
  /\ Goto(w, "close")
  /\ UNCHANGED <<nonWorkerVars, client, target>>

\* One of the four sendN() calls fails: sendProcessList() returns false.
GreetingFails(w) ==
  /\ wpc[w] \in {"listSize", "listBody", "focusSize", "focusBody"}
  /\ wpc[w] = "listBody" => snap[w] # {}
  /\ SendMayFail(sck[client[w]])
  /\ snap' = [snap EXCEPT ![w] = {}]
  /\ snapFocus' = [snapFocus EXCEPT ![w] = NULL]
  /\ cLock' = [cLock EXCEPT ![client[w]] = NULL]
  /\ Goto(w, "close")
  /\ UNCHANGED <<envVars, listVars, sck, isClosed, windowsVars, client, target,
                 monVars, viewVars>>

\* readMessage(): a keystroke request for the window h has been read, maybe
\* one that was still in the buffers when the other end went
ReadRequest(w, h) ==
  /\ wpc[w] = "read"
  /\ IsOpen(sck[client[w]])
  /\ target' = [target EXCEPT ![w] = h]
  /\ Goto(w, "check")
  /\ UNCHANGED <<nonWorkerVars, client, snapFocus, snap>>

\* (mutant) serve() does not close the connection
ReadFailsUnclosed(w) ==
  /\ wpc[w] = "read"
  /\ SendMayFail(sck[client[w]])
  /\ Goto(w, "cleanup")
  /\ UNCHANGED <<nonWorkerVars, client, snapFocus, snap, target>>

\* readN() fails: readMessage() returns
ReadFails(w) ==
  /\ wpc[w] = "read"
  /\ SendMayFail(sck[client[w]])
  /\ Goto(w, "close")
  /\ UNCHANGED <<nonWorkerVars, client, snapFocus, snap, target>>

\* target == windows_list.onFocus()
CheckFocus(w) ==
  /\ wpc[w] = "check"
  /\ windowsLock = NULL
  /\ IF target[w] = onFocus
       THEN Goto(w, "inject") /\ UNCHANGED target
       ELSE Goto(w, "respSize") /\ target' = [target EXCEPT ![w] = NULL]
  /\ UNCHANGED <<nonWorkerVars, client, snapFocus, snap>>

\* sendKeystroke(): SendInput() goes to the foreground window
Inject(w) ==
  /\ wpc[w] = "inject"
  /\ target' = [target EXCEPT ![w] = NULL]
  /\ Goto(w, "respSize")
  /\ UNCHANGED <<nonWorkerVars, client, snapFocus, snap>>

\* The response is sent without cLock_, and a failure is only logged.
SendResponseSize(w) ==
  /\ wpc[w] = "respSize"
  /\ SendReturns(sck[client[w]])
  /\ ReceiveSize(sck[client[w]])
  /\ Goto(w, "respBody")
  /\ UNCHANGED <<envVars, listVars, clientVars, windowsVars, client, snapFocus, snap,
                 target, monVars>>

SendResponseBody(w) ==
  /\ wpc[w] = "respBody"
  /\ SendReturns(sck[client[w]])
  /\ Goto(w, "read")
  /\ UNCHANGED <<nonWorkerVars, client, snapFocus, snap, target>>

\* closeConnection() on a Client whose accept() failed: nothing is closed
SkipClose(w) ==
  /\ wpc[w] = "close"
  /\ sck[client[w]] = INVALID_SOCKET
  /\ Goto(w, "cleanup")
  /\ UNCHANGED <<nonWorkerVars, client, snapFocus, snap, target>>

\* (mutant) isClosed_ is set before the socket is closed
CloseSocketMarked(w) ==
  /\ wpc[w] = "close"
  /\ sck[client[w]] # INVALID_SOCKET
  /\ owner' = [owner EXCEPT ![sck[client[w]]] = NULL]
  /\ isClosed' = [isClosed EXCEPT ![client[w]] = TRUE]
  /\ Goto(w, "invalidate")
  /\ UNCHANGED <<foreground, peer, used, listVars, sck, cLock, windowsVars, client,
                 snapFocus, snap, target, monVars, viewVars>>

\* closesocket(sck): from here on the SOCKET value may denote something else
CloseSocket(w) ==
  /\ wpc[w] = "close"
  /\ sck[client[w]] # INVALID_SOCKET
  /\ owner' = [owner EXCEPT ![sck[client[w]]] = NULL]
  /\ Goto(w, "invalidate")
  /\ UNCHANGED <<foreground, peer, used, listVars, clientVars, windowsVars, client,
                 snapFocus, snap, target, monVars, viewVars>>

\* (mutant) isClosed_ is never set
InvalidateSocketUnmarked(w) ==
  /\ wpc[w] = "invalidate"
  /\ sck' = [sck EXCEPT ![client[w]] = INVALID_SOCKET]
  /\ Goto(w, "cleanup")
  /\ UNCHANGED <<envVars, listVars, isClosed, cLock, windowsVars, client, snapFocus,
                 snap, target, monVars, viewVars>>

\* sck = INVALID_SOCKET
InvalidateSocket(w) ==
  /\ wpc[w] = "invalidate"
  /\ sck' = [sck EXCEPT ![client[w]] = INVALID_SOCKET]
  /\ Goto(w, "mark")
  /\ UNCHANGED <<envVars, listVars, isClosed, cLock, windowsVars, client, snapFocus,
                 snap, target, monVars, viewVars>>

\* isClosed_ = true
MarkClosed(w) ==
  /\ wpc[w] = "mark"
  /\ isClosed' = [isClosed EXCEPT ![client[w]] = TRUE]
  /\ Goto(w, "cleanup")
  /\ UNCHANGED <<envVars, listVars, sck, cLock, windowsVars, client, snapFocus, snap,
                 target, monVars, viewVars>>

\* (mutant) cleanup() without its lock_guard
CleanupUnlocked(w) ==
  /\ wpc[w] = "cleanup"
  /\ active' = {c \in active : ~isClosed[c]}
  /\ client' = [client EXCEPT ![w] = NULL]
  /\ Goto(w, "get")
  /\ UNCHANGED <<envVars, pending, line, clientVars, windowsVars, snapFocus, snap, target,
                 monVars, viewVars>>

\* active.cleanup() removes, and destroys, every closed client
Cleanup(w) ==
  /\ wpc[w] = "cleanup"
  /\ activeLock = NULL
  /\ active' = {c \in active : ~isClosed[c]}
  /\ client' = [client EXCEPT ![w] = NULL]
  /\ Goto(w, "get")
  /\ UNCHANGED <<envVars, pending, line, clientVars, windowsVars, snapFocus, snap, target,
                 monVars, viewVars>>

-----------------------------------------------------------------------------
(***************************************************************************)
(* The monitor: checkWindowsEvents() calls WindowsList::update() forever.  *)
(***************************************************************************)
\* (mutant) the arguments of the two set differences are swapped
BeginUpdateSwapped ==
  /\ mpc = "sleep"
  /\ windowsLock = NULL
  /\ windowsLock' = Monitor
  /\ updated' \in MyEnumWindows
  /\ current' = GetForegroundWindow
  /\ closing' = updated' \ winHandles
  /\ opening' = winHandles \ updated'
  /\ mpc' = "event"
  /\ UNCHANGED <<envVars, listVars, clientVars, winHandles, onFocus, workerVars,
                 notifyVars, viewVars>>

\* (mutant) update() without its lock_guard
BeginUpdateUnlocked ==
  /\ mpc = "sleep"
  /\ updated' \in MyEnumWindows
  /\ current' = GetForegroundWindow
  /\ closing' = winHandles \ updated'
  /\ opening' = updated' \ winHandles
  /\ mpc' = "event"
  /\ UNCHANGED <<envVars, listVars, clientVars, windowsVars, workerVars, notifyVars,
                 viewVars>>

BeginUpdate ==
  /\ mpc = "sleep"
  /\ windowsLock = NULL
  /\ windowsLock' = Monitor
  /\ updated' \in MyEnumWindows
  /\ current' = GetForegroundWindow
  /\ closing' = winHandles \ updated'
  /\ opening' = updated' \ winHandles
  /\ mpc' = "event"
  /\ UNCHANGED <<envVars, listVars, clientVars, winHandles, onFocus, workerVars,
                 notifyVars, viewVars>>

\* active.notify(): takes active's lock and walks the list
Notify(kind, h) ==
  /\ activeLock = NULL
  /\ activeLock' = Monitor
  /\ event' = [kind |-> kind, win |-> h]
  /\ todo' = active
  /\ mpc' = "notify"
  /\ UNCHANGED <<envVars, listVars, clientVars, winHandles, windowsLock, workerVars,
                 updated, current, mopen, viewVars>>

NotifyClosed(h) ==
  /\ mpc = "event"
  /\ h \in closing
  /\ closing' = closing \ {h}
  /\ Notify("destroyed", h)
  /\ UNCHANGED <<opening, onFocus>>

NotifyOpened(h) ==
  /\ mpc = "event"
  /\ closing = {}
  /\ h \in opening
  /\ opening' = opening \ {h}
  /\ Notify("created", h)
  /\ UNCHANGED <<closing, onFocus>>

FocusChanged == onFocus # current /\ current # NULL

\* (mutant) the loss of focus to a window that is not listed is not sent
NotifyFocusListed ==
  /\ mpc = "event"
  /\ closing = {} /\ opening = {}
  /\ FocusChanged
  /\ onFocus' = current
  /\ IF current \in updated
       THEN Notify("got_focus", current)
       ELSE UNCHANGED <<envVars, listVars, clientVars, winHandles, windowsLock,
                        workerVars, mpc, updated, current, notifyVars, viewVars>>
  /\ UNCHANGED <<closing, opening>>

NotifyFocus ==
  /\ mpc = "event"
  /\ closing = {} /\ opening = {}
  /\ FocusChanged
  /\ onFocus' = IF current \in updated THEN current ELSE DESKTOP
  /\ Notify("got_focus", onFocus')
  /\ UNCHANGED <<closing, opening>>

\* notify() goes through the list from its front: cleanup() moves no element,
\* and addClient() adds none during the walk.
Foremost(c) ==
  /\ c \in todo
  /\ \E i \in DOMAIN line : line[i] = c /\ \A j \in 1 .. i - 1 : line[j] \notin todo

\* (mutant) sendMessage() without its lock_guard
LockForMessageNever(c) ==
  /\ mpc = "notify"
  /\ Foremost(c)
  /\ mopen' = c
  /\ mpc' = "size"
  /\ UNCHANGED <<envVars, listVars, clientVars, windowsVars, workerVars, updateVars,
                 event, activeLock, todo, viewVars>>

\* Client::sendMessage() on the next client waits for its cLock_ and takes it
LockForMessage(c) ==
  /\ mpc = "notify"
  /\ Foremost(c)
  /\ cLock[c] = NULL
  /\ cLock' = [cLock EXCEPT ![c] = Monitor]
  /\ mopen' = c
  /\ mpc' = "size"
  /\ UNCHANGED <<envVars, listVars, sck, isClosed, windowsVars, workerVars, updateVars,
                 event, activeLock, todo, viewVars>>

\* Both sends ignore failures, and each reads sck anew.
SendMessageSize ==
  /\ mpc = "size"
  /\ SendReturns(sck[mopen])
  /\ ReceiveSize(sck[mopen])
  /\ mpc' = "body"
  /\ UNCHANGED <<envVars, listVars, clientVars, windowsVars, workerVars, updateVars,
                 notifyVars>>

SendMessageBody ==
  /\ mpc = "body"
  /\ SendReturns(sck[mopen])
  /\ ReceiveEvent(sck[mopen], event)
  /\ cLock' = [cLock EXCEPT ![mopen] = NULL]
  /\ todo' = todo \ {mopen}
  /\ mopen' = NULL
  /\ mpc' = "notify"
  /\ UNCHANGED <<envVars, listVars, sck, isClosed, windowsVars, workerVars, updateVars,
                 event, activeLock>>

\* notify() returns; after the focus event onFocus_ gets its true value back
EndNotify ==
  /\ mpc = "notify"
  /\ todo = {}
  /\ activeLock' = NULL
  /\ onFocus' = IF event.kind = "got_focus" THEN current ELSE onFocus
  /\ event' = NoEvent
  /\ mpc' = "event"
  /\ UNCHANGED <<envVars, listVars, clientVars, winHandles, windowsLock, workerVars,
                 updateVars, todo, mopen, viewVars>>

\* the lists are swapped, lock_ is released
EndUpdate ==
  /\ mpc = "event"
  /\ closing = {} /\ opening = {} /\ ~FocusChanged
  /\ winHandles' = updated
  /\ windowsLock' = NULL
  /\ updated' = {}
  /\ current' = NULL
  /\ mpc' = "sleep"
  /\ UNCHANGED <<envVars, listVars, clientVars, onFocus, workerVars, closing, opening,
                 notifyVars, viewVars>>

-----------------------------------------------------------------------------
AcceptNext ==
  \/ \E c \in Conn, h \in Handle : Accept(c, h)
  \/ \E c \in Conn : AcceptFails(c)

EnvNext ==
  \/ \E c \in Conn : Stall(c) \/ Depart(c)
  \/ ForegroundChanges /\ UNCHANGED <<netVars, listVars, clientVars, windowsVars,
                                      workerVars, monVars, viewVars>>

\* What a worker does of its own accord; it waits for a request to come.
WorkerStep(w) ==
  \/ GetClient(w) \/ AddClient(w)
  \/ LockClient(w) \/ ReadFocus(w) \/ ReadWindows(w)
  \/ SendListSize(w) \/ SendListBody(w) \/ SendFocusSize(w) \/ SendFocusBody(w)
  \/ GreetingFails(w)
  \/ ReadFails(w) \/ CheckFocus(w) \/ Inject(w)
  \/ SendResponseSize(w) \/ SendResponseBody(w)
  \/ SkipClose(w) \/ CloseSocket(w) \/ InvalidateSocket(w) \/ MarkClosed(w)
  \/ Cleanup(w)

WorkerNext == \E w \in Worker : WorkerStep(w) \/ \E h \in Window : ReadRequest(w, h)

MonitorNext ==
  \/ BeginUpdate
  \/ \E h \in Window : NotifyClosed(h) \/ NotifyOpened(h)
  \/ NotifyFocus
  \/ \E c \in Conn : LockForMessage(c)
  \/ SendMessageSize \/ SendMessageBody \/ EndNotify
  \/ EndUpdate

Next == AcceptNext \/ EnvNext \/ WorkerNext \/ MonitorNext

Spec == Init /\ [][Next]_vars

(***************************************************************************)
(* Fairness.  A mutex that a thread waits for is free again and again,     *)
(* since the monitor sleeps 250 ms between two updates: strong fairness    *)
(* for a worker says that it then gets the mutex in the end.  What an end  *)
(* that has gone left in the buffers is finite, so readN() fails in the    *)
(* end.  Nothing else is assumed of the other ends.                        *)
(***************************************************************************)
FairSpec ==
  /\ Spec
  /\ WF_vars(MonitorNext)
  /\ \A w \in Worker : SF_vars(WorkerStep(w)) /\ SF_vars(ReadFails(w))

=============================================================================
