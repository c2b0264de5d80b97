---------------------- MODULE PdsServerProperties ----------------------
(***************************************************************************)
(* What the server promises, and what its comments and documents promise   *)
(* and it does not keep.                                                   *)
(***************************************************************************)
EXTENDS PdsServer

Serving == WorkerPC \ {"get", "add", "cleanup"}
Greeted == {"read", "check", "inject", "respSize", "respBody"}

\* The clients that have decoded their greeting and are still there.
Follower(c) == peer[c] \in {"up", "stuck"} /\ stream[c] = "listed"

(***************************************************************************)
(* serveClient() keeps a reference into `active` while it serves a client, *)
(* and other workers run cleanup() on the same list meanwhile: the element *)
(* it refers to is not removed under it.                                   *)
(***************************************************************************)
ServedIsListed ==
  \A w \in Worker : wpc[w] \in Serving => client[w] \in active

(***************************************************************************)
(* notify() walks `active` while workers add and remove clients: no client *)
(* it has still to visit, or is writing to, is destroyed meanwhile.        *)
(***************************************************************************)
NotifiedIsListed == todo \cup ({mopen} \ {NULL}) \subseteq active

(***************************************************************************)
(* From accept() to closesocket() every open connection is in the hands of *)
(* exactly one thread: it waits in `pending` once, or one worker serves    *)
(* it, and the Client object still knows the handle to close.              *)
(***************************************************************************)
OpenIsTended ==
  \A h \in Handle : owner[h] # NULL =>
    LET waiting == {i \in 1 .. Len(pending) : pending[i] = owner[h]}
        serving == {w \in Worker : client[w] = owner[h]}
    IN  /\ sck[owner[h]] = h
        /\ \/ serving = {} /\ \E i \in waiting : waiting = {i}
           \/ waiting = {} /\ \E w \in serving :
                serving = {w} /\ wpc[w] \notin {"invalidate", "mark", "cleanup"}

(***************************************************************************)
(* cLock_ keeps the greeting and the events apart: a frame is cut by       *)
(* another one only where a worker writes a response, which takes no lock. *)
(***************************************************************************)
OnlyResponsesMix ==
  [][\A c \in Conn : stream[c] # "mixed" /\ stream'[c] = "mixed" =>
       \E w \in Worker : client[w] = c /\ wpc[w] \in {"respSize", "respBody"}]_vars

(***************************************************************************)
(* A client is in `active`, where the monitor finds it, before it has been *)
(* sent its list: it gets an event first only if that comes between        *)
(* active.addClient() and the lock that sendProcessList() takes.           *)
(***************************************************************************)
EventFirstOnlyUngreeted ==
  [][\A c \in Conn : stream[c] # "event-first" /\ stream'[c] = "event-first" =>
       mopen = c /\ \E w \in Worker : client[w] = c /\ wpc[w] = "lock"]_vars

(***************************************************************************)
(* When cleanup() has removed the closed clients, an entry of `active`     *)
(* that no worker serves is one whose accept() had failed: it never had a  *)
(* socket, closeConnection() did nothing for it, and it stays for ever.    *)
(***************************************************************************)
OrphansNeverOpen ==
  \A c \in active : \/ \E w \in Worker : client[w] = c
                    \/ sck[c] = INVALID_SOCKET /\ ~isClosed[c]

(***************************************************************************)
(* Between two updates every client that follows the protocol shows the    *)
(* windows the server last published, although it may have joined in the   *)
(* middle of anything the monitor does.                                    *)
(***************************************************************************)
MirrorAtRest ==
  mpc = "sleep" => \A c \in Conn : Follower(c) => apps[c] = winHandles

(***************************************************************************)
(* Between two updates no such client shows as focused a window other than *)
(* the one the server has last seen focused.  It may show none although a  *)
(* listed window has the focus: see FocusToldWhenListed.                   *)
(***************************************************************************)
FocusAtRest ==
  mpc = "sleep" => \A c \in Conn : Follower(c) => focused[c] \in {NULL, onFocus}

(***************************************************************************)
(* A worker in sendProcessList() holds the cLock_ of c and does not go on: *)
(* it waits for windows_list's lock, or writes to a client that does not   *)
(* read.                                                                   *)
(***************************************************************************)
WaitsForList(c) == \E w \in Worker : client[w] = c /\ wpc[w] \in {"focus", "windows"}

WaitsForPeer(c) ==
  \E w \in Worker : /\ client[w] = c
                    /\ wpc[w] \in {"listSize", "listBody", "focusSize", "focusBody"}
                    /\ ~SendReturns(sck[c])

(***************************************************************************)
(* The monitor in update() holds windows_list's lock, and active's: it     *)
(* writes to a client that does not read, or the next client in the order  *)
(* of the list is held by such a worker, however free the others are.      *)
(***************************************************************************)
Stopped ==
  \/ mpc \in {"size", "body"} /\ ~SendReturns(sck[mopen])
  \/ mpc = "notify" /\ \E c \in todo : Foremost(c) /\ (WaitsForList(c) \/ WaitsForPeer(c))

(***************************************************************************)
(* Some thread has a step that brings an update nearer to its end: the     *)
(* monitor itself, or the worker that holds the lock of the next client it *)
(* has to tell, and whose next sendN() returns.                            *)
(***************************************************************************)
MonitorGoesOn ==
  \/ mpc = "event" /\ activeLock = NULL
  \/ mpc = "notify" /\ (todo = {} \/ \E c \in todo : Foremost(c) /\ cLock[c] = NULL)
  \/ mpc \in {"size", "body"} /\ SendReturns(sck[mopen])

HolderGoesOn ==
  \E c \in todo, w \in Worker :
    /\ Foremost(c) /\ cLock[c] = w /\ client[w] = c
    /\ wpc[w] \in {"listSize", "listBody", "focusSize", "focusBody"}
    /\ SendReturns(sck[c])

HeldUpOnlyWhenStopped == mpc # "sleep" => Stopped \/ MonitorGoesOn \/ HolderGoesOn

(***************************************************************************)
(* The lock cycle: the monitor holds windows_list's lock and the next      *)
(* client it has to tell is held by a worker that waits for that lock.     *)
(* Once closed it never opens, whatever clients come, go or read, and      *)
(* although clients further back are free: the list of windows stays as it *)
(* is, no client is told anything, and none enters or leaves `active`.     *)
(***************************************************************************)
Deadlocked == mpc = "notify" /\ \E c \in todo : Foremost(c) /\ WaitsForList(c)

DeadlockIsFinal ==
  [][Deadlocked => Deadlocked' /\ UNCHANGED <<winHandles, onFocus, active, todo>>]_vars

(***************************************************************************)
(* An update that began comes to its end, unless the lock cycle is closed  *)
(* or a client stops reading: nothing else can hold the monitor up.        *)
(***************************************************************************)
UpdateEndsUnlessStopped == mpc # "sleep" ~> mpc = "sleep" \/ Stopped

(***************************************************************************)
(* A client whose other end has gone is closed and leaves `active`, unless *)
(* the monitor is stopped and holds the lock of the list.                  *)
(***************************************************************************)
GoneIsForgotten ==
  \A c \in Conn : (c \in active /\ sck[c] # INVALID_SOCKET /\ peer[c] = "gone")
                   ~> (c \notin active \/ Stopped)

(***************************************************************************)
(* An accepted client is sent its list of windows, unless it goes away or  *)
(* does not read, gets an event first, finds no worker free, or the        *)
(* monitor is stopped.                                                     *)
(***************************************************************************)
AcceptedIsGreeted ==
  \A c \in Conn : peer[c] = "up"
    ~> \/ peer[c] # "up" \/ stream[c] # "fresh" \/ Stopped
       \/ \A w \in Worker : client[w] \notin {NULL, c}

-----------------------------------------------------------------------------
(***************************************************************************)
(* The server implements WindowsMirror.  A client follows once it has      *)
(* decoded its AppList, until it leaves or its stream is mixed.            *)
(***************************************************************************)
Mirror == INSTANCE WindowsMirror WITH
  Client  <- Conn,
  list    <- winHandles,
  inRound <- mpc # "sleep",
  next    <- updated,
  joined  <- {c \in Conn : Follower(c)},
  copy    <- apps

ImplementsMirror == Mirror!Spec

-----------------------------------------------------------------------------
(***************************************************************************)
(* What comments and documents say of the server, and the code does not    *)
(* do.                                                                     *)
(***************************************************************************)

(* "A thread-safe collection of windows" (WindowsList.h:11): every update  *)
(* that begins ends.                                                       *)
UpdateCompletes == mpc # "sleep" ~> mpc = "sleep"

(* "if the current foreground window is not listed, the focusChange event  *)
(* is notified on the next check" (WindowsList.cpp:67): once the window    *)
(* that has the focus is listed, every client that is being served and has *)
(* decoded its greeting shows it as focused.                               *)
FocusToldWhenListed ==
  mpc = "sleep" /\ onFocus \in winHandles =>
    \A w \in Worker : wpc[w] \in Greeted /\ Follower(client[w]) => focused[client[w]] = onFocus

(* "the input is sent only if the target window is the one on focus"       *)
(* (Client.cpp:151).                                                       *)
InputReachesTarget ==
  [][\A w \in Worker : wpc[w] = "inject" /\ wpc'[w] # "inject" => foreground = target[w]]_vars

(* "we don't want the "daemon" and the serving thread to serve the same    *)
(* client at the same time" (Client.cpp:189): what the monitor writes for  *)
(* a client that is being closed reaches no other client.                  *)
ReachesAddressee ==
  [][mpc' # mpc /\ mpc \in {"size", "body"} =>
       \A c \in Conn \ {mopen} : stream'[c] = stream[c] /\ apps'[c] = apps[c]]_vars

=============================================================================
