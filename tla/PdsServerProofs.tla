-------------------------- MODULE PdsServerProofs --------------------------
(***************************************************************************)
(* Proofs about PdsServer, for any number of clients, workers, handles and *)
(* windows.                                                                *)
(***************************************************************************)
EXTENDS PdsServerProperties, TLAPS, SequenceTheorems, WellFoundedInduction

USE WindowAssumption, ThreadAssumption, ConnAssumption, HandleAssumption,
    DesktopAssumption, RecycleAssumption

-----------------------------------------------------------------------------
(***************************************************************************)
(* Types.  A worker that is not waiting for a client has one, and notify() *)
(* has an event to tell.                                                   *)
(***************************************************************************)
Staffed == \A w \in Worker : wpc[w] = "get" <=> client[w] = NULL

EventSet == mpc \in {"notify", "size", "body"} => event \in Event

Typed == TypeOK /\ Staffed /\ EventSet

ViewTyped ==
  /\ stream \in [Conn -> {"fresh", "listed", "event-first", "mixed", "hung"}]
  /\ apps \in [Conn -> SUBSET Window]
  /\ focused \in [Conn -> Window \cup {NULL}]

\* What arrives at the other ends keeps the type of what they know.
LEMMA ReceiveTyped ==
  ASSUME TypeOK, NEW h,
         \/ ReceiveSize(h)
         \/ \E W \in SUBSET Window : ReceiveAppList(h, W)
         \/ \E e \in Event : ReceiveEvent(h, e)
         \/ UNCHANGED viewVars
  PROVE  ViewTyped'
<1>1. CASE ReceiveSize(h)
  BY <1>1 DEF ReceiveSize, ViewTyped, TypeOK
<1>2. ASSUME NEW W \in SUBSET Window, ReceiveAppList(h, W) PROVE ViewTyped'
  BY <1>2 DEF ReceiveAppList, ViewTyped, TypeOK
<1>3. ASSUME NEW e \in Event, ReceiveEvent(h, e) PROVE ViewTyped'
  BY <1>3 DEF ReceiveEvent, ViewTyped, TypeOK, AppsAfter, FocusedAfter, Event
<1>4. CASE UNCHANGED viewVars
  BY <1>4 DEF viewVars, ViewTyped, TypeOK
<1> QED
  BY <1>1, <1>2, <1>3, <1>4

\* Every cell of the initial state has its type.
LEMMA TypedInit == Init => Typed
  BY DEF Init, Typed, Staffed, EventSet, TypeOK, DesktopInit, DesktopTypeOK, MyEnumWindows,
         GetForegroundWindow, WorkerPC, MonitorPC

\* accept() keeps every cell's type, whether the connection opens or fails.
LEMMA TypedAccept == ASSUME Typed, AcceptNext PROVE Typed'
<1> USE DEF netVars, clientVars, windowsVars, workerVars, updateVars, notifyVars, monVars,
            viewVars, envVars, listVars, activeVars, nonWorkerVars, Typed,
            Staffed, EventSet, TypeOK, DesktopTypeOK, MonitorPC
<1>1. ASSUME NEW c \in Conn, NEW h \in Handle, Accept(c, h) PROVE Typed'
  BY <1>1 DEF Accept
<1>2. ASSUME NEW c \in Conn, AcceptFails(c) PROVE Typed'
  BY <1>2 DEF AcceptFails
<1> QED
  BY <1>1, <1>2 DEF AcceptNext

\* So do the other ends and the desktop.
LEMMA TypedEnv == ASSUME Typed, EnvNext PROVE Typed'
<1> USE DEF netVars, clientVars, windowsVars, workerVars, updateVars, notifyVars, monVars,
            viewVars, envVars, listVars, activeVars, nonWorkerVars, Typed,
            Staffed, EventSet, TypeOK, DesktopTypeOK, MonitorPC
<1>1. ASSUME NEW c \in Conn, Stall(c) PROVE Typed'
  BY <1>1 DEF Stall
<1>2. ASSUME NEW c \in Conn, Depart(c) PROVE Typed'
  BY <1>2 DEF Depart
<1>3. ASSUME ForegroundChanges, UNCHANGED <<netVars, listVars, clientVars, windowsVars,
                                            workerVars, monVars, viewVars>>
      PROVE  Typed'
  BY <1>3 DEF ForegroundChanges
<1> QED
  BY <1>1, <1>2, <1>3 DEF EnvNext

\* So does every step of a worker.
LEMMA TypedWorker ==
  ASSUME Typed, NEW w \in Worker, WorkerStep(w) \/ \E h \in Window : ReadRequest(w, h)
  PROVE  Typed'
<1> USE DEF netVars, clientVars, windowsVars, workerVars, updateVars, notifyVars, monVars,
            viewVars, envVars, listVars, activeVars, nonWorkerVars, Goto, Typed,
            Staffed, EventSet, TypeOK, DesktopTypeOK, WorkerPC
<1>1. CASE GetClient(w)
  BY <1>1 DEF GetClient
<1>2. CASE AddClient(w)
  BY <1>2 DEF AddClient
<1>3. CASE LockClient(w)
  BY <1>3 DEF LockClient, Thread
<1>4. CASE ReadFocus(w)
  BY <1>4 DEF ReadFocus
<1>5. CASE ReadWindows(w)
  BY <1>5 DEF ReadWindows
<1>6. CASE SendListSize(w)
  <2>1. ViewTyped'
    BY <1>6, ReceiveTyped DEF SendListSize
  <2> QED
    BY <1>6, <2>1 DEF SendListSize, ViewTyped
<1>7. CASE SendListBody(w)
  <2>1. snap[w] \in SUBSET Window
    OBVIOUS
  <2>2. ViewTyped'
    BY <1>7, <2>1, ReceiveTyped DEF SendListBody
  <2> QED
    BY <1>7, <2>2 DEF SendListBody, ViewTyped
<1>8. CASE SendFocusSize(w)
  <2>1. ViewTyped'
    BY <1>8, ReceiveTyped DEF SendFocusSize
  <2> QED
    BY <1>8, <2>1 DEF SendFocusSize, ViewTyped
<1>9. CASE SendFocusBody(w)
  <2>1. [kind |-> "got_focus", win |-> snapFocus[w]] \in Event
    BY DEF Event
  <2>2. ViewTyped'
    BY <1>9, <2>1, ReceiveTyped DEF SendFocusBody
  <2>3. /\ cLock' \in [Conn -> Thread \cup {NULL}]
        /\ snapFocus' \in [Worker -> Window \cup {DESKTOP, NULL}]
        /\ wpc' \in [Worker -> WorkerPC] /\ wpc'[w] # "get"
    BY <1>9 DEF SendFocusBody
  <2> QED
    BY <1>9, <2>2, <2>3 DEF SendFocusBody, ViewTyped
<1>10. CASE GreetingFails(w)
  BY <1>10 DEF GreetingFails
<1>11. CASE ReadFails(w)
  BY <1>11 DEF ReadFails
<1>12. CASE CheckFocus(w)
  BY <1>12 DEF CheckFocus
<1>13. CASE Inject(w)
  BY <1>13 DEF Inject
<1>14. CASE SendResponseSize(w)
  <2>1. ViewTyped'
    BY <1>14, ReceiveTyped DEF SendResponseSize
  <2> QED
    BY <1>14, <2>1 DEF SendResponseSize, ViewTyped
<1>15. CASE SendResponseBody(w)
  BY <1>15 DEF SendResponseBody
<1>16. CASE SkipClose(w)
  BY <1>16 DEF SkipClose
<1>17. CASE CloseSocket(w)
  BY <1>17 DEF CloseSocket
<1>18. CASE InvalidateSocket(w)
  BY <1>18 DEF InvalidateSocket
<1>19. CASE MarkClosed(w)
  BY <1>19 DEF MarkClosed
<1>20. CASE Cleanup(w)
  BY <1>20 DEF Cleanup
<1>21. ASSUME NEW h \in Window, ReadRequest(w, h) PROVE Typed'
  BY <1>21 DEF ReadRequest
<1> QED
  BY <1>1, <1>2, <1>3, <1>4, <1>5, <1>6, <1>7, <1>8, <1>9, <1>10, <1>11, <1>12, <1>13, <1>14,
     <1>15, <1>16, <1>17, <1>18, <1>19, <1>20, <1>21
     DEF WorkerStep

\* So does every step of the monitor.
LEMMA TypedMonitor == ASSUME Typed, MonitorNext PROVE Typed'
<1> USE DEF netVars, clientVars, windowsVars, workerVars, updateVars, notifyVars, monVars,
            viewVars, envVars, listVars, activeVars, nonWorkerVars, Typed,
            Staffed, EventSet, TypeOK, DesktopTypeOK, MonitorPC
<1>1. CASE BeginUpdate
  BY <1>1 DEF BeginUpdate, MyEnumWindows, GetForegroundWindow
<1>2. ASSUME NEW h \in Window, NotifyClosed(h) PROVE Typed'
  BY <1>2 DEF NotifyClosed, Notify, Event
<1>3. ASSUME NEW h \in Window, NotifyOpened(h) PROVE Typed'
  BY <1>3 DEF NotifyOpened, Notify, Event
<1>4. CASE NotifyFocus
  BY <1>4 DEF NotifyFocus, Notify, FocusChanged, Event
<1>5. ASSUME NEW c \in Conn, LockForMessage(c) PROVE Typed'
  BY <1>5 DEF LockForMessage, Thread
<1>6. CASE SendMessageSize
  <2>1. ViewTyped'
    BY <1>6, ReceiveTyped DEF SendMessageSize
  <2> QED
    BY <1>6, <2>1 DEF SendMessageSize, ViewTyped
<1>7. CASE SendMessageBody
  <2>1. ViewTyped'
    BY <1>7, ReceiveTyped DEF SendMessageBody
  <2> QED
    BY <1>7, <2>1 DEF SendMessageBody, ViewTyped
<1>8. CASE EndNotify
  BY <1>8 DEF EndNotify
<1>9. CASE EndUpdate
  BY <1>9 DEF EndUpdate
<1> QED
  BY <1>1, <1>2, <1>3, <1>4, <1>5, <1>6, <1>7, <1>8, <1>9 DEF MonitorNext

\* And the step that changes nothing.
LEMMA TypedStutter == ASSUME Typed, UNCHANGED vars PROVE Typed'
  BY DEF vars, netVars, clientVars, windowsVars, workerVars, updateVars, notifyVars,
         monVars,
         viewVars, envVars, listVars, activeVars, nonWorkerVars, Typed, Staffed, EventSet, TypeOK,
         DesktopTypeOK

\* The induction step: the cases of Next, gathered.
LEMMA TypedStep == Typed /\ [Next]_vars => Typed'
  BY TypedAccept, TypedEnv, TypedWorker, TypedMonitor, TypedStutter DEF Next, WorkerNext

(***************************************************************************)
(* Every variable keeps its type, whatever the number of clients, workers, *)
(* handles and windows; a worker that serves a client always has one.      *)
(***************************************************************************)
THEOREM TypeCorrect == Spec => []TypeOK
<1>1. Typed => TypeOK
  BY DEF Typed
<1> QED
  BY TypedInit, TypedStep, <1>1, PTL DEF Spec

-----------------------------------------------------------------------------
(***************************************************************************)
(* Locks.  Who holds which mutex is told by where the threads stand.       *)
(***************************************************************************)
Greeting == {"focus", "windows", "listSize", "listBody", "focusSize", "focusBody"}

Locks ==
  /\ windowsLock = IF mpc = "sleep" THEN NULL ELSE Monitor
  /\ activeLock = IF mpc \in {"notify", "size", "body"} THEN Monitor ELSE NULL
  /\ mpc \in {"sleep", "event"} => todo = {}
  /\ IF mpc \in {"size", "body"} THEN mopen \in todo ELSE mopen = NULL
  /\ \A c \in Conn : cLock[c] = Monitor <=> mpc \in {"size", "body"} /\ mopen = c
  /\ \A c \in Conn, w \in Worker : cLock[c] = w <=> wpc[w] \in Greeting /\ client[w] = c

\* Nobody holds a mutex at the start.
LEMMA LocksInit == Init => Locks
  BY DEF Init, Locks, Greeting

\* A step that takes a mutex finds it free; one that leaves the lines it guards releases it.
LEMMA LocksStep ==
  ASSUME Typed, Typed', Locks, [Next]_vars
  PROVE  Locks'
<1> USE DEF netVars, clientVars, windowsVars, workerVars, updateVars, notifyVars, monVars,
            viewVars, envVars, listVars, activeVars, nonWorkerVars,
            Typed, Staffed, EventSet, TypeOK, WorkerPC, MonitorPC, Thread, Locks, Greeting, Goto
<1>1. ASSUME NEW c \in Conn, NEW h \in Handle, Accept(c, h) PROVE Locks'
  BY <1>1 DEF Accept
<1>2. ASSUME NEW c \in Conn, AcceptFails(c) PROVE Locks'
  BY <1>2 DEF AcceptFails
<1>3. ASSUME NEW c \in Conn, Stall(c) PROVE Locks'
  BY <1>3 DEF Stall
<1>4. ASSUME NEW c \in Conn, Depart(c) PROVE Locks'
  BY <1>4 DEF Depart
<1>5. ASSUME NEW w \in Worker, GetClient(w) PROVE Locks'
  BY <1>5 DEF GetClient
<1>6. ASSUME NEW w \in Worker, AddClient(w) PROVE Locks'
  BY <1>6 DEF AddClient
<1>7. ASSUME NEW w \in Worker, LockClient(w) PROVE Locks'
  BY <1>7 DEF LockClient
<1>8. ASSUME NEW w \in Worker, ReadFocus(w) PROVE Locks'
  BY <1>8 DEF ReadFocus
<1>9. ASSUME NEW w \in Worker, ReadWindows(w) PROVE Locks'
  BY <1>9 DEF ReadWindows
<1>10. ASSUME NEW w \in Worker, SendListSize(w) PROVE Locks'
  BY <1>10 DEF SendListSize
<1>11. ASSUME NEW w \in Worker, SendListBody(w) PROVE Locks'
  BY <1>11 DEF SendListBody
<1>12. ASSUME NEW w \in Worker, SendFocusSize(w) PROVE Locks'
  BY <1>12 DEF SendFocusSize
<1>13. ASSUME NEW w \in Worker, SendFocusBody(w) PROVE Locks'
  BY <1>13 DEF SendFocusBody
<1>14. ASSUME NEW w \in Worker, GreetingFails(w) PROVE Locks'
  BY <1>14 DEF GreetingFails
<1>15. ASSUME NEW w \in Worker, ReadFails(w) PROVE Locks'
  BY <1>15 DEF ReadFails
<1>16. ASSUME NEW w \in Worker, CheckFocus(w) PROVE Locks'
  BY <1>16 DEF CheckFocus
<1>17. ASSUME NEW w \in Worker, Inject(w) PROVE Locks'
  BY <1>17 DEF Inject
<1>18. ASSUME NEW w \in Worker, SendResponseSize(w) PROVE Locks'
  BY <1>18 DEF SendResponseSize
<1>19. ASSUME NEW w \in Worker, SendResponseBody(w) PROVE Locks'
  BY <1>19 DEF SendResponseBody
<1>20. ASSUME NEW w \in Worker, SkipClose(w) PROVE Locks'
  BY <1>20 DEF SkipClose
<1>21. ASSUME NEW w \in Worker, CloseSocket(w) PROVE Locks'
  BY <1>21 DEF CloseSocket
<1>22. ASSUME NEW w \in Worker, InvalidateSocket(w) PROVE Locks'
  BY <1>22 DEF InvalidateSocket
<1>23. ASSUME NEW w \in Worker, MarkClosed(w) PROVE Locks'
  BY <1>23 DEF MarkClosed
<1>24. ASSUME NEW w \in Worker, Cleanup(w) PROVE Locks'
  BY <1>24 DEF Cleanup
<1>25. ASSUME NEW w \in Worker, NEW h \in Window, ReadRequest(w, h) PROVE Locks'
  BY <1>25 DEF ReadRequest
<1>26. CASE BeginUpdate
  BY <1>26 DEF BeginUpdate
<1>27. ASSUME NEW h \in Window, NotifyClosed(h) PROVE Locks'
  BY <1>27 DEF NotifyClosed, Notify
<1>28. ASSUME NEW h \in Window, NotifyOpened(h) PROVE Locks'
  BY <1>28 DEF NotifyOpened, Notify
<1>29. CASE NotifyFocus
  BY <1>29 DEF NotifyFocus, Notify
<1>30. ASSUME NEW c \in Conn, LockForMessage(c) PROVE Locks'
  <2>1. c \in todo
    BY <1>30 DEF LockForMessage, Foremost
  <2> QED
    BY <1>30, <2>1 DEF LockForMessage
<1>31. CASE SendMessageSize
  BY <1>31 DEF SendMessageSize
<1>32. CASE SendMessageBody
  BY <1>32 DEF SendMessageBody
<1>33. CASE EndNotify
  BY <1>33 DEF EndNotify
<1>34. CASE EndUpdate
  BY <1>34 DEF EndUpdate
<1>35. ASSUME UNCHANGED <<netVars, listVars, clientVars, windowsVars, workerVars,
                          monVars, viewVars>>
      PROVE  Locks'
  BY <1>35
<1> QED
  BY <1>1, <1>2, <1>3, <1>4, <1>5, <1>6, <1>7, <1>8, <1>9, <1>10, <1>11, <1>12, <1>13,
     <1>14, <1>15, <1>16, <1>17, <1>18, <1>19, <1>20, <1>21, <1>22, <1>23, <1>24, <1>25,
     <1>26, <1>27, <1>28, <1>29, <1>30, <1>31, <1>32, <1>33, <1>34, <1>35
     DEF Next, AcceptNext, EnvNext, WorkerNext, WorkerStep, MonitorNext, vars

(***************************************************************************)
(* Clients.  Each is in one place: it waits in `pending`, or has a worker, *)
(* or neither; a worker's client is in `active` as long as it is served,   *)
(* and only the last step of its service marks it as closed.               *)
(***************************************************************************)
Queued(c) == \E i \in 1 .. Len(pending) : pending[i] = c

Places ==
  /\ \A v, w \in Worker : client[v] = client[w] /\ client[v] # NULL => v = w
  /\ \A i, j \in 1 .. Len(pending) : pending[i] = pending[j] => i = j
  /\ \A c \in Conn : Queued(c) => /\ peer[c] # "away"
                                  /\ c \notin active
                                  /\ \A w \in Worker : client[w] # c
  /\ \A w \in Worker : client[w] # NULL => peer[client[w]] # "away"
  /\ \A w \in Worker : wpc[w] \in Serving => client[w] \in active
  /\ \A c \in active : peer[c] # "away"
  /\ todo \subseteq active
  /\ \A c \in Conn : isClosed[c] => /\ peer[c] # "away" /\ ~Queued(c)
                                    /\ \A w \in Worker : client[w] = c => wpc[w] = "cleanup"

(***************************************************************************)
(* Sockets.  The handle of a client denotes its connection until the       *)
(* client is closed, and a connection that is open is known to its client. *)
(***************************************************************************)
InService(c) ==
  \/ Queued(c)
  \/ \E w \in Worker : client[w] = c /\ wpc[w] \notin {"invalidate", "mark", "cleanup"}

Sockets ==
  /\ \A c \in Conn : peer[c] = "away" => sck[c] = INVALID_SOCKET
  /\ \A h \in Handle : owner[h] # NULL => sck[owner[h]] = h /\ InService(owner[h])
  /\ \A c \in Conn : InService(c) /\ sck[c] # INVALID_SOCKET => owner[sck[c]] = c

Closing == {"invalidate", "mark", "cleanup"}

\* Steps that neither take nor release a client, nor begin to close one.
LEMMA SocketsFrame ==
  ASSUME Sockets, UNCHANGED <<sck, owner, pending, client>>,
         \A c \in Conn : peer[c] = "away" <=> peer'[c] = "away",
         \A w \in Worker : wpc[w] \in Closing <=> wpc'[w] \in Closing
  PROVE  Sockets'
<1>1. \A c : InService(c) <=> InService(c)'
  BY DEF InService, Queued, Closing
<1> QED
  BY <1>1 DEF Sockets

\* The elements of a sequence's tail, and of the sequence with one appended.
LEMMA SequenceParts ==
  ASSUME NEW S, NEW s \in Seq(S), s # << >>
  PROVE  /\ Len(s) \in Nat /\ Len(s) > 0 /\ Head(s) = s[1]
         /\ Tail(s) \in Seq(S) /\ Len(Tail(s)) = Len(s) - 1
         /\ \A i \in 1 .. Len(Tail(s)) : i + 1 \in 1 .. Len(s) /\ Tail(s)[i] = s[i + 1]
  OBVIOUS

\* Append() keeps what was there and adds one.
LEMMA SequenceGrows ==
  ASSUME NEW S, NEW s \in Seq(S), NEW x \in S
  PROVE  /\ Len(s) \in Nat /\ Append(s, x) \in Seq(S) /\ Len(Append(s, x)) = Len(s) + 1
         /\ \A i \in 1 .. Len(s) : Append(s, x)[i] = s[i]
         /\ Append(s, x)[Len(s) + 1] = x
  OBVIOUS

\* accept() puts a client at the end of `pending`, getClient() takes the first.
LEMMA QueuedAppend ==
  ASSUME TypeOK, NEW c \in Conn, pending' = Append(pending, c)
  PROVE  \A d \in Conn : Queued(d)' <=> Queued(d) \/ d = c
  BY SequenceGrows DEF TypeOK, Queued

\* getClient() leaves in `pending` all but the first.
LEMMA QueuedTail ==
  ASSUME TypeOK, Places, pending # << >>, pending' = Tail(pending)
  PROVE  /\ Head(pending) \in Conn /\ Queued(Head(pending))
         /\ \A d \in Conn : Queued(d)' <=> Queued(d) /\ d # Head(pending)
<1> DEFINE c == Head(pending)
<1>1. c \in Conn /\ c = pending[1] /\ 1 \in 1 .. Len(pending)
  BY SequenceParts DEF TypeOK
<1>2. ASSUME NEW d \in Conn, Queued(d)' PROVE Queued(d) /\ d # c
  <2>1. PICK i \in 1 .. Len(Tail(pending)) : Tail(pending)[i] = d
    BY <1>2 DEF Queued
  <2>2. i + 1 \in 1 .. Len(pending) /\ pending[i + 1] = d /\ i + 1 # 1
    BY <2>1, SequenceParts DEF TypeOK
  <2>3. d # c
    BY <1>1, <2>2 DEF Places
  <2> QED
    BY <2>2, <2>3 DEF Queued
<1>3. ASSUME NEW d \in Conn, Queued(d), d # c PROVE Queued(d)'
  <2>1. PICK i \in 1 .. Len(pending) : pending[i] = d
    BY <1>3 DEF Queued
  <2>2. i # 1 /\ i - 1 \in 1 .. Len(Tail(pending)) /\ Tail(pending)[i - 1] = d
    BY <1>1, <1>3, <2>1, SequenceParts DEF TypeOK
  <2> QED
    BY <2>2 DEF Queued
<1> QED
  BY <1>1, <1>2, <1>3 DEF Queued

\* Only accept() opens a SOCKET, and only closesocket() frees one.
LEMMA SocketsStep ==
  ASSUME Typed, Typed', Places, Sockets, [Next]_vars
  PROVE  Sockets'
<1> USE DEF netVars, clientVars, windowsVars, workerVars, updateVars, notifyVars, monVars,
            viewVars, envVars, listVars, activeVars, nonWorkerVars, Goto
<1>1. ASSUME NEW c \in Conn, NEW h \in Handle, Accept(c, h) PROVE Sockets'
  <2>1. \A d \in Conn : InService(d)' <=> InService(d) \/ d = c
    BY <1>1, QueuedAppend DEF Accept, InService, Typed
  <2>2. \A g \in Handle : owner[g] # c /\ sck[c] = INVALID_SOCKET
    BY <1>1 DEF Accept, Sockets
  <2> QED
    BY <1>1, <2>1, <2>2 DEF Accept, Sockets, Typed, TypeOK
<1>2. ASSUME NEW c \in Conn, AcceptFails(c) PROVE Sockets'
  <2>1. \A d \in Conn : InService(d)' <=> InService(d) \/ d = c
    BY <1>2, QueuedAppend DEF AcceptFails, InService, Typed
  <2> QED
    BY <1>2, <2>1 DEF AcceptFails, Sockets, Typed, TypeOK
<1>3. ASSUME NEW c \in Conn, Stall(c) \/ Depart(c) PROVE Sockets'
  <2>1. \A d \in Conn : peer[d] = "away" <=> peer'[d] = "away"
    BY <1>3 DEF Stall, Depart, Typed, TypeOK
  <2> QED
    BY <1>3, <2>1, SocketsFrame DEF Stall, Depart
<1>4. ASSUME NEW w \in Worker, GetClient(w) PROVE Sockets'
  <2>1. \A d \in Conn : InService(d)' <=> InService(d)
    BY <1>4, QueuedTail DEF GetClient, InService, Typed, TypeOK, Staffed, WorkerPC
  <2> QED
    BY <1>4, <2>1 DEF GetClient, Sockets, Typed, TypeOK
<1>5. ASSUME NEW w \in Worker,
             \/ AddClient(w) \/ LockClient(w) \/ ReadFocus(w) \/ ReadWindows(w)
             \/ SendListSize(w) \/ SendListBody(w) \/ SendFocusSize(w)
             \/ SendFocusBody(w) \/ GreetingFails(w) \/ ReadFails(w)
             \/ CheckFocus(w) \/ Inject(w) \/ SendResponseSize(w)
             \/ SendResponseBody(w) \/ MarkClosed(w)
             \/ \E h \in Window : ReadRequest(w, h)
      PROVE  Sockets'
  <2>1. UNCHANGED <<sck, owner, pending, client, peer>>
    BY <1>5 DEF AddClient, LockClient, ReadFocus, ReadWindows, SendListSize,
                SendListBody, SendFocusSize, SendFocusBody, GreetingFails,
                ReadFails, CheckFocus, Inject, SendResponseSize,
                SendResponseBody, MarkClosed, ReadRequest
  <2>2. \A v \in Worker : wpc[v] \in Closing <=> wpc'[v] \in Closing
    BY <1>5 DEF AddClient, LockClient, ReadFocus, ReadWindows, SendListSize,
                SendListBody, SendFocusSize, SendFocusBody, GreetingFails,
                ReadFails, CheckFocus, Inject, SendResponseSize,
                SendResponseBody, MarkClosed, ReadRequest,
                Closing, Typed, TypeOK
  <2> QED
    BY <2>1, <2>2, SocketsFrame
<1>6. ASSUME NEW w \in Worker, SkipClose(w) PROVE Sockets'
  <2>1. client[w] \in Conn /\ sck[client[w]] = INVALID_SOCKET
    BY <1>6 DEF SkipClose, Typed, TypeOK, Staffed
  <2>2. \A d \in Conn : d # client[w] => (InService(d)' <=> InService(d))
    BY <1>6 DEF SkipClose, InService, Queued, Typed, TypeOK
  <2> QED
    BY <1>6, <2>1, <2>2 DEF SkipClose, Sockets, Typed, TypeOK
<1>7. ASSUME NEW w \in Worker, CloseSocket(w) PROVE Sockets'
  <2>1. client[w] \in Conn /\ sck[client[w]] \in Handle
    BY <1>7 DEF CloseSocket, Typed, TypeOK, Staffed
  <2>2. owner[sck[client[w]]] = client[w]
    BY <1>7, <2>1 DEF CloseSocket, Sockets, InService
  <2>3. /\ owner' = [owner EXCEPT ![sck[client[w]]] = NULL]
        /\ owner \in [Handle -> Conn \cup {NULL}]
        /\ \A v \in Worker : wpc'[v] = IF v = w THEN "invalidate" ELSE wpc[v]
        /\ UNCHANGED <<pending, client, sck, peer>>
    BY <1>7 DEF CloseSocket, Typed, TypeOK
  <2>4. \A d \in Conn : d # client[w] => (InService(d)' <=> InService(d))
    BY <2>3 DEF InService, Queued
  <2>5. ~InService(client[w])'
    <3>1. ~Queued(client[w]) /\ \A v \in Worker : client[v] = client[w] => v = w
      BY <2>1 DEF Places
    <3> QED
      BY <2>3, <3>1 DEF InService, Queued
  <2>6. \A h \in Handle : owner'[h] = IF h = sck[client[w]] THEN NULL ELSE owner[h]
    BY <2>3
  <2>7. \A h \in Handle : owner'[h] # NULL => /\ h # sck[client[w]] /\ owner[h] # NULL
                                              /\ owner[h] \in Conn /\ owner[h] # client[w]
    BY <2>3, <2>6 DEF Sockets
  <2>8. ASSUME NEW h \in Handle, NEW d \in Conn, owner'[h] = d
        PROVE  sck'[d] = h /\ InService(d)'
    <3>1. owner[h] = d /\ d # client[w]
      BY <2>6, <2>7, <2>8, ConnAssumption
    <3>2. sck[d] = h /\ InService(d)
      BY <2>8, <3>1, ConnAssumption DEF Sockets
    <3> QED
      BY <2>3, <2>4, <3>1, <3>2
  <2>9. ASSUME NEW d \in Conn, InService(d)', sck'[d] # INVALID_SOCKET PROVE owner'[sck'[d]] = d
    <3>1. d # client[w] /\ InService(d) /\ sck'[d] = sck[d]
      BY <2>3, <2>4, <2>5, <2>9
    <3>2. owner[sck[d]] = d /\ sck[d] \in Handle
      BY <2>9, <3>1 DEF Sockets, Typed, TypeOK
    <3> QED
      BY <2>2, <2>6, <3>1, <3>2
  <2>10. ASSUME NEW d \in Conn PROVE peer'[d] = "away" => sck'[d] = INVALID_SOCKET
    BY <2>3 DEF Sockets
  <2>11. ASSUME NEW h \in Handle PROVE owner'[h] \in Conn \cup {NULL}
    BY DEF Typed, TypeOK
  <2> QED
    BY <2>8, <2>9, <2>10, <2>11 DEF Sockets
<1>8. ASSUME NEW w \in Worker, InvalidateSocket(w) PROVE Sockets'
  <2>1. client[w] \in Conn /\ ~InService(client[w])
    <3>1. client[w] \in Conn /\ wpc[w] = "invalidate"
      BY <1>8 DEF InvalidateSocket, Typed, TypeOK, Staffed
    <3>2. ~Queued(client[w]) /\ \A v \in Worker : client[v] = client[w] => v = w
      BY <3>1 DEF Places
    <3> QED
      BY <3>1, <3>2 DEF InService
  <2>2. \A d \in Conn : InService(d)' <=> InService(d)
    BY <1>8, <2>1 DEF InvalidateSocket, InService, Queued, Typed, TypeOK
  <2> QED
    BY <1>8, <2>1, <2>2 DEF InvalidateSocket, Sockets, Typed, TypeOK
<1>9. ASSUME NEW w \in Worker, Cleanup(w) PROVE Sockets'
  <2>1. \A d \in Conn : InService(d)' <=> InService(d)
    BY <1>9 DEF Cleanup, InService, Queued, Typed, TypeOK
  <2> QED
    BY <1>9, <2>1 DEF Cleanup, Sockets, Typed, TypeOK
<1>10. ASSUME MonitorNext \/ (ForegroundChanges /\ UNCHANGED <<netVars, listVars,
                                                               clientVars, workerVars>>)
              \/ UNCHANGED vars
       PROVE  Sockets'
  <2>1. UNCHANGED <<sck, owner, pending, client, wpc, peer>>
    BY <1>10 DEF MonitorNext, BeginUpdate, NotifyClosed, NotifyOpened, NotifyFocus, Notify,
                 LockForMessage, SendMessageSize, SendMessageBody, EndNotify, EndUpdate, vars
  <2> QED
    BY <2>1, SocketsFrame
<1> QED
  BY <1>1, <1>2, <1>3, <1>4, <1>5, <1>6, <1>7, <1>8, <1>9, <1>10
     DEF Next, AcceptNext, EnvNext, WorkerNext, WorkerStep

\* Steps that move no client.
LEMMA PlacesFrame ==
  ASSUME Places, UNCHANGED <<pending, active, client, isClosed>>,
         \A c \in Conn : peer[c] = "away" <=> peer'[c] = "away",
         \A w \in Worker : /\ wpc'[w] \in Serving => wpc[w] \in Serving
                           /\ wpc[w] = "cleanup" => wpc'[w] = "cleanup",
         active \subseteq Conn, client \in [Worker -> Conn \cup {NULL}],
         todo' \subseteq active
  PROVE  Places'
  BY DEF Places, Queued

\* A client moves from the queue to one worker, and from there to nowhere.
LEMMA PlacesStep ==
  ASSUME Typed, Typed', Locks, Places, [Next]_vars
  PROVE  Places'
<1> USE DEF netVars, clientVars, windowsVars, workerVars, updateVars, notifyVars, monVars,
            viewVars, envVars, listVars, activeVars, nonWorkerVars, Goto
<1>0. active \subseteq Conn /\ client \in [Worker -> Conn \cup {NULL}] /\ todo \subseteq active
  BY DEF Typed, TypeOK, Places
<1>1. ASSUME NEW c \in Conn, peer[c] = "away", pending' = Append(pending, c),
             peer' = [peer EXCEPT ![c] = "up"] \/ peer' = [peer EXCEPT ![c] = "gone"],
             UNCHANGED <<active, client, isClosed, wpc, todo>>
      PROVE  Places'
  <2>1. ~Queued(c) /\ c \notin active /\ ~isClosed[c] /\ \A w \in Worker : client[w] # c
    BY <1>1 DEF Places
  <2>2. \A d \in Conn : Queued(d)' <=> Queued(d) \/ d = c
    BY <1>1, QueuedAppend DEF Typed
  <2>3. \A i, j \in 1 .. Len(pending') : pending'[i] = pending'[j] => i = j
    <3>1. Len(pending') = Len(pending) + 1 /\ Len(pending) \in Nat
      BY <1>1, SequenceGrows DEF Typed, TypeOK
    <3>2. \A i \in 1 .. Len(pending) : pending'[i] = pending[i] /\ pending[i] # c
      BY <1>1, <2>1, SequenceGrows DEF Queued, Typed, TypeOK
    <3>3. pending'[Len(pending) + 1] = c
      BY <1>1, SequenceGrows DEF Typed, TypeOK
    <3> QED
      BY <3>1, <3>2, <3>3 DEF Places
  <2>4. \A d \in Conn : peer'[d] = "away" => peer[d] = "away" /\ d # c
    BY <1>1 DEF Typed, TypeOK
  <2> QED
    BY <1>0, <1>1, <2>1, <2>2, <2>3, <2>4 DEF Places
<1>2. ASSUME NEW c \in Conn, Stall(c) \/ Depart(c) PROVE Places'
  <2>1. \A d \in Conn : peer[d] = "away" <=> peer'[d] = "away"
    BY <1>2 DEF Stall, Depart, Typed, TypeOK
  <2> QED
    BY <1>0, <1>2, <2>1, PlacesFrame DEF Stall, Depart
<1>3. ASSUME NEW w \in Worker, GetClient(w) PROVE Places'
  <2> DEFINE c == Head(pending)
  <2>1. /\ c \in Conn /\ Queued(c)
        /\ \A d \in Conn : Queued(d)' <=> Queued(d) /\ d # c
    BY <1>3, QueuedTail DEF GetClient, Typed
  <2>2. /\ client' = [client EXCEPT ![w] = c] /\ client[w] = NULL
        /\ wpc' = [wpc EXCEPT ![w] = "add"]
        /\ UNCHANGED <<peer, active, isClosed, todo>>
    BY <1>3 DEF GetClient, Typed, Staffed
  <2>3. \A i, j \in 1 .. Len(pending') : pending'[i] = pending'[j] => i = j
    BY <1>3, SequenceParts DEF GetClient, Places, Typed, TypeOK
  <2>4. peer[c] # "away" /\ c \notin active /\ ~isClosed[c] /\ \A v \in Worker : client[v] # c
    BY <2>1 DEF Places
  <2>5. \A v \in Worker : v # w => client'[v] = client[v] /\ wpc'[v] = wpc[v]
    BY <2>2 DEF Typed, TypeOK
  <2>6. client'[w] = c /\ wpc'[w] = "add"
    BY <2>2 DEF Typed, TypeOK
  <2> HIDE DEF c
  <2> QED
    BY <1>0, <2>1, <2>2, <2>3, <2>4, <2>5, <2>6 DEF Places, Serving
<1>4. ASSUME NEW w \in Worker, AddClient(w) PROVE Places'
  <2>1. client[w] \in Conn /\ ~Queued(client[w]) /\ ~isClosed[client[w]]
    BY <1>4 DEF AddClient, Places, Typed, TypeOK, Staffed
  <2>2. /\ active' = active \cup {client[w]} /\ peer[client[w]] # "away"
        /\ UNCHANGED <<pending, client, isClosed, peer, todo>>
    BY <1>4, <2>1 DEF AddClient, Places
  <2>3. wpc[w] = "add" /\ wpc'[w] = "lock"
    BY <1>4 DEF AddClient, Typed, TypeOK
  <2>4. \A v \in Worker : v # w => wpc'[v] = wpc[v]
    BY <1>4 DEF AddClient, Typed, TypeOK
  <2> QED
    BY <1>0, <2>1, <2>2, <2>3, <2>4 DEF Places, Serving, Queued
<1>5. ASSUME NEW w \in Worker, MarkClosed(w) PROVE Places'
  <2>1. client[w] \in Conn /\ ~Queued(client[w]) /\ peer[client[w]] # "away"
    BY <1>5 DEF MarkClosed, Places, Typed, TypeOK, Staffed
  <2> QED
    BY <1>0, <1>5, <2>1 DEF MarkClosed, Places, Queued, Serving, Typed, TypeOK
<1>6. ASSUME NEW w \in Worker, Cleanup(w) PROVE Places'
  <2>1. todo = {}
    BY <1>6 DEF Cleanup, Locks, Typed, TypeOK, MonitorPC
  <2>2. \A v \in Worker : wpc[v] \in Serving => client[v] \in active /\ ~isClosed[client[v]]
    BY <1>0 DEF Places, Serving
  <2>3. /\ active' = {c \in active : ~isClosed[c]}
        /\ UNCHANGED <<pending, isClosed, peer, todo>>
    BY <1>6 DEF Cleanup
  <2>4. client'[w] = NULL /\ wpc'[w] = "get"
    BY <1>6 DEF Cleanup, Typed, TypeOK
  <2>5. \A v \in Worker : v # w => wpc'[v] = wpc[v] /\ client'[v] = client[v]
    BY <1>6 DEF Cleanup, Typed, TypeOK
  <2> QED
    BY <1>0, <2>1, <2>2, <2>3, <2>4, <2>5 DEF Places, Serving, Queued
<1>7. ASSUME NEW w \in Worker,
             \/ LockClient(w) \/ ReadFocus(w) \/ ReadWindows(w)
             \/ SendListSize(w) \/ SendListBody(w) \/ SendFocusSize(w)
             \/ SendFocusBody(w) \/ GreetingFails(w) \/ ReadFails(w)
             \/ CheckFocus(w) \/ Inject(w) \/ SendResponseSize(w)
             \/ SendResponseBody(w) \/ SkipClose(w) \/ CloseSocket(w)
             \/ InvalidateSocket(w)
             \/ \E h \in Window : ReadRequest(w, h)
      PROVE  Places'
  <2>1. UNCHANGED <<pending, active, client, isClosed, peer, todo>>
    BY <1>7 DEF LockClient, ReadFocus, ReadWindows, SendListSize, SendListBody,
                SendFocusSize, SendFocusBody, GreetingFails, ReadFails,
                CheckFocus, Inject, SendResponseSize, SendResponseBody,
                SkipClose, CloseSocket, InvalidateSocket, ReadRequest
  <2>2. \A v \in Worker : /\ wpc'[v] \in Serving => wpc[v] \in Serving
                          /\ wpc[v] = "cleanup" => wpc'[v] = "cleanup"
    BY <1>7 DEF LockClient, ReadFocus, ReadWindows, SendListSize, SendListBody,
                SendFocusSize, SendFocusBody, GreetingFails, ReadFails,
                CheckFocus, Inject, SendResponseSize, SendResponseBody,
                SkipClose, CloseSocket, InvalidateSocket, ReadRequest,
                Serving, WorkerPC, Typed, TypeOK
  <2>3. todo' \subseteq active /\ \A c \in Conn : peer[c] = "away" <=> peer'[c] = "away"
    BY <1>0, <2>1
  <2> QED
    BY <1>0, <2>1, <2>2, <2>3, PlacesFrame
<1>8. ASSUME MonitorNext \/ (ForegroundChanges /\ UNCHANGED <<netVars, listVars,
                                                              clientVars, workerVars,
                                                              monVars>>)
              \/ UNCHANGED vars
       PROVE  Places'
  <2>1. UNCHANGED <<pending, active, client, isClosed, peer, wpc>> /\ todo' \subseteq active
    BY <1>0, <1>8 DEF MonitorNext, BeginUpdate, NotifyClosed, NotifyOpened,
                      NotifyFocus, Notify,
                 LockForMessage, SendMessageSize, SendMessageBody, EndNotify, EndUpdate, vars
  <2> QED
    BY <1>0, <2>1, PlacesFrame
<1> QED
  BY <1>1, <1>2, <1>3, <1>4, <1>5, <1>6, <1>7, <1>8
     DEF Next, AcceptNext, Accept, AcceptFails, EnvNext, WorkerNext, WorkerStep

(***************************************************************************)
(* The order of the list.  Every element of `active` has its place in it.  *)
(***************************************************************************)
InLine == \A c \in active : \E i \in 1 .. Len(line) : line[i] = c

\* addClient() puts a client at the end; cleanup() takes clients out of `active` only.
LEMMA InLineStep ==
  ASSUME Typed, InLine, [Next]_vars
  PROVE  InLine'
<1> USE DEF netVars, clientVars, windowsVars, workerVars, updateVars, notifyVars, monVars,
            viewVars, envVars, listVars, activeVars, nonWorkerVars
<1>1. ASSUME NEW w \in Worker, AddClient(w) PROVE InLine'
  <2>1. client[w] \in Conn /\ line \in Seq(Conn)
    BY <1>1 DEF AddClient, Typed, TypeOK, Staffed
  <2>2. line' = Append(line, client[w]) /\ active' = active \cup {client[w]}
    BY <1>1 DEF AddClient
  <2>3. /\ Len(line) \in Nat /\ Len(line') = Len(line) + 1
        /\ \A i \in 1 .. Len(line) : line'[i] = line[i]
        /\ line'[Len(line) + 1] = client[w]
    BY <2>1, <2>2, SequenceGrows
  <2> QED
    BY <2>2, <2>3 DEF InLine
<1>2. ASSUME active' \subseteq active, UNCHANGED line PROVE InLine'
  BY <1>2 DEF InLine
<1>3. ASSUME NEW w \in Worker, WorkerStep(w) \/ \E h \in Window : ReadRequest(w, h),
             ~AddClient(w)
      PROVE  active' \subseteq active /\ UNCHANGED line
  BY <1>3 DEF WorkerStep, GetClient, LockClient, ReadFocus, ReadWindows, SendListSize,
              SendListBody, SendFocusSize, SendFocusBody, GreetingFails, ReadFails,
              CheckFocus, Inject, SendResponseSize, SendResponseBody, SkipClose,
              CloseSocket, InvalidateSocket, MarkClosed, Cleanup, ReadRequest
<1>4. ASSUME AcceptNext \/ EnvNext PROVE UNCHANGED activeVars
  BY <1>4 DEF AcceptNext, Accept, AcceptFails, EnvNext, Stall, Depart
<1>5. ASSUME MonitorNext PROVE UNCHANGED activeVars
  BY <1>5 DEF MonitorNext, BeginUpdate, NotifyClosed, NotifyOpened, NotifyFocus, Notify,
              LockForMessage, SendMessageSize, SendMessageBody, EndNotify, EndUpdate
<1> QED
  BY <1>1, <1>2, <1>3, <1>4, <1>5 DEF Next, WorkerNext, vars

\* A set of numbers that is not empty has a least one.
LEMMA LeastNumber ==
  ASSUME NEW T \in SUBSET Nat, T # {}
  PROVE  \E m \in T : \A k \in T : m <= k
<1> DEFINE Less == {p \in Nat \X Nat : p[1] < p[2]}
<1>1. IsWellFoundedOn(Less, Nat)
  BY NatLessThanWellFounded DEF OpToRel
<1> HIDE DEF Less
<1>2. PICK m \in T : \A k \in T : ~(<<k, m>> \in Less)
  BY <1>1, WFMin
<1>3. \A k \in T : ~(k < m)
  BY <1>2 DEF Less
<1> QED
  BY <1>2, <1>3

\* As long as notify() has clients to tell, one of them is the next ...
LEMMA ForemostExists ==
  ASSUME TypeOK, InLine, todo \subseteq active, todo # {}
  PROVE  \E c \in todo : Foremost(c)
<1> DEFINE T == {i \in 1 .. Len(line) : line[i] \in todo}
<1>1. line \in Seq(Conn) /\ Len(line) \in Nat /\ DOMAIN line = 1 .. Len(line)
  BY DEF TypeOK
<1>2. T \in SUBSET Nat /\ T # {}
  BY <1>1 DEF InLine
<1>3. PICK m \in T : \A k \in T : m <= k
  <2> HIDE DEF T
  <2> QED
    BY <1>2, LeastNumber
<1>4. m \in DOMAIN line /\ \A j \in 1 .. m - 1 : line[j] \notin todo
  BY <1>1, <1>3
<1> QED
  BY <1>3, <1>4 DEF Foremost

\* ... and only one.
LEMMA ForemostIsOne ==
  ASSUME TypeOK, NEW c, NEW d, Foremost(c), Foremost(d)
  PROVE  c = d
<1>1. DOMAIN line = 1 .. Len(line) /\ Len(line) \in Nat /\ c \in todo /\ d \in todo
  BY DEF TypeOK, Foremost
<1>2. PICK i \in 1 .. Len(line) : line[i] = c /\ \A k \in 1 .. i - 1 : line[k] \notin todo
  BY <1>1 DEF Foremost
<1>3. PICK j \in 1 .. Len(line) : line[j] = d /\ \A k \in 1 .. j - 1 : line[k] \notin todo
  BY <1>1 DEF Foremost
<1>4. ~(i < j) /\ ~(j < i)
  BY <1>1, <1>2, <1>3
<1> QED
  BY <1>2, <1>3, <1>4

(***************************************************************************)
(* The parts together are an inductive invariant.                          *)
(***************************************************************************)
ListInv == Typed /\ Locks /\ Places /\ Sockets /\ InLine

\* The parts of the invariant hold at the start.
LEMMA ListInit == Init => ListInv
<1> SUFFICES ASSUME Init PROVE Places /\ Sockets /\ InLine
  BY TypedInit, LocksInit DEF ListInv
<1>1. Len(pending) = 0
  BY DEF Init
<1> QED
  BY <1>1 DEF Init, Places, Sockets, InLine, InService, Queued, Serving

\* The induction step: the parts of the invariant, gathered.
LEMMA ListStep == ListInv /\ [Next]_vars => ListInv'
  BY TypedStep, LocksStep, PlacesStep, SocketsStep, InLineStep DEF ListInv

\* The inductive invariant, from which the three results below follow.
THEOREM ListInvariant == Spec => []ListInv
  BY ListInit, ListStep, PTL DEF Spec

(***************************************************************************)
(* The element of `active` that a worker refers to is not removed while it *)
(* serves it, whatever cleanup() the others run.                           *)
(***************************************************************************)
THEOREM ServedStaysListed == Spec => []ServedIsListed
<1>1. ListInv => ServedIsListed
  BY DEF ListInv, Places, ServedIsListed
<1> QED
  BY ListInvariant, <1>1, PTL

(***************************************************************************)
(* The elements of `active` that notify() still has to visit, and the one  *)
(* it writes to, are not removed meanwhile.                                *)
(***************************************************************************)
THEOREM NotifiedStaysListed == Spec => []NotifiedIsListed
<1>1. ListInv => NotifiedIsListed
  BY DEF ListInv, Places, Locks, NotifiedIsListed
<1> QED
  BY ListInvariant, <1>1, PTL

(***************************************************************************)
(* No accepted connection is lost or served twice between accept() and     *)
(* closesocket(), even if the system hands out SOCKET values again.        *)
(***************************************************************************)
THEOREM OpenStaysTended == Spec => []OpenIsTended
<1>1. ASSUME ListInv PROVE OpenIsTended
  <2> DEFINE waiting(h) == {i \in 1 .. Len(pending) : pending[i] = owner[h]}
             serving(h) == {w \in Worker : client[w] = owner[h]}
             Tended(h) == /\ sck[owner[h]] = h
                          /\ \/ serving(h) = {} /\ \E i \in waiting(h) : waiting(h) = {i}
                             \/ waiting(h) = {} /\ \E w \in serving(h) :
                                  serving(h) = {w} /\ wpc[w] \notin Closing
  <2> SUFFICES ASSUME NEW h \in Handle, owner[h] # NULL PROVE Tended(h)
    BY DEF OpenIsTended, Closing
  <2>1. owner[h] \in Conn /\ sck[owner[h]] = h /\ InService(owner[h])
    BY <1>1 DEF ListInv, Sockets, Typed, TypeOK
  <2>2. CASE Queued(owner[h])
    <3>1. PICK i \in 1 .. Len(pending) : pending[i] = owner[h]
      BY <2>2 DEF Queued
    <3>2. waiting(h) = {i} /\ serving(h) = {}
      BY <1>1, <2>1, <2>2, <3>1 DEF ListInv, Places
    <3> QED
      BY <2>1, <3>2
  <2>3. CASE ~Queued(owner[h])
    <3>1. PICK w \in Worker : client[w] = owner[h] /\ wpc[w] \notin Closing
      BY <2>1, <2>3 DEF InService, Closing
    <3>2. serving(h) = {w} /\ waiting(h) = {}
      BY <1>1, <2>3, <3>1 DEF ListInv, Places, Queued
    <3> QED
      BY <2>1, <3>1, <3>2
  <2> QED
    BY <2>2, <2>3
<1> QED
  BY ListInvariant, <1>1, PTL

-----------------------------------------------------------------------------
(***************************************************************************)
(* Orphans.  A worker that has closed its client, or found nothing to      *)
(* close, leaves it without a socket: so does the entry of `active` that   *)
(* its cleanup() does not remove.                                          *)
(***************************************************************************)
Orphans ==
  /\ \A w \in Worker : wpc[w] \in {"mark", "cleanup"} => sck[client[w]] = INVALID_SOCKET
  /\ OrphansNeverOpen

\* Steps that move no client, close none, and leave the lines of none behind.
LEMMA OrphansFrame ==
  ASSUME Orphans, UNCHANGED <<active, client, sck, isClosed>>,
         \A w \in Worker : wpc'[w] \in {"mark", "cleanup"} => wpc[w] \in {"mark", "cleanup"}
  PROVE  Orphans'
  BY DEF Orphans, OrphansNeverOpen

\* The worker that could leave a client with a socket behind does not reach cleanup().
LEMMA OrphansStep ==
  ASSUME ListInv, Orphans, [Next]_vars
  PROVE  Orphans'
<1> USE DEF netVars, clientVars, windowsVars, workerVars, updateVars, notifyVars, monVars,
            viewVars, envVars, listVars, activeVars, nonWorkerVars, Goto
<1>1. ASSUME NEW c \in Conn, NEW h \in Handle, Accept(c, h) PROVE Orphans'
  <2>1. c \notin active /\ \A w \in Worker : client[w] # c
    BY <1>1, ConnAssumption DEF Accept, ListInv, Places
  <2>2. UNCHANGED <<active, client, isClosed, wpc>> /\ sck' = [sck EXCEPT ![c] = h]
    BY <1>1 DEF Accept
  <2>3. \A d \in Conn \ {c} : sck'[d] = sck[d]
    BY <2>2 DEF ListInv, Typed, TypeOK
  <2>4. \A w \in Worker : wpc[w] \in {"mark", "cleanup"} => client[w] \in Conn \ {c}
    BY <2>1 DEF ListInv, Typed, TypeOK, Staffed
  <2> QED
    BY <2>1, <2>2, <2>3, <2>4 DEF Orphans, OrphansNeverOpen, ListInv, Typed, TypeOK
<1>2. ASSUME NEW w \in Worker, GetClient(w) PROVE Orphans'
  <2>1. client[w] = NULL /\ wpc'[w] = "add"
    BY <1>2 DEF GetClient, ListInv, Typed, TypeOK, Staffed
  <2>2. \A v \in Worker \ {w} : client'[v] = client[v] /\ wpc'[v] = wpc[v]
    BY <1>2 DEF GetClient, ListInv, Typed, TypeOK
  <2>3. UNCHANGED <<active, sck, isClosed>> /\ active \subseteq Conn
    BY <1>2 DEF GetClient, ListInv, Typed, TypeOK
  <2> QED
    BY <2>1, <2>2, <2>3 DEF Orphans, OrphansNeverOpen
<1>3. ASSUME NEW w \in Worker, AddClient(w) PROVE Orphans'
  <2>1. active' = active \cup {client[w]} /\ UNCHANGED <<client, sck, isClosed>>
    BY <1>3 DEF AddClient
  <2>2. \A v \in Worker : wpc'[v] \in {"mark", "cleanup"} => wpc[v] \in {"mark", "cleanup"}
    BY <1>3 DEF AddClient, ListInv, Typed, TypeOK
  <2> QED
    BY <2>1, <2>2 DEF Orphans, OrphansNeverOpen
<1>4. ASSUME NEW w \in Worker, SkipClose(w) PROVE Orphans'
  <2>1. UNCHANGED <<active, client, sck, isClosed>> /\ sck[client[w]] = INVALID_SOCKET
    BY <1>4 DEF SkipClose
  <2>2. \A v \in Worker \ {w} : wpc'[v] = wpc[v]
    BY <1>4 DEF SkipClose, ListInv, Typed, TypeOK
  <2> QED
    BY <2>1, <2>2 DEF Orphans, OrphansNeverOpen
<1>5. ASSUME NEW w \in Worker, InvalidateSocket(w) PROVE Orphans'
  <2>1. client[w] \in Conn
    BY <1>5 DEF InvalidateSocket, ListInv, Typed, TypeOK, Staffed
  <2>2. /\ \A c \in Conn : sck'[c] \in {sck[c], INVALID_SOCKET}
        /\ sck'[client[w]] = INVALID_SOCKET
    BY <1>5, <2>1 DEF InvalidateSocket, ListInv, Typed, TypeOK
  <2>3. \A v \in Worker \ {w} : wpc'[v] = wpc[v]
    BY <1>5 DEF InvalidateSocket, ListInv, Typed, TypeOK
  <2>4. \A v \in Worker : wpc[v] \in {"mark", "cleanup"} => client[v] \in Conn
    BY DEF ListInv, Typed, TypeOK, Staffed
  <2>5. UNCHANGED <<active, client, isClosed>> /\ active \subseteq Conn
    BY <1>5 DEF InvalidateSocket, ListInv, Typed, TypeOK
  <2> QED
    BY <2>2, <2>3, <2>4, <2>5 DEF Orphans, OrphansNeverOpen
<1>6. ASSUME NEW w \in Worker, MarkClosed(w) PROVE Orphans'
  <2>1. client[w] \in Conn /\ \A c \in Conn \ {client[w]} : isClosed'[c] = isClosed[c]
    BY <1>6 DEF MarkClosed, ListInv, Typed, TypeOK, Staffed
  <2>2. \A v \in Worker : wpc'[v] \in {"mark", "cleanup"} => wpc[v] \in {"mark", "cleanup"}
    BY <1>6 DEF MarkClosed, ListInv, Typed, TypeOK
  <2>3. UNCHANGED <<active, client, sck>> /\ active \subseteq Conn
    BY <1>6 DEF MarkClosed, ListInv, Typed, TypeOK
  <2> QED
    BY <2>1, <2>2, <2>3 DEF Orphans, OrphansNeverOpen
<1>7. ASSUME NEW w \in Worker, Cleanup(w) PROVE Orphans'
  <2>1. active' = {c \in active : ~isClosed[c]} /\ UNCHANGED <<sck, isClosed>>
    BY <1>7 DEF Cleanup
  <2>2. wpc[w] = "cleanup" /\ wpc'[w] = "get"
    BY <1>7 DEF Cleanup, ListInv, Typed, TypeOK
  <2>3. \A v \in Worker \ {w} : client'[v] = client[v] /\ wpc'[v] = wpc[v]
    BY <1>7 DEF Cleanup, ListInv, Typed, TypeOK
  <2>4. sck[client[w]] = INVALID_SOCKET
    BY <2>2 DEF Orphans
  <2> QED
    BY <2>1, <2>2, <2>3, <2>4 DEF Orphans, OrphansNeverOpen
<1>8. ASSUME NEW w \in Worker,
             \/ LockClient(w) \/ ReadFocus(w) \/ ReadWindows(w)
             \/ SendListSize(w) \/ SendListBody(w) \/ SendFocusSize(w)
             \/ SendFocusBody(w) \/ GreetingFails(w) \/ ReadFails(w)
             \/ CheckFocus(w) \/ Inject(w) \/ SendResponseSize(w)
             \/ SendResponseBody(w) \/ CloseSocket(w)
             \/ \E h \in Window : ReadRequest(w, h)
      PROVE  Orphans'
  <2>1. UNCHANGED <<active, client, sck, isClosed>>
    BY <1>8 DEF LockClient, ReadFocus, ReadWindows, SendListSize, SendListBody,
                SendFocusSize, SendFocusBody, GreetingFails, ReadFails, CheckFocus,
                Inject, SendResponseSize, SendResponseBody, CloseSocket, ReadRequest
  <2>2. \A v \in Worker : wpc'[v] \in {"mark", "cleanup"} => wpc[v] \in {"mark", "cleanup"}
    BY <1>8 DEF LockClient, ReadFocus, ReadWindows, SendListSize, SendListBody,
                SendFocusSize, SendFocusBody, GreetingFails, ReadFails, CheckFocus,
                Inject, SendResponseSize, SendResponseBody, CloseSocket, ReadRequest,
                ListInv, Typed, TypeOK
  <2> QED
    BY <2>1, <2>2, OrphansFrame
<1>9. ASSUME \/ \E c \in Conn : AcceptFails(c) \/ Stall(c) \/ Depart(c)
             \/ MonitorNext \/ UNCHANGED vars
             \/ ForegroundChanges /\ UNCHANGED <<netVars, listVars, clientVars, workerVars>>
      PROVE  Orphans'
  <2>1. UNCHANGED <<active, client, sck, isClosed, wpc>>
    BY <1>9 DEF AcceptFails, Stall, Depart, MonitorNext, BeginUpdate, NotifyClosed,
                NotifyOpened, NotifyFocus, Notify, LockForMessage, SendMessageSize,
                SendMessageBody, EndNotify, EndUpdate, vars
  <2> QED
    BY <2>1, OrphansFrame
<1> QED
  BY <1>1, <1>2, <1>3, <1>4, <1>5, <1>6, <1>7, <1>8, <1>9
     DEF Next, AcceptNext, EnvNext, WorkerNext, WorkerStep

(***************************************************************************)
(* An entry that cleanup() leaves in `active` with no worker is one of a   *)
(* failed accept(), for any number of workers that clean up at the same    *)
(* time, and even if SOCKET values are handed out again.                   *)
(***************************************************************************)
THEOREM OrphansStayClosed == Spec => []OrphansNeverOpen
<1>1. Init => Orphans
  BY DEF Init, Orphans, OrphansNeverOpen
<1>2. Orphans => OrphansNeverOpen
  BY DEF Orphans
<1> QED
  BY ListInvariant, <1>1, <1>2, OrphansStep, PTL DEF Spec

-----------------------------------------------------------------------------
(***************************************************************************)
(* What holds the monitor up.  With any number of workers and clients, an  *)
(* update that cannot go on is one that Stopped describes: the cLock_ it   *)
(* waits for, that of the next client in the list, is held by a worker in  *)
(* sendProcessList(), which gives the lock back on every way out.          *)
(***************************************************************************)
THEOREM NoOtherStop == Spec => []HeldUpOnlyWhenStopped
<1>1. ASSUME ListInv PROVE HeldUpOnlyWhenStopped
  <2> SUFFICES ASSUME mpc = "notify", ~Stopped, ~MonitorGoesOn PROVE HolderGoesOn
    BY <1>1 DEF HeldUpOnlyWhenStopped, Stopped, MonitorGoesOn, ListInv, Locks, Typed, TypeOK,
                MonitorPC
  <2>1. PICK c \in todo : Foremost(c)
    BY <1>1, ForemostExists DEF ListInv, Typed, Places, MonitorGoesOn
  <2>2. ~WaitsForList(c) /\ ~WaitsForPeer(c)
    BY <2>1 DEF Stopped
  <2>3. c \in Conn /\ cLock[c] # NULL /\ cLock[c] \in Thread \cup {NULL}
    BY <1>1, <2>1 DEF ListInv, Typed, TypeOK, MonitorGoesOn
  <2>4. PICK w \in Worker : cLock[c] = w
    BY <1>1, <2>3 DEF ListInv, Locks, Thread
  <2>5. client[w] = c /\ wpc[w] \in Greeting
    BY <1>1, <2>3, <2>4 DEF ListInv, Locks
  <2> QED
    BY <2>1, <2>2, <2>4, <2>5 DEF WaitsForList, WaitsForPeer, HolderGoesOn, Greeting
<1> QED
  BY ListInvariant, <1>1, PTL

\* In the deadlock every lock that the monitor, or a worker outside the cycle,
\* would have to take there is held.
LEMMA DeadlockHolds ==
  ASSUME Typed, Locks, Deadlocked
  PROVE  /\ mpc = "notify" /\ todo # {}
         /\ windowsLock # NULL /\ activeLock # NULL
         /\ \A c \in todo : Foremost(c) => cLock[c] # NULL
<1>1. PICK d \in todo : Foremost(d) /\ WaitsForList(d)
  BY DEF Deadlocked
<1>2. cLock[d] # NULL
  <2>1. PICK w \in Worker : client[w] = d /\ wpc[w] \in {"focus", "windows"}
    BY <1>1 DEF WaitsForList
  <2>2. d \in Conn
    BY DEF Typed, TypeOK
  <2> QED
    BY <2>1, <2>2 DEF Locks, Greeting
<1>3. \A c \in todo : Foremost(c) => c = d
  BY <1>1, ForemostIsOne DEF Typed
<1> QED
  BY <1>2, <1>3 DEF Locks, Deadlocked

\* A step that moves no worker from where it waits for windows_list, nor the
\* monitor, nor a client into `active`, leaves the deadlock as it is.
LEMMA DeadlockFrame ==
  ASSUME Deadlocked,
         UNCHANGED <<mpc, todo, activeVars, winHandles, onFocus>>,
         \A w \in Worker : wpc[w] \in {"focus", "windows"} =>
           wpc'[w] = wpc[w] /\ client'[w] = client[w]
  PROVE  Deadlocked' /\ UNCHANGED <<winHandles, onFocus, active, todo>>
<1>1. PICK c \in todo : Foremost(c) /\ WaitsForList(c)
  BY DEF Deadlocked
<1>2. WaitsForList(c)'
  BY <1>1 DEF WaitsForList
<1>3. Foremost(c)'
  BY <1>1 DEF Foremost, activeVars
<1> QED
  BY <1>1, <1>2, <1>3 DEF Deadlocked, activeVars

\* A worker elsewhere in serveClient() cannot open it.
LEMMA DeadlockWorker ==
  ASSUME Typed, Locks, Deadlocked,
         NEW w \in Worker, WorkerStep(w) \/ \E h \in Window : ReadRequest(w, h)
  PROVE  Deadlocked' /\ UNCHANGED <<winHandles, onFocus, active, todo>>
<1>1. /\ windowsLock # NULL /\ activeLock # NULL
  BY DeadlockHolds
<1>2. wpc \in [Worker -> WorkerPC] /\ client \in [Worker -> Conn \cup {NULL}]
  BY DEF Typed, TypeOK
<1>3. /\ UNCHANGED <<mpc, todo, activeVars, winHandles, onFocus>>
      /\ wpc[w] \notin {"focus", "windows"}
      /\ \A v \in Worker \ {w} : wpc'[v] = wpc[v] /\ client'[v] = client[v]
  BY <1>1, <1>2
     DEF WorkerStep, GetClient, AddClient, LockClient, ReadFocus, ReadWindows,
         SendListSize, SendListBody, SendFocusSize, SendFocusBody, GreetingFails,
         ReadFails, CheckFocus, Inject, SendResponseSize, SendResponseBody, SkipClose,
         CloseSocket, InvalidateSocket, MarkClosed, Cleanup, ReadRequest, Goto,
         nonWorkerVars, envVars, listVars, activeVars, windowsVars, monVars, updateVars, notifyVars
<1> QED
  BY <1>3, DeadlockFrame

\* The monitor has no step to take.
LEMMA DeadlockMonitor == ASSUME Typed, Locks, Deadlocked PROVE ~MonitorNext
<1>1. /\ mpc = "notify" /\ todo # {}
      /\ \A c \in todo : Foremost(c) => cLock[c] # NULL
  BY DeadlockHolds
<1> QED
  BY <1>1 DEF MonitorNext, BeginUpdate, NotifyClosed, NotifyOpened, NotifyFocus,
              LockForMessage, Foremost, SendMessageSize, SendMessageBody, EndNotify, EndUpdate

(***************************************************************************)
(* Once the lock cycle between sendProcessList() and update() is closed,   *)
(* for any number of clients and workers, nothing opens it again, and the  *)
(* lists of windows and of clients stay as they are.                       *)
(***************************************************************************)
THEOREM DeadlockStays == Spec => DeadlockIsFinal
<1> USE DEF vars, workerVars, nonWorkerVars, envVars, netVars, listVars, activeVars, clientVars,
            windowsVars, monVars, updateVars, notifyVars, viewVars
<1>1. ASSUME Typed, Locks, [Next]_vars, Deadlocked
      PROVE  Deadlocked' /\ UNCHANGED <<winHandles, onFocus, active, todo>>
  <2>1. CASE AcceptNext
    BY <1>1, <2>1, DeadlockFrame DEF AcceptNext, Accept, AcceptFails
  <2>2. CASE EnvNext
    BY <1>1, <2>2, DeadlockFrame DEF EnvNext, Stall, Depart
  <2>3. CASE WorkerNext
    BY <1>1, <2>3, DeadlockWorker DEF WorkerNext
  <2>4. CASE MonitorNext
    BY <1>1, <2>4, DeadlockMonitor
  <2>5. CASE UNCHANGED vars
    BY <1>1, <2>5, DeadlockFrame
  <2> QED
    BY <1>1, <2>1, <2>2, <2>3, <2>4, <2>5 DEF Next
<1>2. ListInv /\ [Next]_vars =>
        [Deadlocked => Deadlocked' /\ UNCHANGED <<winHandles, onFocus, active, todo>>]_vars
  BY <1>1 DEF ListInv
<1> QED
  BY ListInvariant, <1>2, PTL DEF Spec, DeadlockIsFinal

=============================================================================
