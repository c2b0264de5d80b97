----------------------- MODULE PdsServerMirrorProofs -----------------------
(***************************************************************************)
(* Proofs that the clients' copies follow the server's list, when the      *)
(* system does not hand closed SOCKET values out again.                    *)
(***************************************************************************)
EXTENDS PdsServerProofs

USE WindowAssumption, ThreadAssumption, ConnAssumption, HandleAssumption,
    DesktopAssumption, RecycleAssumption

Telling == mpc \in {"notify", "size", "body"}
Present(c) == peer[c] \in {"up", "stuck"}
Leaving == {"close"} \cup Closing

(***************************************************************************)
(* Connections.  A handle that a client knows denotes its connection or    *)
(* nothing, a client is closed only when its other end has gone, and until *)
(* then it waits or is served.                                             *)
(***************************************************************************)
Connections ==
  /\ \A c \in Conn : sck[c] \in Handle => sck[c] \in used /\ owner[sck[c]] \in {c, NULL}
  /\ \A w \in Worker : wpc[w] \in Leaving => peer[client[w]] = "gone"
  /\ \A c \in Conn : isClosed[c] => peer[c] = "gone"
  /\ \A c \in Conn : Present(c) => sck[c] \in Handle /\ InService(c)

(***************************************************************************)
(* Streams.  Nothing is written to a client that waits, and its worker has *)
(* written the whole AppList when it is decoded.                           *)
(***************************************************************************)
Unlisted == {"get", "add", "lock", "focus", "windows", "listSize", "listBody"}

Streams ==
  /\ \A c \in Conn : stream[c] # "fresh" => peer[c] # "away" /\ ~Queued(c)
  /\ \A c \in Conn : stream[c] = "fresh" => apps[c] = {}
  /\ \A w \in Worker : client[w] # NULL /\ stream[client[w]] = "listed" => wpc[w] \notin Unlisted

(***************************************************************************)
(* Rounds.  The locals of update(), and the event it is telling.           *)
(***************************************************************************)
Dropped == winHandles \ updated
Added  == updated \ winHandles

Rounds ==
  /\ mpc = "sleep" => updated = {} /\ closing = {} /\ opening = {}
  /\ mpc # "sleep" => closing \subseteq Dropped /\ opening \subseteq Added
  /\ ~Telling => event = NoEvent
  /\ event.kind = "destroyed" => event.win \in Dropped \ closing
  /\ event.kind = "created" => event.win \in Added \ opening
  /\ event.kind = "got_focus" => event.win \in {current, DESKTOP}

(***************************************************************************)
(* A worker that reads the list and the focus for a greeting holds cLock_  *)
(* until it has sent them: a walk of notify() that begins meanwhile has    *)
(* still to visit its client when it has.                                  *)
(***************************************************************************)
Sending == {"windows", "listSize", "listBody", "focusSize", "focusBody"}

Held == \A w \in Worker : wpc[w] \in Sending /\ Telling => client[w] \in todo

(***************************************************************************)
(* Copies.  Told is the list that a client has when it has been told all   *)
(* events so far; a client that notify() has still to visit lacks one.     *)
(***************************************************************************)
Told == IF mpc = "sleep" THEN winHandles
        ELSE (winHandles \cap updated) \cup closing \cup (Added \ opening)

Expected(c) ==
  IF c \in todo /\ event.kind = "destroyed" THEN Told \cup {event.win}
  ELSE IF c \in todo /\ event.kind = "created" THEN Told \ {event.win}
  ELSE Told

Copies ==
  /\ \A c \in Conn : Follower(c) => apps[c] = Expected(c)
  /\ \A w \in Worker : wpc[w] \in {"listSize", "listBody"} =>
       snap[w] = winHandles /\ Expected(client[w]) = winHandles

(***************************************************************************)
(* Focus.  While the focus is told, onFocus_ may hold DESKTOP; it gets the *)
(* value of `current` afterwards.                                          *)
(***************************************************************************)
Focus ==
  /\ \A c \in Conn : Follower(c) =>
       IF event.kind = "got_focus" THEN c \in todo \/ focused[c] \in {NULL, current}
                                   ELSE focused[c] \in {NULL, onFocus}
  /\ \A w \in Worker : wpc[w] \in Sending =>
       event.kind = "got_focus" \/ snapFocus[w] = onFocus

-----------------------------------------------------------------------------
\* Steps that open and close no connection, and only go on with leaving.
LEMMA ConnectionsFrame ==
  ASSUME Connections, UNCHANGED <<peer, owner, used, sck, isClosed, pending, client>>,
         \A w \in Worker : wpc'[w] \in Leaving => wpc[w] \in Leaving
  PROVE  Connections'
<1>1. ASSUME NEW c \in Conn, Present(c) PROVE InService(c)'
  BY <1>1 DEF Connections, InService, Queued, Present, Leaving, Closing
<1> QED
  BY <1>1 DEF Connections, Present

\* A client that has not been closed and has not gone can be written to.
LEMMA PresentIsOpen ==
  ASSUME ListInv, Connections, NEW c \in Conn, Present(c)
  PROVE  IsOpen(sck[c]) /\ owner[sck[c]] = c
BY DEF ListInv, Typed, TypeOK, Sockets, Connections, IsOpen

\* A SOCKET value that is never handed out twice cannot denote somebody else's connection.
LEMMA ConnectionsStep ==
  ASSUME ~Recycle, ListInv, ListInv', Connections, [Next]_vars
  PROVE  Connections'
<1> USE DEF netVars, clientVars, windowsVars, workerVars, updateVars, notifyVars, monVars,
            viewVars, envVars, listVars, activeVars, nonWorkerVars, Goto
<1>1. ASSUME NEW c \in Conn, NEW h \in Handle, Accept(c, h) PROVE Connections'
  <2>1. \A d \in Conn : InService(d)' <=> InService(d) \/ d = c
    BY <1>1, QueuedAppend DEF Accept, InService, ListInv, Typed
  <2>2. \A d \in Conn : sck[d] # h /\ ~isClosed[c]
    BY <1>1 DEF Accept, Connections
  <2>3. \A w \in Worker : client[w] # c \/ wpc[w] \notin Leaving
    BY <1>1 DEF Accept, Connections
  <2> QED
    BY <1>1, <2>1, <2>2, <2>3 DEF Accept, Connections, Present, Leaving, Closing,
                                  ListInv, Typed, TypeOK, Staffed
<1>2. ASSUME NEW c \in Conn, AcceptFails(c) PROVE Connections'
  <2>1. \A d \in Conn : InService(d)' <=> InService(d) \/ d = c
    BY <1>2, QueuedAppend DEF AcceptFails, InService, ListInv, Typed
  <2> QED
    BY <1>2, <2>1 DEF AcceptFails, Connections, Present, Leaving, Closing, ListInv,
                      Typed, TypeOK, Staffed
<1>3. ASSUME NEW c \in Conn, Stall(c) \/ Depart(c) PROVE Connections'
  <2>1. \A d \in Conn : InService(d)' <=> InService(d)
    BY <1>3 DEF Stall, Depart, InService, Queued
  <2> QED
    BY <1>3, <2>1 DEF Stall, Depart, Connections, Present, Leaving, Closing, ListInv,
                      Typed, TypeOK, Staffed
<1>4. ASSUME NEW w \in Worker, GetClient(w) PROVE Connections'
  <2>1. \A d \in Conn : InService(d)' <=> InService(d)
    BY <1>4, QueuedTail DEF GetClient, InService, ListInv, Typed, TypeOK, Staffed, WorkerPC
  <2> QED
    BY <1>4, <2>1 DEF GetClient, Connections, Present, Leaving, Closing, ListInv,
                      Typed, TypeOK
<1>5. ASSUME NEW w \in Worker,
             \/ AddClient(w) \/ LockClient(w) \/ ReadFocus(w) \/ ReadWindows(w)
             \/ SendListSize(w) \/ SendListBody(w) \/ SendFocusSize(w)
             \/ SendFocusBody(w) \/ CheckFocus(w) \/ Inject(w)
             \/ SendResponseSize(w) \/ SendResponseBody(w) \/ SkipClose(w)
             \/ \E h \in Window : ReadRequest(w, h)
      PROVE  Connections'
  <2>1. UNCHANGED <<peer, owner, used, sck, isClosed, pending, client>>
    BY <1>5 DEF AddClient, LockClient, ReadFocus, ReadWindows, SendListSize,
                SendListBody, SendFocusSize, SendFocusBody, CheckFocus, Inject,
                SendResponseSize, SendResponseBody, SkipClose, ReadRequest
  <2>2. \A v \in Worker : wpc'[v] \in Leaving => wpc[v] \in Leaving
    BY <1>5 DEF AddClient, LockClient, ReadFocus, ReadWindows, SendListSize,
                SendListBody, SendFocusSize, SendFocusBody, CheckFocus, Inject,
                SendResponseSize, SendResponseBody, SkipClose, ReadRequest,
                Leaving, Closing, ListInv, Typed, TypeOK
  <2> QED
    BY <2>1, <2>2, ConnectionsFrame
<1>6. ASSUME NEW w \in Worker, GreetingFails(w) \/ ReadFails(w) PROVE Connections'
  <2>1. client[w] \in Conn /\ SendMayFail(sck[client[w]])
    BY <1>6 DEF GreetingFails, ReadFails, ListInv, Typed, TypeOK, Staffed
  <2>2. peer[client[w]] = "gone"
    <3>1. peer[client[w]] # "away"
      BY <2>1 DEF ListInv, Places
    <3>2. ~Present(client[w])
      BY <2>1, PresentIsOpen DEF SendMayFail, Present
    <3> QED
      BY <2>1, <3>1, <3>2 DEF Present, ListInv, Typed, TypeOK
  <2>3. UNCHANGED <<pending, client>> /\ wpc[w] \notin Closing /\ Goto(w, "close")
    BY <1>6 DEF GreetingFails, ReadFails, Closing
  <2>4. \A v \in Worker : wpc'[v] \in Closing <=> wpc[v] \in Closing
    BY <2>3 DEF Closing, ListInv, Typed, TypeOK
  <2>5. \A d \in Conn : InService(d)' <=> InService(d)
    BY <2>3, <2>4 DEF InService, Queued, Closing
  <2>6. UNCHANGED <<peer, owner, used, sck, isClosed>>
    BY <1>6 DEF GreetingFails, ReadFails
  <2>7. \A v \in Worker : wpc'[v] \in Leaving => peer[client[v]] = "gone"
    BY <2>2, <2>3 DEF Connections, ListInv, Typed, TypeOK
  <2> QED
    BY <2>3, <2>5, <2>6, <2>7 DEF Connections, Present
<1>7. ASSUME NEW w \in Worker, CloseSocket(w) PROVE Connections'
  <2>1. client[w] \in Conn /\ peer[client[w]] = "gone"
    BY <1>7 DEF CloseSocket, Connections, Leaving, ListInv, Typed, TypeOK, Staffed
  <2>2. \A d \in Conn : d # client[w] => (InService(d)' <=> InService(d))
    BY <1>7 DEF CloseSocket, InService, Queued, ListInv, Typed, TypeOK
  <2> QED
    BY <1>7, <2>1, <2>2 DEF CloseSocket, Connections, Present, Leaving, Closing,
                            ListInv, Typed, TypeOK
<1>8. ASSUME NEW w \in Worker, InvalidateSocket(w) \/ MarkClosed(w) PROVE Connections'
  <2>1. client[w] \in Conn /\ peer[client[w]] = "gone"
    BY <1>8 DEF InvalidateSocket, MarkClosed, Connections, Leaving, Closing, ListInv,
                Typed, TypeOK, Staffed
  <2>2. wpc[w] \in Closing /\ wpc'[w] \in Closing /\ \A v \in Worker \ {w} : wpc'[v] = wpc[v]
    BY <1>8 DEF InvalidateSocket, MarkClosed, Closing, ListInv, Typed, TypeOK
  <2>3. UNCHANGED <<peer, owner, used, pending, client>>
    BY <1>8 DEF InvalidateSocket, MarkClosed
  <2>4. \A d \in Conn : InService(d)' <=> InService(d)
    BY <2>2, <2>3 DEF InService, Queued, Closing
  <2>5. \A d \in Conn \ {client[w]} : sck'[d] = sck[d] /\ isClosed'[d] = isClosed[d]
    BY <1>8 DEF InvalidateSocket, MarkClosed, ListInv, Typed, TypeOK
  <2>6. sck'[client[w]] \in {sck[client[w]], INVALID_SOCKET}
    BY <1>8, <2>1 DEF InvalidateSocket, MarkClosed, ListInv, Typed, TypeOK
  <2> QED
    BY <2>1, <2>2, <2>3, <2>4, <2>5, <2>6 DEF Connections, Present, Leaving
<1>9. ASSUME NEW w \in Worker, Cleanup(w) PROVE Connections'
  <2>1. \A d \in Conn : InService(d)' <=> InService(d)
    BY <1>9 DEF Cleanup, InService, Queued, ListInv, Typed, TypeOK
  <2> QED
    BY <1>9, <2>1 DEF Cleanup, Connections, Present, Leaving, Closing, ListInv, Typed,
                      TypeOK
<1>10. ASSUME \/ MonitorNext \/ UNCHANGED vars
              \/ ForegroundChanges /\ UNCHANGED <<netVars, listVars, clientVars,
                                                  workerVars>>
       PROVE  Connections'
  <2>1. UNCHANGED <<peer, owner, used, sck, isClosed, pending, client, wpc>>
    BY <1>10 DEF MonitorNext, BeginUpdate, NotifyClosed, NotifyOpened, NotifyFocus, Notify,
                 LockForMessage, SendMessageSize, SendMessageBody, EndNotify, EndUpdate, vars
  <2> QED
    BY <2>1, ConnectionsFrame
<1> QED
  BY <1>1, <1>2, <1>3, <1>4, <1>5, <1>6, <1>7, <1>8, <1>9, <1>10
     DEF Next, AcceptNext, EnvNext, WorkerNext, WorkerStep

-----------------------------------------------------------------------------
\* What is written for a client reaches nobody else.
LEMMA ReachesOwn ==
  ASSUME ListInv, Connections, NEW c \in Conn
  PROVE  /\ Reached(sck[c]) \subseteq {c}
         /\ peer[c] \in {"up", "stuck"} => Reached(sck[c]) = {c}
         /\ peer[c] \notin {"up", "stuck"} => Reached(sck[c]) = {}
<1>1. Reached(sck[c]) \subseteq {c}
  BY DEF Reached, IsOpen, Connections
<1>2. ASSUME peer[c] \in {"up", "stuck"} PROVE Reached(sck[c]) = {c}
  BY <1>1, <1>2, PresentIsOpen DEF Reached, Present
<1>3. ASSUME peer[c] \notin {"up", "stuck"} PROVE Reached(sck[c]) = {}
  BY <1>1, <1>3 DEF Reached
<1> QED
  BY <1>1, <1>2, <1>3

OthersSame(c) ==
  \A d \in Conn \ {c} : stream'[d] = stream[d] /\ apps'[d] = apps[d] /\ focused'[d] = focused[d]

\* The size of a frame mixes a stream or leaves it alone, and shows the client nothing.
LEMMA SizeEffect ==
  ASSUME ListInv, Connections, NEW c \in Conn, ReceiveSize(sck[c])
  PROVE  /\ OthersSame(c) /\ UNCHANGED <<apps, focused>>
         /\ stream'[c] \in {stream[c], "mixed"}
         /\ stream'[c] # stream[c] => MidFrame(c)
BY ReachesOwn DEF ReceiveSize, OthersSame, ListInv, Typed, TypeOK

\* The AppList shows its own client the windows, if it is the first whole frame there.
LEMMA ListEffect ==
  ASSUME ListInv, Connections, NEW c \in Conn, NEW W, ReceiveAppList(sck[c], W)
  PROVE  /\ OthersSame(c)
         /\ IF peer[c] \in {"up", "stuck"} /\ stream[c] = "fresh"
              THEN /\ stream'[c] = IF W = {} THEN "hung" ELSE "listed"
                   /\ apps'[c] = W /\ focused'[c] = NULL
              ELSE stream'[c] = stream[c] /\ apps'[c] = apps[c] /\ focused'[c] = focused[c]
<1>1. \A d \in Conn : d \in {x \in Reached(sck[c]) : stream[x] = "fresh"}
                        <=> d = c /\ peer[c] \in {"up", "stuck"} /\ stream[c] = "fresh"
  BY ReachesOwn
<1> QED
  BY <1>1 DEF ReceiveAppList, OthersSame, ListInv, Typed, TypeOK

\* An event changes the copy of its own client, if that has its list.
LEMMA EventEffect ==
  ASSUME ListInv, Connections, NEW c \in Conn, NEW e, ReceiveEvent(sck[c], e)
  PROVE  /\ OthersSame(c)
         /\ IF peer[c] \in {"up", "stuck"} /\ stream[c] = "listed"
              THEN /\ stream'[c] = stream[c]
                   /\ apps'[c] = AppsAfter(e, apps[c])
                   /\ focused'[c] = FocusedAfter(e, apps[c], focused[c])
              ELSE /\ stream'[c] = stream[c] \/ (stream[c] = "fresh" /\ stream'[c] = "event-first")
                   /\ apps'[c] = apps[c] /\ focused'[c] = focused[c]
<1>1. \A d \in Conn : d \in {x \in Reached(sck[c]) : stream[x] = "listed"}
                        <=> d = c /\ peer[c] \in {"up", "stuck"} /\ stream[c] = "listed"
  BY ReachesOwn
<1>2. \A d \in Conn : d \in Reached(sck[c]) <=> d = c /\ peer[c] \in {"up", "stuck"}
  BY ReachesOwn
<1>3. \A d \in Conn : stream'[d] = IF d \in Reached(sck[c]) /\ stream[d] = "fresh"
                                   THEN "event-first" ELSE stream[d]
  BY DEF ReceiveEvent
<1>4. \A d \in Conn :
        IF d = c /\ peer[c] \in {"up", "stuck"} /\ stream[c] = "listed"
          THEN /\ apps'[d] = AppsAfter(e, apps[d])
               /\ focused'[d] = FocusedAfter(e, apps[d], focused[d])
          ELSE apps'[d] = apps[d] /\ focused'[d] = focused[d]
  BY <1>1 DEF ReceiveEvent
<1> QED
  BY <1>2, <1>3, <1>4 DEF OthersSame

\* Steps that write nothing, or only to a client whose list is decided.
LEMMA StreamsFrame ==
  ASSUME Streams,
         \A c \in Conn : (peer[c] = "away" <=> peer'[c] = "away") /\ (Queued(c)' => Queued(c)),
         \A c \in Conn :
           \/ stream'[c] = stream[c] /\ apps'[c] = apps[c]
           \/ stream'[c] \notin {"fresh", "listed"} /\ peer[c] # "away" /\ ~Queued(c),
         \A w \in Worker : client'[w] # NULL =>
           /\ client'[w] = client[w] /\ client[w] \in Conn
           /\ wpc'[w] \in Unlisted => wpc[w] \in Unlisted
  PROVE  Streams'
BY DEF Streams

\* The list is the first frame of a stream, and only its worker writes it.
LEMMA StreamsStep ==
  ASSUME ListInv, ListInv', Connections, Streams, [Next]_vars
  PROVE  Streams'
<1> USE DEF netVars, clientVars, windowsVars, workerVars, updateVars, notifyVars, monVars,
            viewVars, envVars, listVars, activeVars, nonWorkerVars, Goto
<1>1. ASSUME NEW c \in Conn, peer[c] = "away", pending' = Append(pending, c),
             peer' = [peer EXCEPT ![c] = "up"] \/ peer' = [peer EXCEPT ![c] = "gone"],
             UNCHANGED <<client, wpc, viewVars>>
      PROVE  Streams'
  <2>1. \A d \in Conn : Queued(d)' <=> Queued(d) \/ d = c
    BY <1>1, QueuedAppend DEF ListInv, Typed
  <2>2. \A d \in Conn : peer'[d] = "away" => peer[d] = "away"
    BY <1>1 DEF ListInv, Typed, TypeOK
  <2>3. stream[c] = "fresh"
    BY <1>1 DEF Streams
  <2> QED
    BY <1>1, <2>1, <2>2, <2>3 DEF Streams
<1>2. ASSUME NEW c \in Conn, Stall(c) \/ Depart(c) PROVE Streams'
  <2>1. \A d \in Conn : peer[d] = "away" <=> peer'[d] = "away"
    BY <1>2 DEF Stall, Depart, ListInv, Typed, TypeOK
  <2> QED
    BY <1>2, <2>1 DEF Stall, Depart, Streams, Queued
<1>3. ASSUME NEW w \in Worker, GetClient(w) PROVE Streams'
  <2> DEFINE c == Head(pending)
  <2>1. /\ c \in Conn /\ Queued(c)
        /\ \A d \in Conn : Queued(d)' => Queued(d)
    BY <1>3, QueuedTail DEF GetClient, ListInv, Typed
  <2>2. stream[c] = "fresh"
    BY <2>1 DEF Streams
  <2>3. client' = [client EXCEPT ![w] = c] /\ wpc' = [wpc EXCEPT ![w] = "add"]
        /\ UNCHANGED <<peer, viewVars>>
    BY <1>3 DEF GetClient
  <2> HIDE DEF c
  <2> QED
    BY <2>1, <2>2, <2>3 DEF Streams, ListInv, Typed, TypeOK
<1>4. ASSUME NEW w \in Worker,
             \/ AddClient(w) \/ LockClient(w) \/ ReadFocus(w) \/ ReadWindows(w)
             \/ GreetingFails(w) \/ ReadFails(w) \/ CheckFocus(w) \/ Inject(w)
             \/ SendResponseBody(w) \/ SkipClose(w) \/ CloseSocket(w)
             \/ InvalidateSocket(w) \/ MarkClosed(w) \/ Cleanup(w)
             \/ \E h \in Window : ReadRequest(w, h)
      PROVE  Streams'
  <2> USE <1>4 DEF AddClient, LockClient, ReadFocus, ReadWindows, GreetingFails,
                   ReadFails, CheckFocus, Inject, SendResponseBody, SkipClose,
                   CloseSocket, InvalidateSocket, MarkClosed, Cleanup, ReadRequest
  <2>1. UNCHANGED <<peer, pending, viewVars>>
    OBVIOUS
  <2>2. \A v \in Worker : client'[v] # NULL =>
           /\ client'[v] = client[v] /\ client[v] \in Conn
           /\ wpc'[v] \in Unlisted => wpc[v] \in Unlisted
    BY DEF Unlisted, ListInv, Typed, TypeOK
  <2> QED
    BY <2>1, <2>2, StreamsFrame DEF Queued
<1>5. ASSUME NEW w \in Worker, SendListSize(w) \/ SendFocusSize(w) \/ SendResponseSize(w)
      PROVE  Streams'
  <2>1. client[w] \in Conn /\ ReceiveSize(sck[client[w]])
    BY <1>5 DEF SendListSize, SendFocusSize, SendResponseSize, ListInv, Typed, TypeOK,
                Staffed
  <2>2. UNCHANGED <<peer, pending, client>>
    BY <1>5 DEF SendListSize, SendFocusSize, SendResponseSize
  <2>3. \A v \in Worker : wpc'[v] \in Unlisted => wpc[v] \in Unlisted
    BY <1>5 DEF SendListSize, SendFocusSize, SendResponseSize, Unlisted, ListInv,
                Typed, TypeOK
  <2>4. peer[client[w]] # "away" /\ ~Queued(client[w])
    BY <2>1 DEF ListInv, Places
  <2>5. \A d \in Conn : \/ stream'[d] = stream[d] /\ apps'[d] = apps[d]
                        \/ stream'[d] \notin {"fresh", "listed"} /\ peer[d] # "away" /\ ~Queued(d)
    BY <2>1, <2>4, SizeEffect DEF OthersSame
  <2> QED
    BY <2>2, <2>3, <2>5, StreamsFrame DEF Queued, ListInv, Typed, TypeOK
<1>6. ASSUME NEW w \in Worker, SendListBody(w) PROVE Streams'
  <2> DEFINE c == client[w]
  <2>1. c \in Conn /\ ReceiveAppList(sck[c], snap[w])
    BY <1>6 DEF SendListBody, ListInv, Typed, TypeOK, Staffed
  <2>2. UNCHANGED <<peer, pending, client>> /\ wpc' = [wpc EXCEPT ![w] = "focusSize"]
    BY <1>6 DEF SendListBody
  <2>3. peer[c] # "away" /\ ~Queued(c) /\ \A v \in Worker : client[v] = c => v = w
    BY <2>1 DEF ListInv, Places
  <2>4. \/ stream'[c] \in {"hung", "listed"}
        \/ stream'[c] = stream[c] /\ apps'[c] = apps[c]
    BY <2>1, ListEffect
  <2>5. OthersSame(c)
    BY <2>1, ListEffect
  <2>6. wpc'[w] \notin Unlisted /\ \A v \in Worker \ {w} : wpc'[v] = wpc[v]
    BY <2>2 DEF Unlisted, ListInv, Typed, TypeOK
  <2>7. \A v \in Worker : wpc'[v] \in Unlisted /\ client[v] # NULL =>
          wpc[v] \in Unlisted /\ client[v] \in Conn \ {c}
    <3>1. \A v \in Worker : client[v] # NULL => client[v] \in Conn
      BY DEF ListInv, Typed, TypeOK
    <3> QED
      BY <2>3, <2>6, <3>1
  <2> HIDE DEF c
  <2>8. \A d \in Conn : Queued(d)' <=> Queued(d)
    BY <2>2 DEF Queued
  <2> QED
    BY <2>1, <2>2, <2>3, <2>4, <2>5, <2>7, <2>8 DEF Streams, OthersSame
<1>7. ASSUME NEW w \in Worker, SendFocusBody(w) PROVE Streams'
  <2>1. client[w] \in Conn /\ \E e : ReceiveEvent(sck[client[w]], e)
    BY <1>7 DEF SendFocusBody, ListInv, Typed, TypeOK, Staffed
  <2>2. UNCHANGED <<peer, pending, client>> /\ wpc' = [wpc EXCEPT ![w] = "read"]
        /\ wpc[w] = "focusBody"
    BY <1>7 DEF SendFocusBody
  <2>3. peer[client[w]] # "away" /\ ~Queued(client[w])
    BY <2>1 DEF ListInv, Places
  <2>4. \A d \in Conn : \/ stream'[d] = stream[d] /\ (stream[d] = "fresh" => apps'[d] = apps[d])
                        \/ stream'[d] \notin {"fresh", "listed"} /\ peer[d] # "away" /\ ~Queued(d)
    BY <2>1, <2>3, EventEffect DEF OthersSame
  <2> QED
    BY <2>2, <2>4 DEF Streams, Queued, Unlisted, ListInv, Typed, TypeOK
<1>8. ASSUME \/ BeginUpdate \/ NotifyFocus \/ EndNotify \/ EndUpdate
             \/ \E h \in Window : NotifyClosed(h) \/ NotifyOpened(h)
             \/ \E c \in Conn : LockForMessage(c)
             \/ UNCHANGED vars
             \/ ForegroundChanges /\ UNCHANGED <<netVars, listVars, clientVars,
                                                 workerVars, viewVars>>
      PROVE  Streams'
  <2>1. UNCHANGED <<peer, pending, client, wpc, viewVars>>
    BY <1>8 DEF BeginUpdate, NotifyClosed, NotifyOpened, NotifyFocus, Notify,
                LockForMessage, EndNotify, EndUpdate, vars
  <2> QED
    BY <2>1 DEF Streams, Queued
<1>9. ASSUME SendMessageSize \/ SendMessageBody PROVE Streams'
  <2>1. /\ mopen \in Conn
        /\ ReceiveSize(sck[mopen]) \/ ReceiveEvent(sck[mopen], event)
    BY <1>9 DEF SendMessageSize, SendMessageBody, ListInv, Locks, Typed, TypeOK
  <2>2. UNCHANGED <<peer, pending, client, wpc>>
    BY <1>9 DEF SendMessageSize, SendMessageBody
  <2>3. mopen \in active
    BY <1>9 DEF SendMessageSize, SendMessageBody, ListInv, Locks, Places
  <2>4. peer[mopen] # "away" /\ ~Queued(mopen)
    BY <2>1, <2>3 DEF ListInv, Places
  <2>5. \A d \in Conn : \/ stream'[d] = stream[d] /\ (stream[d] = "fresh" => apps'[d] = apps[d])
                        \/ stream'[d] \notin {"fresh", "listed"} /\ peer[d] # "away" /\ ~Queued(d)
    BY <2>1, <2>4, SizeEffect, EventEffect DEF OthersSame
  <2> QED
    BY <2>2, <2>5 DEF Streams, Queued, ListInv, Typed, TypeOK
<1> QED
  BY <1>1, <1>2, <1>3, <1>4, <1>5, <1>6, <1>7, <1>8, <1>9
     DEF Next, AcceptNext, Accept, AcceptFails, EnvNext, WorkerNext, WorkerStep, MonitorNext

-----------------------------------------------------------------------------
(***************************************************************************)
(* Most steps are quiet: no client begins to follow or gets anything new,  *)
(* no greeting reads anything, and update() stands where it stood.         *)
(***************************************************************************)
Snapped == {"listSize", "listBody"}

Quiet ==
  /\ UNCHANGED <<updated, closing, opening, event, current, todo, winHandles, onFocus>>
  /\ (mpc' = "sleep" <=> mpc = "sleep") /\ (Telling' <=> Telling)
  /\ \A c \in Conn : Follower(c)' => /\ Follower(c)
                                     /\ apps'[c] = apps[c] /\ focused'[c] = focused[c]
  /\ \A w \in Worker : wpc'[w] \in Sending =>
       /\ wpc[w] \in Sending /\ (wpc'[w] \in Snapped => wpc[w] \in Snapped)
       /\ client'[w] = client[w] /\ snap'[w] = snap[w] /\ snapFocus'[w] = snapFocus[w]

Led == Rounds /\ Held /\ Copies /\ Focus

\* A step that tells nothing leaves every copy as it was expected to be.
LEMMA QuietKeeps == ASSUME Led, Quiet PROVE Led'
<1> USE DEF Quiet, Led
<1>1. Rounds'
  BY DEF Rounds, Dropped, Added
<1>2. Held'
  BY DEF Held
<1>3. Told' = Told /\ \A c : Expected(c)' = Expected(c)
  BY DEF Told, Added, Expected
<1>4. Copies'
  BY <1>3 DEF Copies, Snapped, Sending
<1>5. Focus'
  BY DEF Focus
<1> QED
  BY <1>1, <1>2, <1>4, <1>5

Mirrored == ListInv /\ Connections /\ Streams /\ Led

\* The size of a frame tells nothing.
LEMMA QuietSize ==
  ASSUME Mirrored, NEW c \in Conn, ReceiveSize(sck[c]), UNCHANGED peer
  PROVE  \A d \in Conn : Follower(d)' => /\ Follower(d)
                                         /\ apps'[d] = apps[d] /\ focused'[d] = focused[d]
BY SizeEffect DEF Mirrored, Follower, OthersSame

\* The steps that tell nothing.
LEMMA QuietSteps ==
  ASSUME Mirrored,
         \/ AcceptNext \/ EnvNext \/ UNCHANGED vars
         \/ SendMessageSize \/ \E c \in Conn : LockForMessage(c)
         \/ \E w \in Worker :
              \/ GetClient(w) \/ AddClient(w) \/ LockClient(w) \/ SendListSize(w)
              \/ SendFocusSize(w) \/ GreetingFails(w) \/ ReadFails(w) \/ CheckFocus(w)
              \/ Inject(w) \/ SendResponseSize(w) \/ SendResponseBody(w) \/ SkipClose(w)
              \/ CloseSocket(w) \/ InvalidateSocket(w) \/ MarkClosed(w) \/ Cleanup(w)
              \/ \E h \in Window : ReadRequest(w, h)
  PROVE  Quiet
<1> USE DEF netVars, clientVars, windowsVars, workerVars, updateVars, notifyVars, monVars,
            viewVars, envVars, listVars, activeVars, nonWorkerVars, Goto
<1>1. CASE AcceptNext
  <2> SUFFICES ASSUME NEW c \in Conn, peer[c] = "away",
                      peer' = [peer EXCEPT ![c] = "up"] \/ peer' = [peer EXCEPT ![c] = "gone"],
                      UNCHANGED <<windowsVars, workerVars, monVars, viewVars>>
               PROVE  Quiet
    BY <1>1 DEF AcceptNext, Accept, AcceptFails
  <2>1. stream[c] = "fresh"
    BY DEF Mirrored, Streams
  <2> QED
    BY <2>1 DEF Quiet, Follower, Telling, Mirrored, ListInv, Typed, TypeOK
<1>2. CASE EnvNext \/ UNCHANGED vars
  BY <1>2 DEF EnvNext, Stall, Depart, vars, Quiet, Follower, Telling, Mirrored,
              ListInv, Typed, TypeOK
<1>3. ASSUME NEW c \in Conn, LockForMessage(c) PROVE Quiet
  BY <1>3 DEF LockForMessage, Quiet, Telling, Follower
<1>4. CASE SendMessageSize
  <2>1. mopen \in Conn
    BY <1>4 DEF SendMessageSize, Mirrored, ListInv, Locks, Typed, TypeOK
  <2>2. \A d \in Conn : Follower(d)' => /\ Follower(d)
                                        /\ apps'[d] = apps[d] /\ focused'[d] = focused[d]
    BY <1>4, <2>1, QuietSize DEF SendMessageSize
  <2> QED
    BY <1>4, <2>2 DEF SendMessageSize, Quiet, Telling
<1>5. ASSUME NEW w \in Worker, SendListSize(w) \/ SendFocusSize(w) \/ SendResponseSize(w)
      PROVE  Quiet
  <2>1. client[w] \in Conn
    BY <1>5 DEF SendListSize, SendFocusSize, SendResponseSize, Mirrored, ListInv,
                Typed, TypeOK, Staffed
  <2>2. \A d \in Conn : Follower(d)' => /\ Follower(d)
                                        /\ apps'[d] = apps[d] /\ focused'[d] = focused[d]
    BY <1>5, <2>1, QuietSize DEF SendListSize, SendFocusSize, SendResponseSize
  <2> QED
    BY <1>5, <2>2 DEF SendListSize, SendFocusSize, SendResponseSize, Quiet, Telling,
                      Sending, Snapped,
                      Mirrored, ListInv, Typed, TypeOK
<1>6. ASSUME NEW w \in Worker,
             \/ GetClient(w) \/ AddClient(w) \/ LockClient(w)
             \/ GreetingFails(w) \/ ReadFails(w) \/ CheckFocus(w)
             \/ Inject(w) \/ SendResponseBody(w) \/ SkipClose(w)
             \/ CloseSocket(w) \/ InvalidateSocket(w) \/ MarkClosed(w) \/ Cleanup(w)
             \/ \E h \in Window : ReadRequest(w, h)
      PROVE  Quiet
  <2>1. UNCHANGED <<peer, windowsVars, monVars, viewVars>>
    BY <1>6 DEF GetClient, AddClient, LockClient, GreetingFails, ReadFails, CheckFocus,
                Inject, SendResponseBody, SkipClose, CloseSocket, InvalidateSocket,
                MarkClosed, Cleanup, ReadRequest
  <2>2. \E pc \in WorkerPC \ Sending : wpc' = [wpc EXCEPT ![w] = pc]
    BY Zenon, <1>6 DEF WorkerPC, Sending,
                GetClient, AddClient, LockClient, GreetingFails, ReadFails, CheckFocus,
                Inject, SendResponseBody, SkipClose, CloseSocket, InvalidateSocket,
                MarkClosed, Cleanup, ReadRequest
  <2>3. /\ UNCHANGED client \/ \E c : client' = [client EXCEPT ![w] = c]
        /\ UNCHANGED snap \/ \E W : snap' = [snap EXCEPT ![w] = W]
        /\ UNCHANGED snapFocus \/ \E h : snapFocus' = [snapFocus EXCEPT ![w] = h]
    BY <1>6 DEF GetClient, AddClient, LockClient, GreetingFails, ReadFails, CheckFocus,
                Inject, SendResponseBody, SkipClose, CloseSocket, InvalidateSocket,
                MarkClosed, Cleanup, ReadRequest
  <2>4. \A v \in Worker : wpc'[v] \in Sending =>
          /\ wpc[v] \in Sending /\ (wpc'[v] \in Snapped => wpc[v] \in Snapped)
          /\ client'[v] = client[v] /\ snap'[v] = snap[v] /\ snapFocus'[v] = snapFocus[v]
    BY <2>2, <2>3 DEF Mirrored, ListInv, Typed, TypeOK
  <2> QED
    BY <2>1, <2>4 DEF Quiet, Telling, Follower
<1> QED
  BY <1>1, <1>2, <1>3, <1>4, <1>5, <1>6

-----------------------------------------------------------------------------
\* A client that follows is in `active`, and can be written to.
LEMMA FollowersServed ==
  ASSUME Mirrored, NEW c \in Conn, Follower(c)
  PROVE  c \in active /\ IsOpen(sck[c]) /\ owner[sck[c]] = c
<1>1. Present(c) /\ ~Queued(c)
  BY DEF Follower, Present, Mirrored, Streams
<1>2. PICK w \in Worker : client[w] = c /\ wpc[w] \notin Closing
  BY <1>1 DEF Mirrored, Connections, InService, Closing
<1>3. wpc[w] \in Serving
  BY <1>2 DEF Follower, Mirrored, Streams, Unlisted, Serving, Closing, ListInv, Typed,
              TypeOK
<1> QED
  BY <1>1, <1>2, <1>3, PresentIsOpen DEF Mirrored, ListInv, Places

\* When nothing is being told, every client has been told everything.
LEMMA NothingInFlight ==
  ASSUME Mirrored, ~Telling
  PROVE  event = NoEvent /\ todo = {} /\ \A c : Expected(c) = Told
BY DEF Mirrored, ListInv, Locks, Typed, TypeOK, MonitorPC, Led, Rounds, Telling,
       Expected, NoEvent

\* When update() sleeps the list is told in full.
LEMMA AtRest ==
  ASSUME Mirrored, windowsLock = NULL
  PROVE  mpc = "sleep" /\ ~Telling /\ event = NoEvent /\ \A c : Expected(c) = winHandles
<1>1. mpc = "sleep"
  BY DEF Mirrored, ListInv, Locks
<1> QED
  BY <1>1, NothingInFlight DEF Telling, Told

\* The worker reads onFocus_ under windowsLock_: update() sleeps, so no event is under way.
LEMMA ReadFocusLed == ASSUME Mirrored, NEW w \in Worker, ReadFocus(w) PROVE Led'
<1>1. /\ ~Telling /\ event = NoEvent
      /\ UNCHANGED <<nonWorkerVars, client, snap>>
      /\ wpc' = [wpc EXCEPT ![w] = "windows"]
      /\ snapFocus' = [snapFocus EXCEPT ![w] = onFocus]
  BY AtRest DEF ReadFocus, Goto
<1> USE <1>1 DEF nonWorkerVars, envVars, netVars, listVars, activeVars, clientVars, windowsVars,
                 monVars,
                 updateVars, notifyVars, viewVars, Mirrored, Led
<1>2. Rounds' /\ Held'
  BY DEF Rounds, Held, Telling, Dropped, Added
<1>3. Copies'
  BY DEF Copies, Follower, Expected, Told, Added, ListInv, Typed, TypeOK
<1>4. Focus'
  BY DEF Focus, Follower, NoEvent, Sending, ListInv, Typed, TypeOK
<1> QED
  BY <1>2, <1>3, <1>4

\* It reads the list likewise, and whoever follows then shows that list.
LEMMA ReadWindowsLed == ASSUME Mirrored, NEW w \in Worker, ReadWindows(w) PROVE Led'
<1>1. /\ ~Telling /\ \A c : Expected(c) = winHandles
      /\ UNCHANGED <<nonWorkerVars, client, snapFocus>>
      /\ wpc[w] = "windows" /\ wpc' = [wpc EXCEPT ![w] = "listSize"]
      /\ snap' = [snap EXCEPT ![w] = winHandles]
  BY AtRest DEF ReadWindows, Goto
<1> USE <1>1 DEF nonWorkerVars, envVars, netVars, listVars, activeVars, clientVars, windowsVars,
                 monVars,
                 updateVars, notifyVars, viewVars, Mirrored, Led
<1>2. Rounds' /\ Held'
  BY DEF Rounds, Held, Telling, Dropped, Added
<1>3. \A c : Expected(c)' = winHandles
  BY DEF Expected, Told, Added
<1>4. Copies'
  BY <1>3 DEF Copies, Follower, ListInv, Typed, TypeOK
<1>5. Focus'
  BY DEF Focus, Follower, Sending, ListInv, Typed, TypeOK
<1> QED
  BY <1>2, <1>4, <1>5

\* The client that gets its AppList has then what it is expected to have.
LEMMA SendListBodyLed == ASSUME Mirrored, NEW w \in Worker, SendListBody(w) PROVE Led'
<1>1. /\ client[w] \in Conn
      /\ UNCHANGED <<peer, windowsVars, monVars, client, snapFocus>>
      /\ wpc[w] = "listBody" /\ wpc' = [wpc EXCEPT ![w] = "focusSize"]
      /\ snap' = [snap EXCEPT ![w] = {}]
  BY DEF SendListBody, Goto, envVars, netVars, listVars, activeVars, windowsVars, monVars,
         Mirrored, ListInv,
         Typed, TypeOK, Staffed
<1>2. /\ OthersSame(client[w])
      /\ Follower(client[w])' => apps'[client[w]] = snap[w] /\ focused'[client[w]] = NULL
  <2>1. stream[client[w]] # "listed"
    BY <1>1 DEF Mirrored, Streams, Unlisted
  <2> QED
    BY <1>1, <2>1, ListEffect DEF SendListBody, Follower, Mirrored
<1>3. snap[w] = Expected(client[w])
  BY <1>1 DEF Mirrored, Led, Copies
<1>4. \A c \in Conn \ {client[w]} : Follower(c)' => Follower(c)
  BY <1>1, <1>2 DEF Follower, OthersSame
<1> USE DEF windowsVars, monVars, updateVars, notifyVars, Mirrored, Led
<1>5. Rounds' /\ Held'
  BY <1>1 DEF Rounds, Held, Telling, Dropped, Added, Sending, ListInv, Typed, TypeOK
<1>6. \A c : Expected(c)' = Expected(c)
  BY <1>1 DEF Expected, Told, Added
<1>7. Copies'
  BY <1>1, <1>2, <1>3, <1>4, <1>6 DEF Copies, OthersSame, ListInv, Typed, TypeOK
<1>8. Focus'
  BY <1>1, <1>2, <1>4 DEF Focus, OthersSame, Sending, ListInv, Typed, TypeOK
<1> QED
  BY <1>5, <1>7, <1>8

\* The client that gets the first focus event has then the focus of the server.
LEMMA SendFocusBodyLed == ASSUME Mirrored, NEW w \in Worker, SendFocusBody(w) PROVE Led'
<1> DEFINE e == [kind |-> "got_focus", win |-> snapFocus[w]]
<1>0. PICK c \in Conn : c = client[w]
  BY DEF SendFocusBody, Mirrored, ListInv, Typed, TypeOK, Staffed
<1>1. /\ c \in Conn
      /\ UNCHANGED <<peer, windowsVars, monVars, client, snap>>
      /\ wpc[w] = "focusBody" /\ wpc' = [wpc EXCEPT ![w] = "read"]
      /\ snapFocus' = [snapFocus EXCEPT ![w] = NULL]
  BY DEF SendFocusBody, Goto, envVars, netVars, listVars, activeVars, windowsVars, monVars,
         Mirrored, ListInv,
         Typed, TypeOK, Staffed
<1>2. ReceiveEvent(sck[c], e)
  BY <1>0 DEF SendFocusBody
<1>3. \A A, f : AppsAfter(e, A) = A /\ FocusedAfter(e, A, f) \in {snapFocus[w], NULL}
  BY DEF AppsAfter, FocusedAfter
<1>4. event.kind = "got_focus" => c \in todo
  BY <1>0, <1>1 DEF Mirrored, Led, Rounds, Held, Sending, NoEvent
<1>5. event.kind # "got_focus" => snapFocus[w] = onFocus
  BY <1>1 DEF Mirrored, Led, Focus, Sending
<1> HIDE DEF e
<1>6. /\ OthersSame(c)
      /\ Follower(c)' => Follower(c) /\ focused'[c] \in {focused[c], NULL, snapFocus[w]}
      /\ apps'[c] = apps[c]
  <2>1. Mirrored => ListInv /\ Connections
    BY DEF Mirrored
  <2>2. CASE peer[c] \in {"up", "stuck"} /\ stream[c] = "listed"
    BY <1>1, <1>2, <1>3, <2>1, <2>2, EventEffect DEF Follower
  <2>3. CASE ~(peer[c] \in {"up", "stuck"} /\ stream[c] = "listed")
    <3>1. /\ OthersSame(c) /\ apps'[c] = apps[c] /\ focused'[c] = focused[c]
          /\ stream'[c] = stream[c] \/ (stream[c] = "fresh" /\ stream'[c] = "event-first")
      BY <1>1, <1>2, <2>1, <2>3, EventEffect
    <3> QED
      BY <1>1, <3>1 DEF Follower
  <2> QED
    BY <2>2, <2>3
<1>7. \A d \in Conn : Follower(d)' =>
        /\ Follower(d) /\ apps'[d] = apps[d]
        /\ d # c => focused'[d] = focused[d]
  <2> TAKE d \in Conn
  <2>1. CASE d = c
    BY <1>6, <2>1
  <2>2. CASE d # c
    BY <1>1, <1>6, <2>2 DEF Follower, OthersSame
  <2> QED
    BY <2>1, <2>2
<1> USE DEF windowsVars, monVars, updateVars, notifyVars, Mirrored, Led
<1>8. Rounds' /\ Held'
  BY <1>1 DEF Rounds, Held, Telling, Dropped, Added, Sending, ListInv, Typed, TypeOK
<1>9. \A d : Expected(d)' = Expected(d)
  BY <1>1 DEF Expected, Told, Added
<1>10. Copies'
  BY <1>1, <1>7, <1>9 DEF Copies, ListInv, Typed, TypeOK
<1>11. Focus'
  <2>1. \A d \in Conn : Follower(d)' =>
          IF event.kind = "got_focus" THEN d \in todo \/ focused'[d] \in {NULL, current}
                                      ELSE focused'[d] \in {NULL, onFocus}
    <3> TAKE d \in Conn
    <3>1. CASE d = c
      BY <1>4, <1>5, <1>6, <3>1 DEF Focus
    <3>2. CASE d # c
      BY <1>7, <3>2 DEF Focus
    <3> QED
      BY <3>1, <3>2
  <2>2. \A v \in Worker : wpc'[v] \in Sending => wpc[v] \in Sending /\ snapFocus'[v] = snapFocus[v]
    BY <1>1 DEF Sending, ListInv, Typed, TypeOK
  <2> QED
    BY <1>1, <2>1, <2>2 DEF Focus
<1> QED
  BY <1>8, <1>10, <1>11

\* The desktop is read: nothing of it has been told yet.
LEMMA BeginUpdateLed == ASSUME Mirrored, BeginUpdate PROVE Led'
<1>1. ~Telling /\ event = NoEvent /\ \A c : Expected(c) = winHandles
  BY AtRest DEF BeginUpdate
<1>2. /\ mpc' = "event" /\ closing' = winHandles \ updated' /\ opening' = updated' \ winHandles
      /\ UNCHANGED <<peer, winHandles, onFocus, workerVars, notifyVars, viewVars>>
  BY DEF BeginUpdate, envVars, netVars
<1> USE DEF notifyVars, workerVars, viewVars, Mirrored, Led
<1>3. Rounds' /\ Held'
  BY <1>1, <1>2 DEF Rounds, Held, Telling, Dropped, Added, NoEvent
<1>4. \A c : Expected(c)' = winHandles
  BY <1>1, <1>2 DEF Expected, Told, Added, NoEvent
<1>5. Copies'
  BY <1>1, <1>2, <1>4 DEF Copies, Follower
<1>6. Focus'
  BY <1>1, <1>2 DEF Focus, Follower, NoEvent
<1> QED
  BY <1>3, <1>5, <1>6

\* notify() begins: whoever follows or is being greeted is in the list.
LEMMA NotifyLed ==
  ASSUME Mirrored, mpc = "event", NEW kind, NEW h, Notify(kind, h),
         Rounds', UNCHANGED onFocus \/ kind = "got_focus",
         \A c \in active : Expected(c)' = Expected(c)
  PROVE  Led'
<1>1. /\ mpc' = "notify" /\ todo' = active /\ event' = [kind |-> kind, win |-> h]
      /\ UNCHANGED <<peer, active, winHandles, workerVars, viewVars>>
  BY DEF Notify, envVars, netVars, listVars, activeVars
<1>2. event = NoEvent
  BY NothingInFlight DEF Telling
<1>3. \A c \in Conn : Follower(c)' <=> Follower(c)
  BY <1>1 DEF Follower, viewVars
<1>4. \A c \in Conn : Follower(c) => c \in active
  BY FollowersServed
<1>5. \A w \in Worker : wpc[w] \in Sending => client[w] \in active
  BY DEF Mirrored, ListInv, Places, Sending, Serving, WorkerPC
<1> USE DEF workerVars, viewVars, Mirrored, Led
<1>6. Held'
  BY <1>1, <1>5 DEF Held
<1>7. Copies'
  BY <1>1, <1>3, <1>4, <1>5 DEF Copies, Sending
<1>8. Focus'
  BY <1>1, <1>2, <1>3, <1>4, <1>5 DEF Focus, NoEvent
<1> QED
  BY <1>6, <1>7, <1>8

\* A closed window is told: whoever has still to be visited shows it.
LEMMA NotifyClosedLed == ASSUME Mirrored, NEW h \in Window, NotifyClosed(h) PROVE Led'
<1>1. /\ mpc = "event" /\ h \in closing /\ closing' = closing \ {h} /\ Notify("destroyed", h)
      /\ UNCHANGED <<winHandles, updated, current, opening, onFocus, active>>
      /\ mpc' = "notify" /\ todo' = active /\ event' = [kind |-> "destroyed", win |-> h]
  BY DEF NotifyClosed, Notify, listVars, activeVars
<1>2. h \in Dropped /\ closing \subseteq Dropped /\ opening \subseteq Added
  BY <1>1 DEF Mirrored, Led, Rounds
<1>3. Rounds'
  BY <1>1, <1>2 DEF Rounds, Telling, Dropped, Added
<1>4. \A c \in active : Expected(c)' = Expected(c)
  <2>1. \A c : Expected(c) = Told
    BY <1>1, NothingInFlight DEF Telling
  <2>2. Told' \cup {h} = Told
    BY <1>1, <1>2 DEF Told, Dropped, Added
  <2> QED
    BY <1>1, <2>1, <2>2 DEF Expected
<1> QED
  BY <1>1, <1>3, <1>4, NotifyLed

\* An opened window is told: whoever has still to be visited lacks it.
LEMMA NotifyOpenedLed == ASSUME Mirrored, NEW h \in Window, NotifyOpened(h) PROVE Led'
<1>1. /\ mpc = "event" /\ h \in opening /\ opening' = opening \ {h} /\ Notify("created", h)
      /\ UNCHANGED <<winHandles, updated, current, closing, onFocus,
                     active>> /\ closing = {}
      /\ mpc' = "notify" /\ todo' = active /\ event' = [kind |-> "created", win |-> h]
  BY DEF NotifyOpened, Notify, listVars, activeVars
<1>2. h \in Added /\ opening \subseteq Added
  BY <1>1 DEF Mirrored, Led, Rounds
<1>3. Rounds'
  BY <1>1, <1>2 DEF Rounds, Telling, Dropped, Added
<1>4. \A c \in active : Expected(c)' = Expected(c)
  <2>1. \A c : Expected(c) = Told
    BY <1>1, NothingInFlight DEF Telling
  <2>2. Told' \ {h} = Told
    BY <1>1, <1>2 DEF Told, Dropped, Added
  <2> QED
    BY <1>1, <2>1, <2>2 DEF Expected
<1> QED
  BY <1>1, <1>3, <1>4, NotifyLed

\* The focus is told.
LEMMA NotifyFocusLed == ASSUME Mirrored, NotifyFocus PROVE Led'
<1>1. /\ mpc = "event" /\ onFocus' \in {current, DESKTOP} /\ Notify("got_focus", onFocus')
      /\ UNCHANGED <<winHandles, updated, current, closing, opening, active>>
      /\ mpc' = "notify" /\ todo' = active /\ event' = [kind |-> "got_focus", win |-> onFocus']
  BY DEF NotifyFocus, Notify, listVars, activeVars
<1>2. Rounds'
  BY <1>1 DEF Rounds, Telling, Dropped, Added, Mirrored, Led
<1>3. \A c \in active : Expected(c)' = Expected(c)
  <2>1. \A c : Expected(c) = Told
    BY <1>1, NothingInFlight DEF Telling
  <2>2. Told' = Told
    BY <1>1 DEF Told, Added
  <2> QED
    BY <1>1, <2>1, <2>2 DEF Expected
<1>4. PICK g : g = onFocus'
  OBVIOUS
<1> QED
  BY <1>1, <1>2, <1>3, <1>4, NotifyLed

\* A follower that gets the event has then been told it.
LEMMA SendMessageBodyLed == ASSUME Mirrored, SendMessageBody PROVE Led'
<1>1. PICK c \in Conn : c = mopen
  BY DEF SendMessageBody, Mirrored, ListInv, Locks, Typed, TypeOK
<1>2. /\ Telling /\ c \in todo /\ todo' = todo \ {c} /\ ReceiveEvent(sck[c], event)
      /\ mpc = "body" /\ mpc' = "notify" /\ cLock[c] = Monitor /\ SendReturns(sck[c])
      /\ UNCHANGED <<peer, winHandles, onFocus, workerVars, updateVars, event>>
  BY <1>1 DEF SendMessageBody, Telling, Mirrored, ListInv, Locks, envVars, netVars,
              windowsVars
<1>3. \A w \in Worker : wpc[w] \in Sending => client[w] # c
  BY <1>2 DEF Mirrored, ListInv, Locks, Sending, Greeting
<1>4. Told' = Told /\ \A d : d # c => Expected(d)' = Expected(d)
  BY <1>2 DEF Told, Added, Expected, updateVars
<1>5. Expected(c)' = Told
  BY <1>2, <1>4 DEF Expected
<1>6. OthersSame(c)
  BY <1>2, EventEffect DEF Mirrored
<1>7. \A d \in Conn \ {c} : /\ Follower(d)' => Follower(d)
                            /\ apps'[d] = apps[d] /\ focused'[d] = focused[d]
  BY <1>2, <1>6 DEF Follower, OthersSame
<1>8. ASSUME Follower(c)'
      PROVE  /\ Follower(c) /\ apps'[c] = AppsAfter(event, apps[c])
             /\ focused'[c] = FocusedAfter(event, apps[c], focused[c])
  <2>1. stream[c] = "listed"
    BY <1>2, <1>8, EventEffect DEF Follower, Mirrored
  <2>2. Follower(c)
    BY <1>2, <1>8, <2>1 DEF Follower
  <2>3. peer[c] = "up"
    BY <1>2, <2>2, FollowersServed DEF SendReturns, Follower
  <2> QED
    BY <1>2, <2>1, <2>2, <2>3, EventEffect DEF Mirrored
<1>9. Follower(c)' => apps'[c] = Told
  <2> SUFFICES ASSUME Follower(c)' PROVE apps'[c] = Told
    OBVIOUS
  <2>1. apps'[c] = AppsAfter(event, Expected(c))
    BY <1>8 DEF Mirrored, Led, Copies
  <2>2. mpc # "sleep"
    BY <1>2
  <2> QED
    BY <1>2, <2>1, <2>2 DEF AppsAfter, Expected, Told, Dropped, Added, Mirrored, Led, Rounds
<1>10. Follower(c)' => focused'[c] \in {NULL, IF event.kind = "got_focus" THEN current ELSE onFocus}
  <2> SUFFICES ASSUME Follower(c)'
               PROVE  focused'[c] \in {NULL, IF event.kind = "got_focus" THEN current ELSE onFocus}
    OBVIOUS
  <2>1. CASE event.kind = "got_focus"
    <3>1. event.win \in {current, DESKTOP} /\ DESKTOP \notin apps[c]
      BY <2>1 DEF Mirrored, Led, Rounds, ListInv, Typed, TypeOK
    <3> QED
      BY <1>8, <2>1, <3>1 DEF FocusedAfter
  <2>2. CASE event.kind # "got_focus"
    BY <1>8, <2>2 DEF FocusedAfter, Mirrored, Led, Focus
  <2> QED
    BY <2>1, <2>2
<1> USE DEF workerVars, updateVars
<1>11. Rounds' /\ Held'
  BY <1>2, <1>3 DEF Rounds, Held, Telling, Dropped, Added, Mirrored, Led
<1>12. Copies'
  BY <1>2, <1>3, <1>4, <1>5, <1>7, <1>9 DEF Copies, Sending, Mirrored, Led
<1>13. Focus'
  BY <1>2, <1>7, <1>10 DEF Focus, Mirrored, Led
<1> QED
  BY <1>11, <1>12, <1>13 DEF Led

\* The walk ends: every client that follows has been visited.
LEMMA EndNotifyLed == ASSUME Mirrored, EndNotify PROVE Led'
<1>1. /\ Telling /\ todo = {} /\ mpc = "notify" /\ mpc' = "event" /\ event' = NoEvent
      /\ onFocus' = IF event.kind = "got_focus" THEN current ELSE onFocus
      /\ UNCHANGED <<peer, winHandles, todo, workerVars, updateVars, viewVars>>
  BY DEF EndNotify, Telling, envVars, netVars
<1>2. \A w \in Worker : wpc[w] \notin Sending
  BY <1>1 DEF Mirrored, Led, Held
<1> USE DEF workerVars, updateVars, viewVars, Mirrored, Led
<1>3. Rounds' /\ Held'
  BY <1>1 DEF Rounds, Held, Telling, Dropped, Added, NoEvent
<1>4. \A c : Expected(c)' = Expected(c)
  BY <1>1 DEF Expected, Told, Added
<1>5. Copies'
  BY <1>1, <1>2, <1>4 DEF Copies, Follower, Sending
<1>6. Focus'
  BY <1>1, <1>2 DEF Focus, Follower, NoEvent
<1> QED
  BY <1>3, <1>5, <1>6

\* update() ends: what has been told is the new list.
LEMMA EndUpdateLed == ASSUME Mirrored, EndUpdate PROVE Led'
<1>1. /\ mpc = "event" /\ ~Telling /\ event = NoEvent /\ \A c : Expected(c) = Told
  BY NothingInFlight DEF EndUpdate, Telling
<1>2. /\ mpc' = "sleep" /\ closing = {} /\ opening = {} /\ winHandles' = updated /\ updated' = {}
      /\ UNCHANGED <<peer, closing, opening, onFocus, workerVars, notifyVars, viewVars>>
  BY DEF EndUpdate, envVars, netVars
<1>3. Told = updated
  BY <1>1, <1>2 DEF Told, Added
<1> USE DEF notifyVars, workerVars, viewVars, Mirrored, Led
<1>4. Rounds' /\ Held'
  BY <1>1, <1>2 DEF Rounds, Held, Telling, Dropped, Added, NoEvent
<1>5. \A c : Expected(c)' = updated
  BY <1>1, <1>2 DEF Expected, Told, NoEvent
<1>6. Copies'
  BY <1>1, <1>2, <1>3, <1>5 DEF Copies, Follower
<1>7. Focus'
  BY <1>1, <1>2 DEF Focus, Follower, NoEvent
<1> QED
  BY <1>4, <1>6, <1>7

-----------------------------------------------------------------------------
\* The copies are led by every step.
LEMMA LedStep == ASSUME Mirrored, [Next]_vars PROVE Led'
BY QuietSteps, QuietKeeps, ReadFocusLed, ReadWindowsLed, SendListBodyLed, SendFocusBodyLed,
   BeginUpdateLed, NotifyClosedLed, NotifyOpenedLed, NotifyFocusLed, SendMessageBodyLed,
   EndNotifyLed, EndUpdateLed
   DEF Mirrored, Next, WorkerNext, WorkerStep, MonitorNext

\* The invariant holds at the start.
LEMMA MirroredInit == Init => Mirrored
<1> SUFFICES ASSUME Init PROVE Mirrored
  OBVIOUS
<1>1. Len(pending) = 0
  BY DEF Init
<1> QED
  BY <1>1, ListInit DEF Init, Mirrored, Connections, Streams, Led, Rounds, Held,
                        Copies, Focus, Telling,
     Sending, Present, Queued, Leaving, Closing, Follower, NoEvent

\* The induction step: the parts of the invariant, gathered.
LEMMA MirroredStep == ASSUME ~Recycle, Mirrored, [Next]_vars PROVE Mirrored'
BY ListStep, ConnectionsStep, StreamsStep, LedStep DEF Mirrored

\* The inductive invariant, from which the results below follow.
THEOREM MirroredAlways == ASSUME ~Recycle PROVE Spec => []Mirrored
<1>1. Mirrored /\ [Next]_vars => Mirrored'
  BY MirroredStep
<1> QED
  BY MirroredInit, <1>1, PTL DEF Spec

(***************************************************************************)
(* Between two updates every client that follows the protocol shows the    *)
(* list the server last published, for any number of clients, workers and  *)
(* windows, if closed SOCKET values are not handed out again.              *)
(***************************************************************************)
THEOREM MirrorFollows == ASSUME ~Recycle PROVE Spec => []MirrorAtRest
<1>1. ASSUME Mirrored, mpc = "sleep", NEW c \in Conn, Follower(c) PROVE apps[c] = winHandles
  BY <1>1, NothingInFlight DEF Telling, Told, Mirrored, Led, Copies
<1>2. Mirrored => MirrorAtRest
  BY <1>1 DEF MirrorAtRest
<1> QED
  BY MirroredAlways, <1>2, PTL

(***************************************************************************)
(* Between two updates no such client shows as focused a window other than *)
(* the one the server has last seen focused.                               *)
(***************************************************************************)
THEOREM FocusFollows == ASSUME ~Recycle PROVE Spec => []FocusAtRest
<1>1. ASSUME Mirrored, mpc = "sleep", NEW c \in Conn, Follower(c)
      PROVE  focused[c] \in {NULL, onFocus}
  BY <1>1, NothingInFlight DEF Telling, NoEvent, Mirrored, Led, Focus
<1>2. Mirrored => FocusAtRest
  BY <1>1 DEF FocusAtRest
<1> QED
  BY MirroredAlways, <1>2, PTL

-----------------------------------------------------------------------------
\* The steps that write to a client; the others leave every stream alone.
LEMMA Writers ==
  ASSUME [Next]_vars
  PROVE  \/ UNCHANGED stream \/ SendMessageSize \/ SendMessageBody
         \/ \E w \in Worker : \/ SendListSize(w) \/ SendFocusSize(w) \/ SendResponseSize(w)
                              \/ SendListBody(w) \/ SendFocusBody(w)
BY DEF Next, AcceptNext, Accept, AcceptFails, EnvNext, Stall, Depart, WorkerNext,
       WorkerStep, GetClient, AddClient, LockClient, ReadFocus, ReadWindows,
       GreetingFails, ReadFails, CheckFocus, Inject, SendResponseBody, SkipClose,
       CloseSocket, InvalidateSocket, MarkClosed, Cleanup, ReadRequest, MonitorNext,
       BeginUpdate, NotifyClosed, NotifyOpened, NotifyFocus, Notify, LockForMessage,
       EndNotify, EndUpdate, vars, nonWorkerVars, viewVars

\* cLock_ excludes a frame of the other thread, except where a response is written.
LEMMA MixedByResponse ==
  ASSUME Mirrored, [Next]_vars, NEW c \in Conn, stream[c] # "mixed", stream'[c] = "mixed"
  PROVE  \E w \in Worker : client[w] = c /\ wpc[w] \in {"respSize", "respBody"}
<1> USE DEF Mirrored
<1>1. ASSUME NEW w \in Worker, SendListSize(w) \/ SendFocusSize(w) PROVE FALSE
  <2>1. client[w] \in Conn /\ ReceiveSize(sck[client[w]]) /\ wpc[w] \in {"listSize", "focusSize"}
    BY <1>1 DEF SendListSize, SendFocusSize, ListInv, Typed, TypeOK, Staffed
  <2>2. client[w] = c /\ MidFrame(c)
    BY <2>1, SizeEffect DEF OthersSame
  <2>3. cLock[c] = w
    BY <2>1, <2>2 DEF ListInv, Locks, Greeting
  <2>4. ~(mpc = "body" /\ mopen = c)
    BY <2>3 DEF ListInv, Locks
  <2>5. \A v \in Worker : client[v] = c => v = w
    BY <2>1, <2>2 DEF ListInv, Places
  <2> QED
    BY <2>1, <2>2, <2>4, <2>5 DEF MidFrame
<1>2. ASSUME NEW w \in Worker, SendResponseSize(w) PROVE client[w] = c /\ wpc[w] = "respSize"
  <2>1. client[w] \in Conn /\ ReceiveSize(sck[client[w]]) /\ wpc[w] = "respSize"
    BY <1>2 DEF SendResponseSize, ListInv, Typed, TypeOK, Staffed
  <2> QED
    BY <2>1, SizeEffect DEF OthersSame
<1>3. ASSUME SendMessageSize
      PROVE  \E w \in Worker : client[w] = c /\ wpc[w] = "respBody"
  <2>1. mopen \in Conn /\ ReceiveSize(sck[mopen]) /\ mpc = "size" /\ cLock[mopen] = Monitor
    BY <1>3 DEF SendMessageSize, ListInv, Locks, Typed, TypeOK
  <2>2. mopen = c /\ MidFrame(c)
    BY <2>1, SizeEffect DEF OthersSame
  <2> QED
    BY <2>1, <2>2 DEF MidFrame, ListInv, Locks, Greeting
<1>4. ASSUME NEW w \in Worker, SendListBody(w) PROVE FALSE
  <2>1. client[w] \in Conn /\ ReceiveAppList(sck[client[w]], snap[w])
    BY <1>4 DEF SendListBody, ListInv, Typed, TypeOK, Staffed
  <2> QED
    BY <2>1, ListEffect DEF OthersSame
<1>5. ASSUME NEW d \in Conn, NEW e, ReceiveEvent(sck[d], e) PROVE FALSE
  BY <1>5, EventEffect DEF OthersSame
<1>6. ASSUME UNCHANGED stream PROVE FALSE
  BY <1>6
<1>7. ASSUME NEW w \in Worker, SendFocusBody(w) PROVE FALSE
  BY <1>5, <1>7 DEF SendFocusBody, ListInv, Typed, TypeOK, Staffed
<1>8. ASSUME SendMessageBody PROVE FALSE
  BY <1>5, <1>8 DEF SendMessageBody, ListInv, Locks, Typed, TypeOK
<1> QED
  BY <1>1, <1>2, <1>3, <1>4, <1>6, <1>7, <1>8, Writers

(***************************************************************************)
(* A frame is cut by another one only where a worker writes a response.    *)
(***************************************************************************)
THEOREM ResponsesOnlyMix == ASSUME ~Recycle PROVE Spec => OnlyResponsesMix
<1>1. Mirrored /\ [Next]_vars =>
        [\A c \in Conn : stream[c] # "mixed" /\ stream'[c] = "mixed" =>
           \E w \in Worker : client[w] = c /\ wpc[w] \in {"respSize", "respBody"}]_vars
  BY MixedByResponse
<1> QED
  BY MirroredAlways, <1>1, PTL DEF Spec, OnlyResponsesMix

-----------------------------------------------------------------------------
(***************************************************************************)
(* Greetings.  A client is not in `active` before its worker puts it       *)
(* there, and the worker writes nothing but the list before the list: who  *)
(* can still be written to has decoded it when anything else is written.   *)
(***************************************************************************)
Begun == {"focusSize", "focusBody"} \cup Greeted

Greetings ==
  /\ \A w \in Worker : wpc[w] = "add" => client[w] \notin active
  /\ \A w \in Worker : wpc[w] \in Begun /\ Present(client[w]) => stream[client[w]] # "fresh"

\* A stream is fresh only until the first frame.
LEMMA FreshOnce ==
  ASSUME Mirrored, [Next]_vars, NEW c \in Conn, stream'[c] = "fresh"
  PROVE  stream[c] = "fresh"
<1> USE DEF Mirrored
<1>1. \A h : ReceiveSize(h) => stream[c] = "fresh"
  BY DEF ReceiveSize
<1>2. \A h, W : ReceiveAppList(h, W) => stream[c] = "fresh"
  BY DEF ReceiveAppList
<1>3. \A h, e : ReceiveEvent(h, e) => stream[c] = "fresh"
  BY DEF ReceiveEvent
<1> QED
  BY <1>1, <1>2, <1>3, Writers
     DEF SendMessageSize, SendMessageBody, SendListSize, SendFocusSize, SendResponseSize,
         SendListBody, SendFocusBody

\* Steps that add no client to `active` and begin nothing with one.
LEMMA GreetingsFrame ==
  ASSUME Mirrored, Greetings, [Next]_vars, UNCHANGED client, active' \subseteq active,
         \A c \in Conn : Present(c)' => Present(c),
         \A w \in Worker : /\ wpc'[w] = "add" => wpc[w] = "add"
                           /\ wpc'[w] \in Begun => wpc[w] \in Begun
  PROVE  Greetings'
<1>1. \A w \in Worker : wpc[w] \in Begun => client[w] \in Conn
  BY DEF Begun, Greeted, Mirrored, ListInv, Typed, TypeOK, Staffed
<1> QED
  BY <1>1, FreshOnce DEF Greetings

LEMMA GreetingsStep ==
  ASSUME Mirrored, Greetings, [Next]_vars
  PROVE  Greetings'
<1> USE DEF netVars, clientVars, windowsVars, workerVars, updateVars, notifyVars, monVars,
            viewVars, envVars, listVars, activeVars, nonWorkerVars, Goto
<1>0. \A w \in Worker : wpc[w] # "get" => client[w] \in Conn
  BY DEF Mirrored, ListInv, Typed, TypeOK, Staffed
<1>1. ASSUME NEW c \in Conn, (\E h \in Handle : Accept(c, h)) \/ AcceptFails(c)
      PROVE  Greetings'
  <2>1. UNCHANGED <<active, client, wpc, stream>>
    BY <1>1 DEF Accept, AcceptFails
  <2>2. \A d \in Conn \ {c} : peer'[d] = peer[d]
    BY <1>1 DEF Accept, AcceptFails, Mirrored, ListInv, Typed, TypeOK
  <2>3. \A w \in Worker : client[w] # c
    BY <1>1, ConnAssumption DEF Accept, AcceptFails, Mirrored, ListInv, Places
  <2> QED
    BY <1>0, <2>1, <2>2, <2>3 DEF Greetings, Present, Begun, Greeted
<1>2. ASSUME NEW w \in Worker, GetClient(w) PROVE Greetings'
  <2>1. client'[w] = Head(pending) /\ wpc'[w] = "add"
    BY <1>2 DEF GetClient, Mirrored, ListInv, Typed, TypeOK
  <2>2. Head(pending) \notin active
    BY <1>2, QueuedTail DEF GetClient, Mirrored, ListInv, Typed, Places
  <2>3. \A v \in Worker \ {w} : client'[v] = client[v] /\ wpc'[v] = wpc[v]
    BY <1>2 DEF GetClient, Mirrored, ListInv, Typed, TypeOK
  <2>4. UNCHANGED <<active, peer, stream>>
    BY <1>2 DEF GetClient
  <2> QED
    BY <2>1, <2>2, <2>3, <2>4 DEF Greetings, Present, Begun, Greeted
<1>3. ASSUME NEW w \in Worker, AddClient(w) PROVE Greetings'
  <2>1. active' = active \cup {client[w]} /\ UNCHANGED <<client, peer, stream>>
    BY <1>3 DEF AddClient
  <2>2. wpc'[w] = "lock" /\ \A v \in Worker \ {w} : wpc'[v] = wpc[v] /\ client[v] # client[w]
    BY <1>0, <1>3, ConnAssumption DEF AddClient, Mirrored, ListInv, Places, Typed, TypeOK
  <2> QED
    BY <2>1, <2>2 DEF Greetings, Present, Begun, Greeted
<1>4. ASSUME NEW w \in Worker, SendListBody(w) PROVE Greetings'
  <2>1. /\ client[w] \in Conn /\ ReceiveAppList(sck[client[w]], snap[w])
        /\ UNCHANGED <<active, client, peer>>
    BY <1>0, <1>4 DEF SendListBody
  <2>2. Present(client[w]) => stream'[client[w]] # "fresh"
    BY <2>1, ListEffect DEF Mirrored, Present
  <2>3. wpc'[w] = "focusSize" /\ \A v \in Worker \ {w} : wpc'[v] = wpc[v]
    BY <1>4 DEF SendListBody, Mirrored, ListInv, Typed, TypeOK
  <2> QED
    BY <1>0, <2>1, <2>2, <2>3, FreshOnce DEF Greetings, Present, Begun, Greeted
<1>5. ASSUME NEW w \in Worker, Cleanup(w) PROVE Greetings'
  <2>1. active' \subseteq active /\ UNCHANGED <<peer, stream>> /\ wpc'[w] = "get"
    BY <1>5 DEF Cleanup, Mirrored, ListInv, Typed, TypeOK
  <2>2. \A v \in Worker \ {w} : client'[v] = client[v] /\ wpc'[v] = wpc[v]
    BY <1>5 DEF Cleanup, Mirrored, ListInv, Typed, TypeOK
  <2> QED
    BY <2>1, <2>2 DEF Greetings, Present, Begun, Greeted
<1>6. ASSUME NEW w \in Worker,
             \/ LockClient(w) \/ ReadFocus(w) \/ ReadWindows(w)
             \/ SendListSize(w) \/ SendFocusSize(w) \/ SendFocusBody(w)
             \/ GreetingFails(w) \/ ReadFails(w) \/ CheckFocus(w) \/ Inject(w)
             \/ SendResponseSize(w) \/ SendResponseBody(w) \/ SkipClose(w)
             \/ CloseSocket(w) \/ InvalidateSocket(w) \/ MarkClosed(w)
             \/ \E h \in Window : ReadRequest(w, h)
      PROVE  Greetings'
  <2>1. UNCHANGED <<active, client, peer>>
    BY <1>6 DEF LockClient, ReadFocus, ReadWindows, SendListSize, SendFocusSize,
                SendFocusBody, GreetingFails, ReadFails, CheckFocus, Inject,
                SendResponseSize, SendResponseBody, SkipClose, CloseSocket,
                InvalidateSocket, MarkClosed, ReadRequest
  <2>2. \A v \in Worker : /\ wpc'[v] = "add" => wpc[v] = "add"
                          /\ wpc'[v] \in Begun => wpc[v] \in Begun
    BY <1>6 DEF LockClient, ReadFocus, ReadWindows, SendListSize, SendFocusSize,
                SendFocusBody, GreetingFails, ReadFails, CheckFocus, Inject,
                SendResponseSize, SendResponseBody, SkipClose, CloseSocket,
                InvalidateSocket, MarkClosed, ReadRequest, Begun, Greeted,
                Mirrored, ListInv, Typed, TypeOK
  <2> QED
    BY <2>1, <2>2, GreetingsFrame DEF Present
<1>7. ASSUME \/ \E c \in Conn : Stall(c) \/ Depart(c)
             \/ MonitorNext \/ UNCHANGED vars
             \/ ForegroundChanges /\ UNCHANGED <<netVars, listVars, clientVars, workerVars>>
      PROVE  Greetings'
  <2>1. UNCHANGED <<active, client, wpc>> /\ \A c \in Conn : Present(c)' => Present(c)
    BY <1>7 DEF Stall, Depart, Present, MonitorNext, BeginUpdate, NotifyClosed,
                NotifyOpened, NotifyFocus, Notify, LockForMessage, SendMessageSize,
                SendMessageBody, EndNotify, EndUpdate, vars, Mirrored, ListInv, Typed, TypeOK
  <2> QED
    BY <2>1, GreetingsFrame
<1> QED
  BY <1>1, <1>2, <1>3, <1>4, <1>5, <1>6, <1>7
     DEF Next, AcceptNext, EnvNext, WorkerNext, WorkerStep

\* An event is the first frame of a stream only while its worker waits for cLock_.
LEMMA FirstByMonitor ==
  ASSUME Mirrored, Greetings, [Next]_vars, NEW c \in Conn,
         stream[c] # "event-first", stream'[c] = "event-first"
  PROVE  mopen = c /\ \E w \in Worker : client[w] = c /\ wpc[w] = "lock"
<1> USE DEF Mirrored
<1>1. ASSUME NEW h, ReceiveSize(h) PROVE FALSE
  BY <1>1 DEF ReceiveSize
<1>2. ASSUME NEW h, NEW W, ReceiveAppList(h, W) PROVE FALSE
  BY <1>2 DEF ReceiveAppList
<1>3. ASSUME NEW d \in Conn, NEW e, ReceiveEvent(sck[d], e)
      PROVE  d = c /\ Present(c) /\ stream[c] = "fresh"
  BY <1>3, ReachesOwn DEF ReceiveEvent, Present
<1>4. ASSUME NEW w \in Worker, SendFocusBody(w) PROVE FALSE
  <2>1. /\ wpc[w] = "focusBody" /\ client[w] \in Conn
        /\ ReceiveEvent(sck[client[w]], [kind |-> "got_focus", win |-> snapFocus[w]])
    BY <1>4 DEF SendFocusBody, ListInv, Typed, TypeOK, Staffed
  <2>2. client[w] = c /\ Present(c) /\ stream[c] = "fresh"
    BY <1>3, <2>1
  <2> QED
    BY <2>1, <2>2 DEF Greetings, Begun
<1>5. CASE SendMessageBody
  <2>1. /\ mopen \in Conn /\ ReceiveEvent(sck[mopen], event)
        /\ mopen \in active /\ cLock[mopen] = Monitor
    BY <1>5 DEF SendMessageBody, ListInv, Locks, Places, Typed, TypeOK
  <2>2. mopen = c /\ Present(c) /\ stream[c] = "fresh"
    BY <1>3, <2>1
  <2>3. PICK w \in Worker : client[w] = c /\ wpc[w] \notin Closing
    BY <2>1, <2>2 DEF Connections, InService, Closing, ListInv, Places
  <2>4. wpc[w] \notin {"get", "add", "close"} \cup Begun
    BY <2>1, <2>2, <2>3 DEF Greetings, Connections, Leaving, Present, ListInv, Typed, Staffed
  <2>5. wpc[w] \notin Greeting
    BY <2>1, <2>2, <2>3, ThreadAssumption DEF ListInv, Locks
  <2>6. wpc[w] = "lock"
    BY <2>3, <2>4, <2>5 DEF ListInv, Typed, TypeOK, WorkerPC, Closing, Greeting, Begun, Greeted
  <2> QED
    BY <2>2, <2>3, <2>6
<1>6. ASSUME UNCHANGED stream PROVE FALSE
  BY <1>6
<1> QED
  BY <1>1, <1>2, <1>4, <1>5, <1>6, Writers
     DEF SendMessageSize, SendListSize, SendFocusSize, SendResponseSize, SendListBody

(***************************************************************************)
(* A client gets an event before its list only if the monitor comes in     *)
(* between active.addClient() and the lock of sendProcessList().           *)
(***************************************************************************)
THEOREM EventsFirstOnlyUngreeted == ASSUME ~Recycle PROVE Spec => EventFirstOnlyUngreeted
<1>1. Init => Greetings
  BY DEF Init, Greetings, Begun, Greeted
<1>2. Mirrored /\ Greetings /\ [Next]_vars => Greetings'
  BY GreetingsStep
<1>3. Mirrored /\ Greetings /\ [Next]_vars =>
        [\A c \in Conn : stream[c] # "event-first" /\ stream'[c] = "event-first" =>
           mopen = c /\ \E w \in Worker : client[w] = c /\ wpc[w] = "lock"]_vars
  BY FirstByMonitor
<1> QED
  BY MirroredAlways, <1>1, <1>2, <1>3, PTL DEF Spec, EventFirstOnlyUngreeted

-----------------------------------------------------------------------------
(***************************************************************************)
(* The refinement of WindowsMirror.                                        *)
(***************************************************************************)
LEMMA MirrorStart == Init => Mirror!Init
BY DEF Init, Mirror!Init, Follower, MyEnumWindows

Moves == [Mirror!Next]_(Mirror!vars)

\* A quiet step lets clients leave, one at a time.
LEMMA LeaveOrStay ==
  ASSUME Mirrored, UNCHANGED <<winHandles, updated, apps>>,
                               mpc' = "sleep" <=> mpc = "sleep",
         NEW c \in Conn, \A d \in Conn \ {c} : Follower(d)' <=> Follower(d),
         Follower(c)' => Follower(c)
  PROVE  Moves
<1>1. CASE Follower(c)' <=> Follower(c)
  BY <1>1 DEF Moves, Mirror!vars
<1>2. CASE Follower(c) /\ ~Follower(c)'
  <2>1. Mirror!Leave(c)
    BY <1>2 DEF Mirror!Leave
  <2> QED
    BY <2>1 DEF Moves, Mirror!Next
<1> QED
  BY <1>1, <1>2

\* The AppList lets its client join, or nothing happens.
LEMMA JoinOrStay ==
  ASSUME Mirrored, NEW w \in Worker, SendListBody(w)
  PROVE  Moves
<1>1. PICK c \in Conn : c = client[w]
  BY DEF SendListBody, Mirrored, ListInv, Typed, TypeOK, Staffed
<1>2. /\ ReceiveAppList(sck[c], snap[w]) /\ wpc[w] = "listBody"
      /\ UNCHANGED <<winHandles, updated, mpc, peer>>
  BY <1>1 DEF SendListBody, windowsVars, monVars, updateVars, envVars, netVars
<1>3. snap[w] = winHandles
  BY <1>2 DEF Mirrored, Led, Copies
<1>4. OthersSame(c) /\ \A d \in Conn \ {c} : Follower(d)' <=> Follower(d)
  BY <1>2, ListEffect DEF OthersSame, Follower, Mirrored
<1>5. CASE peer[c] \in {"up", "stuck"} /\ stream[c] = "fresh" /\ snap[w] # {}
  <2>1. stream'[c] = "listed" /\ apps'[c] = winHandles
    BY <1>2, <1>3, <1>5, ListEffect DEF Mirrored
  <2>2. Follower(c)' /\ ~Follower(c)
    BY <1>2, <1>5, <2>1 DEF Follower
  <2>3. apps' = [apps EXCEPT ![c] = winHandles]
    BY <1>2, <1>4, <2>1 DEF OthersSame, ReceiveAppList, Mirrored, ListInv, Typed, TypeOK
  <2>4. Mirror!Join(c)
    BY <1>2, <1>4, <2>2, <2>3 DEF Mirror!Join
  <2> QED
    BY <2>4 DEF Moves, Mirror!Next
<1>6. CASE ~(peer[c] \in {"up", "stuck"} /\ stream[c] = "fresh" /\ snap[w] # {})
  <2>1. apps'[c] = apps[c] /\ (Follower(c)' <=> Follower(c))
    BY <1>2, <1>6, ListEffect DEF Mirrored, Streams, Follower
  <2>2. apps' = apps
    BY <1>2, <1>4, <2>1 DEF OthersSame, ReceiveAppList, Mirrored, ListInv, Typed, TypeOK
  <2> QED
    BY <1>2, <1>4, <2>1, <2>2, LeaveOrStay
<1> QED
  BY <1>5, <1>6

\* A frame of notify() tells one client one event, or nothing happens.
LEMMA TellOrStay ==
  ASSUME Mirrored, SendMessageBody
  PROVE  Moves
<1>1. PICK c \in Conn : c = mopen
  BY DEF SendMessageBody, Mirrored, ListInv, Locks, Typed, TypeOK
<1>2. /\ ReceiveEvent(sck[c], event) /\ mpc = "body" /\ mpc' = "notify"
      /\ UNCHANGED <<winHandles, updated, peer>> /\ event \in Event
  BY <1>1 DEF SendMessageBody, windowsVars, monVars, updateVars, envVars, netVars,
              Mirrored, ListInv,
              Typed, EventSet
<1>3. OthersSame(c) /\ \A d \in Conn \ {c} : Follower(d)' <=> Follower(d)
  BY <1>2, EventEffect DEF OthersSame, Follower, Mirrored
<1>4. Follower(c)' <=> Follower(c)
  BY <1>2, EventEffect DEF Follower, Mirrored
<1>5. apps \in [Conn -> SUBSET Window] /\ apps' \in [Conn -> SUBSET Window]
  BY <1>2, ReceiveTyped DEF Mirrored, ListInv, Typed, TypeOK, ViewTyped
<1>6. CASE apps'[c] = apps[c]
  <2>1. apps' = apps
    BY <1>3, <1>5, <1>6 DEF OthersSame
  <2> QED
    BY <1>2, <1>3, <1>4, <2>1, LeaveOrStay
<1>7. CASE apps'[c] # apps[c]
  <2>1. Follower(c) /\ apps'[c] = AppsAfter(event, apps[c])
    BY <1>2, <1>7, EventEffect DEF Follower, Mirrored
  <2>2. apps' = [apps EXCEPT ![c] = apps'[c]]
    BY <1>3, <1>5 DEF OthersSame
  <2>3. \/ \E h \in apps[c] \ updated : apps'[c] = apps[c] \ {h}
        \/ \E h \in updated \ apps[c] : apps'[c] = apps[c] \cup {h}
    <3>1. /\ event.kind = "destroyed" => event.win \notin updated
          /\ event.kind = "created" => event.win \in updated
      BY DEF Mirrored, Led, Rounds, Dropped, Added
    <3>2. CASE event.kind = "created"
      <4>1. apps'[c] = apps[c] \cup {event.win} /\ event.win \in updated \ apps[c]
        BY <1>7, <2>1, <3>1, <3>2 DEF AppsAfter
      <4> QED
        BY <4>1
    <3>3. CASE event.kind = "destroyed"
      <4>1. apps'[c] = apps[c] \ {event.win} /\ event.win \in apps[c] \ updated
        BY <1>7, <2>1, <3>1, <3>3 DEF AppsAfter
      <4> QED
        BY <4>1
    <3> QED
      BY <1>7, <2>1, <3>2, <3>3 DEF AppsAfter
  <2>4. Mirror!Tell(c)
    BY <1>2, <1>3, <1>4, <1>5, <2>1, <2>2, <2>3 DEF Mirror!Tell
  <2> QED
    BY <2>4 DEF Moves, Mirror!Next
<1> QED
  BY <1>6, <1>7

\* The first focus event of a greeting changes no copy.
LEMMA FocusStays ==
  ASSUME Mirrored, NEW w \in Worker, SendFocusBody(w)
  PROVE  Moves
<1> DEFINE e == [kind |-> "got_focus", win |-> snapFocus[w]]
<1>1. PICK c \in Conn : c = client[w]
  BY DEF SendFocusBody, Mirrored, ListInv, Typed, TypeOK, Staffed
<1>2. /\ ReceiveEvent(sck[c], e)
      /\ UNCHANGED <<winHandles, updated, mpc, peer>>
  BY <1>1 DEF SendFocusBody, windowsVars, monVars, updateVars, envVars, netVars
<1>3. \A A : AppsAfter(e, A) = A
  BY DEF AppsAfter
<1> HIDE DEF e
<1>4. OthersSame(c) /\ apps'[c] = apps[c]
  BY <1>2, <1>3, EventEffect DEF Mirrored
<1>5. Follower(c)' <=> Follower(c)
  BY <1>2, EventEffect DEF Follower, Mirrored
<1>6. apps' = apps
  BY <1>2, <1>4 DEF OthersSame, ReceiveEvent, Mirrored, ListInv, Typed, TypeOK
<1>7. \A d \in Conn \ {c} : Follower(d)' <=> Follower(d)
  BY <1>2, <1>4 DEF OthersSame, Follower
<1> QED
  BY <1>2, <1>5, <1>6, <1>7, LeaveOrStay

\* The size of a frame leaves every copy alone, and may make one client leave.
LEMMA SizeLeaves ==
  ASSUME Mirrored, NEW c \in Conn, ReceiveSize(sck[c]),
         UNCHANGED <<winHandles, updated, peer>>, mpc' = "sleep" <=> mpc = "sleep"
  PROVE  Moves
<1>1. UNCHANGED apps /\ (Follower(c)' => Follower(c))
  BY SizeEffect DEF Follower, Mirrored
<1>2. \A d \in Conn \ {c} : Follower(d)' <=> Follower(d)
  BY SizeEffect DEF Follower, OthersSame, Mirrored
<1> QED
  BY <1>1, <1>2, LeaveOrStay

(***************************************************************************)
(* Every step of the server is a step of WindowsMirror, or changes nothing *)
(* that WindowsMirror knows of.                                            *)
(***************************************************************************)
LEMMA MirrorStep ==
  ASSUME Mirrored, [Next]_vars
  PROVE  Moves
<1> USE DEF netVars, clientVars, windowsVars, workerVars, updateVars, notifyVars, monVars,
            viewVars, envVars, listVars, activeVars, nonWorkerVars
<1>1. ASSUME NEW b \in Conn,
             (\E h \in Handle : Accept(b, h)) \/ AcceptFails(b) \/ Stall(b) \/ Depart(b)
      PROVE  Moves
  <2>1. peer[b] = "away" => stream[b] = "fresh"
    BY DEF Mirrored, Streams
  <2>2. \A d \in Conn \ {b} : peer'[d] = peer[d]
    BY <1>1 DEF Accept, AcceptFails, Stall, Depart, Mirrored, ListInv, Typed, TypeOK
  <2>3. UNCHANGED <<winHandles, updated, mpc, apps, stream>>
    BY <1>1 DEF Accept, AcceptFails, Stall, Depart
  <2>4. Follower(b)' => Follower(b)
    BY <1>1, <2>1, <2>3 DEF Accept, AcceptFails, Stall, Depart, Follower, Mirrored,
                            ListInv, Typed, TypeOK
  <2> QED
    BY <2>2, <2>3, <2>4, LeaveOrStay DEF Follower
<1>2. ASSUME NEW w \in Worker, SendListSize(w) \/ SendFocusSize(w) \/ SendResponseSize(w)
      PROVE  Moves
  <2>1. client[w] \in Conn
    BY <1>2 DEF SendListSize, SendFocusSize, SendResponseSize, Mirrored, ListInv,
                Typed, TypeOK, Staffed
  <2> QED
    BY <1>2, <2>1, SizeLeaves DEF SendListSize, SendFocusSize, SendResponseSize
<1>3. CASE SendMessageSize
  <2>1. mopen \in Conn
    BY <1>3 DEF SendMessageSize, Mirrored, ListInv, Locks, Typed, TypeOK
  <2> QED
    BY <1>3, <2>1, SizeLeaves DEF SendMessageSize
<1>4. CASE BeginUpdate
  <2>1. Mirror!Poll
    BY <1>4 DEF BeginUpdate, Mirror!Poll, MyEnumWindows, Follower
  <2> QED
    BY <2>1 DEF Moves, Mirror!Next
<1>5. CASE EndUpdate
  <2>1. Told = updated
    BY <1>5 DEF EndUpdate, Told, Added
  <2>2. \A c \in Conn : Follower(c) => apps[c] = updated
    BY <1>5, <2>1, NothingInFlight DEF EndUpdate, Telling, Mirrored, Led, Copies
  <2>3. Mirror!Finish
    BY <1>5, <2>2 DEF EndUpdate, Mirror!Finish, Follower
  <2> QED
    BY <2>3 DEF Moves, Mirror!Next
<1>6. ASSUME \/ UNCHANGED vars \/ NotifyFocus \/ EndNotify
             \/ \E h \in Window : NotifyClosed(h) \/ NotifyOpened(h)
             \/ \E c \in Conn : LockForMessage(c)
             \/ ForegroundChanges /\ UNCHANGED <<netVars, windowsVars, monVars, viewVars>>
             \/ \E w \in Worker :
                  \/ GetClient(w) \/ AddClient(w) \/ LockClient(w) \/ ReadFocus(w) \/ ReadWindows(w)
                  \/ GreetingFails(w) \/ ReadFails(w) \/ CheckFocus(w)
                  \/ Inject(w) \/ SendResponseBody(w) \/ SkipClose(w)
                  \/ CloseSocket(w) \/ InvalidateSocket(w) \/ MarkClosed(w) \/ Cleanup(w)
                  \/ \E h \in Window : ReadRequest(w, h)
      PROVE  Moves
  <2>1. UNCHANGED <<winHandles, updated, peer, apps,
                    stream>> /\ (mpc' = "sleep" <=> mpc = "sleep")
    BY <1>6 DEF vars, NotifyFocus, EndNotify, NotifyClosed, NotifyOpened, Notify,
                LockForMessage,
                GetClient, AddClient, LockClient, ReadFocus, ReadWindows, GreetingFails, ReadFails,
                CheckFocus, Inject, SendResponseBody, SkipClose, CloseSocket, InvalidateSocket,
                MarkClosed, Cleanup, ReadRequest
  <2> QED
    BY <2>1 DEF Moves, Mirror!vars, Follower
<1>7. CASE AcceptNext \/ \E c \in Conn : Stall(c) \/ Depart(c)
  BY <1>1, <1>7 DEF AcceptNext
<1>8. ASSUME NEW w \in Worker, WorkerStep(w) \/ \E h \in Window : ReadRequest(w, h)
      PROVE  Moves
  BY <1>2, <1>6, <1>8, JoinOrStay, FocusStays DEF WorkerStep
<1>9. CASE MonitorNext
  BY <1>3, <1>4, <1>5, <1>6, <1>9, TellOrStay DEF MonitorNext
<1>10. ASSUME ForegroundChanges, UNCHANGED <<netVars, listVars, clientVars, windowsVars,
                                             workerVars, monVars, viewVars>>
       PROVE  Moves
  BY <1>6, <1>10
<1> QED
  BY <1>6, <1>7, <1>8, <1>9, <1>10 DEF Next, EnvNext, WorkerNext

(***************************************************************************)
(* The server implements WindowsMirror: whenever a client joins, leaves or *)
(* stops reading, its copy is led from one published list to the next.     *)
(***************************************************************************)
THEOREM ServerImplementsMirror == ASSUME ~Recycle PROVE Spec => ImplementsMirror
<1>1. Mirrored /\ [Next]_vars => [Mirror!Next]_(Mirror!vars)
  BY MirrorStep DEF Moves
<1> QED
  BY MirroredAlways, MirrorStart, <1>1, PTL DEF Spec, ImplementsMirror, Mirror!Spec
=============================================================================
