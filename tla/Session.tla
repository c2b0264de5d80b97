------------------------------ MODULE Session ------------------------------
(***************************************************************************)
(* The client's side of one server: a Connection, the ClientProtocol and   *)
(* the QTcpSocket it owns, its App objects, and the rows that AppList has  *)
(* for them.  The client is one event loop, so an action is one handler,   *)
(* with every slot that its signals call.  QTcpSocket and the server are   *)
(* external.  An App that leaves apps_ is deleted later: until then its    *)
(* row stays and can be selected.                                          *)
(***************************************************************************)
EXTENDS Naturals, Sequences, FiniteSets

CONSTANTS
  Window,           \* identifiers of windows of the server
  Object,           \* App objects; bounds those alive and doomed at once
  NONE,             \* no object; INVALID_ID
  INVALID_REQUEST,  \* the identifier never given to a request, 2^32 - 1
  MaxRequests,      \* bounds the keystrokes the user ever asks for
  MaxInFlight,      \* bounds the messages under way when an event is told
  MaxEarly          \* the same, of a client that is not greeted yet

ASSUME NoneAssumption == NONE \notin Window \cup Object
ASSUME RequestAssumption ==
  INVALID_REQUEST \in Nat \ {0} /\ MaxRequests \in Nat /\ MaxRequests <= INVALID_REQUEST

Request == 1 .. MaxRequests
Id == 0 .. INVALID_REQUEST - 1

VARIABLES
  (* QTcpSocket *)
  sock, pendingClose,
  (* ClientProtocol *)
  state_, last_id_, pending_reqs_,
  (* Connection, and whether MainWindow has it *)
  apps_, focusedApp_, given,
  (* App objects, AppList::order_ as a set, deletions posted to the loop *)
  focused, rows, doomed,
  (* the event loop is in readyRead() for ever *)
  hung,
  (* the server, and the two directions of the connection *)
  windows, onFocus, served, toServer, toClient,
  (* history: requests so far, those on this connection, and their answers *)
  asked, live, reply

sockVars    == <<sock, pendingClose>>
requestVars == <<last_id_, pending_reqs_, asked, live, reply>>
viewVars    == <<apps_, focusedApp_, focused, rows, doomed>>
serverVars  == <<windows, onFocus>>
wireVars    == <<served, toServer, toClient>>
vars == <<sockVars, state_, requestVars, viewVars, given, hung, serverVars, wireVars>>

Apps == {apps_[w] : w \in Window} \ {NONE}
Message == [kind : {"list"}, arg : SUBSET Window]
             \cup [kind : {"created", "destroyed"}, arg : Window]
             \cup [kind : {"got_focus"}, arg : Window \cup {NONE}]
             \cup [kind : {"response"}, arg : Id \X Request]

TypeOK ==
  /\ sock \in {"Unconnected", "Connecting", "Connected", "Closing"}
  /\ pendingClose \in BOOLEAN
  /\ state_ \in {"Stopped", "Init", "AcceptingEvents"}
  /\ last_id_ \in Id
  /\ pending_reqs_ \in [Id -> Request \cup {0}]
  /\ apps_ \in [Window -> Object \cup {NONE}]
  /\ focusedApp_ \in Window \cup {NONE}
  /\ given \in BOOLEAN
  /\ focused \subseteq Object /\ rows \subseteq Object /\ doomed \subseteq Object
  /\ windows \subseteq Window /\ onFocus \in Window \cup {NONE}
  /\ served \in {"pending", "active", "early", "greeted", "late"} /\ hung \in BOOLEAN
  /\ toServer \in Seq(Id \X Request) /\ toClient \in Seq(Message)
  /\ asked \in 0 .. MaxRequests /\ live \subseteq Request
  /\ reply \in [Request -> Request \cup {0}]

\* ClientProtocol(), setSocket() of a socket that is not open
ProtocolInit ==
  state_ = "Stopped" /\ last_id_ = 0 /\ pending_reqs_ = [i \in Id |-> 0]

\* A ConnectDialog has made the Connection; its socket is not connected.
Init ==
  /\ sock = "Unconnected" /\ pendingClose = FALSE
  /\ ProtocolInit
  /\ apps_ = [w \in Window |-> NONE] /\ focusedApp_ = NONE /\ given = FALSE
  /\ focused = {} /\ rows = {} /\ doomed = {}
  /\ windows \in SUBSET Window /\ onFocus \in windows \cup {NONE}
  /\ served = "pending" /\ hung = FALSE /\ toServer = << >> /\ toClient = << >>
  /\ asked = 0 /\ live = {} /\ reply = [n \in Request |-> 0]

-----------------------------------------------------------------------------
(* The socket, and the handlers of its signals *)

\* The event loop comes to a handler, unless it is in one for ever.
Running == ~hung /\ UNCHANGED hung

\* start(), on `connected`
Start == state_' = "Init"

\* Mutant: forgets its applications without deleting them.
ResetWithoutDelete ==
  /\ apps_' = [w \in Window |-> NONE]
  /\ focusedApp_' = NONE
  /\ UNCHANGED <<focused, rows, doomed>>

\* Connection::reset(), on `stopped`; the objects keep their focused_.
Reset ==
  /\ doomed' = doomed \cup Apps
  /\ apps_' = [w \in Window |-> NONE]
  /\ focusedApp_' = NONE
  /\ UNCHANGED <<focused, rows>>

\* Mutant: does not emit stopped().
HardStopSilently ==
  state_' = "Stopped" /\ UNCHANGED viewVars

\* hardStop(), on `aboutToClose` (by way of stop()) and on `disconnected`.
HardStop ==
  IF state_ = "Stopped" THEN UNCHANGED <<state_, viewVars>>
                        ELSE state_' = "Stopped" /\ Reset

\* What ends with a connection, at the other end and on the wire.
Hangup ==
  /\ served' = "pending" /\ toClient' = << >> /\ live' = {}
  /\ UNCHANGED <<last_id_, pending_reqs_, asked, reply>>

\* connectToHost() does nothing but warn unless the socket is Unconnected.
OpenConn ==
  /\ Running /\ ~given /\ sock = "Unconnected"
  /\ sock' = "Connecting" /\ toServer' = << >>
  /\ UNCHANGED <<pendingClose, state_, requestVars, viewVars, given, serverVars,
                 served, toClient>>

\* stateChanged(), on which the dialog gives the Connection away; connected();
\* and, when close() was called meanwhile, disconnected() at once.
Connected ==
  /\ Running /\ sock = "Connecting"
  /\ given' = TRUE
  /\ pendingClose' = FALSE
  /\ IF pendingClose
       THEN sock' = "Unconnected" /\ toServer' = << >> /\ Hangup /\ UNCHANGED state_
       ELSE sock' = "Connected" /\ Start /\ UNCHANGED <<requestVars, wireVars>>
  /\ UNCHANGED <<viewVars, serverVars>>

\* Refused, timed out, closed by the server, or all is written after a close().
Disconnected ==
  /\ Running /\ sock # "Unconnected"
  /\ sock' = "Unconnected" /\ pendingClose' = FALSE /\ toServer' = << >>
  /\ HardStop /\ Hangup
  /\ UNCHANGED <<given, serverVars>>

\* close(), then connectToHost(): it comes to nothing when the socket waits to
\* be closed, because it was still connecting or has bytes to write.
ReconnectSelected ==
  /\ Running /\ given
  /\ \/ /\ sock = "Unconnected"
        /\ sock' = "Connecting" /\ toServer' = << >>
        /\ UNCHANGED <<pendingClose, state_, viewVars, requestVars, served, toClient>>
     \/ /\ sock = "Connecting"
        /\ pendingClose' = TRUE
        /\ toServer' = << >> /\ Hangup
        /\ UNCHANGED <<sock, state_, viewVars>>
     \/ /\ sock = "Connected"
        /\ HardStop /\ Hangup
        /\ \/ sock' = "Connecting" /\ toServer' = << >>
           \/ toServer # << >> /\ sock' = "Closing" /\ UNCHANGED toServer
        /\ UNCHANGED pendingClose
  /\ UNCHANGED <<given, serverVars>>

\* The event loop comes to a deleteLater(); `destroyed` takes the row away.
DeleteApp(o) ==
  /\ Running /\ o \in doomed
  /\ doomed' = doomed \ {o} /\ rows' = rows \ {o} /\ focused' = focused \ {o}
  /\ UNCHANGED <<sockVars, state_, requestVars, apps_, focusedApp_, given,
                 serverVars, wireVars>>

-----------------------------------------------------------------------------
(* readyRead() and receiveMessage(): the messages of the server *)

Kind == Head(toClient).kind
Arg  == Head(toClient).arg

\* Field 1 of a message: `apps` of an AppList, `destroyed` of an Event.
FieldOne == CASE Kind = "list"      -> Arg
              [] Kind = "destroyed" -> {Arg}
              [] OTHER              -> {}

\* The list of no windows has no bytes.
NoBytes == Kind = "list" /\ Arg = {}

Take ==
  /\ Running /\ sock = "Connected" /\ toClient # << >> /\ ~NoBytes
  /\ toClient' = Tail(toClient)
  /\ UNCHANGED <<sockVars, given, serverVars, served, toServer>>

\* read() of the 0 bytes that remain returns 0, and more bytes are available:
\* those of the focus, which always follow.
Spin ==
  /\ ~hung /\ sock = "Connected" /\ toClient # << >> /\ NoBytes
  /\ hung' = TRUE
  /\ UNCHANGED <<sockVars, state_, requestVars, viewVars, given, serverVars, wireVars>>

\* App(), appCreated(), AppList::addApp(): a new object and row for each window
\* of S; the map keeps the entries `others`.
CreateAll(S, others) ==
  \E new \in [S -> Object \ rows] :
    /\ \A v, w \in S : new[v] = new[w] => v = w
    /\ apps_' = [w \in Window |-> IF w \in S THEN new[w] ELSE others[w]]
    /\ rows' = rows \cup {new[w] : w \in S}

\* setAppList(): reset(), and createApp() for each window.  The first message
\* is parsed as an AppList whatever it is.
ReceiveList ==
  /\ state_ = "Init" /\ Take
  /\ state_' = "AcceptingEvents"
  /\ CreateAll(FieldOne, [w \in Window |-> NONE])
  /\ doomed' = doomed \cup Apps /\ focusedApp_' = NONE
  /\ UNCHANGED <<requestVars, focused>>

\* createApp(): resetFromMessage() if the window is known.
ReceiveCreated ==
  /\ state_ = "AcceptingEvents" /\ Take /\ Kind = "created"
  /\ IF apps_[Arg] = NONE
       THEN CreateAll({Arg}, apps_) /\ UNCHANGED focused
       ELSE focused' = focused \ {apps_[Arg]} /\ UNCHANGED <<apps_, rows>>
  /\ UNCHANGED <<state_, requestVars, focusedApp_, doomed>>

\* A list that comes late is parsed as an Event: `destroyed` is its last window.
ReceiveDestroyed(w) ==
  /\ state_ = "AcceptingEvents" /\ Take /\ w \in FieldOne
  /\ focused' = focused \ {apps_[w]}
  /\ doomed' = doomed \cup ({apps_[w]} \ {NONE})
  /\ apps_' = [apps_ EXCEPT ![w] = NONE]
  /\ UNCHANGED <<state_, requestVars, focusedApp_, rows>>

\* Mutant: the application that had the focus keeps it.
ReceiveFocusKeepingOld ==
  /\ state_ = "AcceptingEvents" /\ Take /\ Kind = "got_focus"
  /\ LET app(w) == IF w \in Window THEN {apps_[w]} \ {NONE} ELSE {} IN
       /\ focused' = focused \cup app(Arg)
       /\ focusedApp_' = IF app(Arg) = {} THEN NONE ELSE Arg
  /\ UNCHANGED <<state_, requestVars, apps_, rows, doomed>>

ReceiveFocus ==
  /\ state_ = "AcceptingEvents" /\ Take /\ Kind = "got_focus"
  /\ LET app(w) == IF w \in Window THEN {apps_[w]} \ {NONE} ELSE {} IN
       /\ focused' = (focused \ app(focusedApp_)) \cup app(Arg)
       /\ focusedApp_' = IF app(Arg) = {} THEN NONE ELSE Arg
  /\ UNCHANGED <<state_, requestVars, apps_, rows, doomed>>

\* An answer is for whatever request waits under its identifier.
ReceiveResponse ==
  /\ state_ = "AcceptingEvents" /\ Take /\ Kind = "response"
  /\ LET id == Arg[1]
         n == pending_reqs_[id]
     IN  IF n = 0 THEN UNCHANGED <<pending_reqs_, reply, live>>
         ELSE /\ pending_reqs_' = [pending_reqs_ EXCEPT ![id] = 0]
              /\ reply' = [reply EXCEPT ![n] = Arg[2]]
              /\ live' = live \ {n}
  /\ UNCHANGED <<state_, last_id_, asked, viewVars>>

ReceiveMessage ==
  \/ Spin \/ ReceiveList \/ ReceiveCreated \/ ReceiveFocus \/ ReceiveResponse
  \/ \E w \in Window : ReceiveDestroyed(w)

-----------------------------------------------------------------------------
(* sendKeystroke() for a selected row, and sendRequest() *)

\* Mutants: INVALID_REQUEST is not skipped; the counter is never stored.
NextIdWithInvalid(i) == i + 1
NextIdUnstored(i) == 1

NextId(i) == IF i + 1 = INVALID_REQUEST THEN 0 ELSE i + 1

Writable == sock = "Connected" \/ (sock = "Connecting" /\ ~pendingClose)


\* A request that cannot be written is pending all the same; emplace() leaves
\* a request that has the identifier already.
SendKeystroke(o) ==
  /\ Running /\ o \in rows /\ o \in focused /\ asked < MaxRequests
  /\ LET id == NextId(last_id_) IN
       /\ last_id_' = id
       /\ asked' = asked + 1
       /\ toServer' = IF Writable THEN Append(toServer, <<id, asked + 1>>) ELSE toServer
       /\ live' = IF Writable THEN live \cup {asked + 1} ELSE live
       /\ pending_reqs_' = [pending_reqs_ EXCEPT ![id] = IF @ = 0 THEN asked + 1 ELSE @]
  /\ UNCHANGED <<sockVars, state_, reply, viewVars, given, serverVars, served, toClient>>

-----------------------------------------------------------------------------
(* The server: what PdsServer does for a client, on one connection at a time *)

Say(kind, arg) == [kind |-> kind, arg |-> arg]

ServerStep ==
  UNCHANGED <<sockVars, state_, requestVars, viewVars, given, hung>>

Greeted == served \in {"greeted", "late"}

\* addClient(): from now on the client is told of events.
Join ==
  /\ sock = "Connected" /\ served = "pending" /\ served' = "active"
  /\ ServerStep /\ UNCHANGED <<serverVars, toServer, toClient>>

\* sendProcessList(): the list, which may be empty, and the focus.
Greet ==
  /\ \/ served = "active" /\ served' = "greeted"
     \/ served = "early" /\ served' = "late"
  /\ toClient' = toClient \o <<Say("list", windows), Say("got_focus", onFocus)>>
  /\ ServerStep /\ UNCHANGED <<serverVars, toServer>>

\* sendMessage() to every client of active, greeted or not; what is told to one
\* that hangs is never read.
Tell(m) ==
  /\ IF served = "pending" \/ hung
       THEN UNCHANGED <<served, toClient>>
       ELSE /\ Len(toClient) < IF Greeted THEN MaxInFlight ELSE MaxEarly
            /\ toClient' = Append(toClient, m)
            /\ served' = IF served = "active" THEN "early" ELSE served
  /\ ServerStep /\ UNCHANGED toServer

Opens(w)  == w \notin windows /\ windows' = windows \cup {w}
               /\ Tell(Say("created", w)) /\ UNCHANGED onFocus
\* The foreground window may be closed with no other to take its place.
Closes(w) == w \in windows /\ windows' = windows \ {w}
               /\ Tell(Say("destroyed", w)) /\ UNCHANGED onFocus
Focuses(w) == w \in windows \cup {NONE} /\ w # onFocus /\ onFocus' = w
               /\ Tell(Say("got_focus", w)) /\ UNCHANGED windows

\* readMessage(), which is called after the greeting.  Until close() every
\* request is answered; after it nobody reads the answers.
Answers ==
  /\ toServer # << >>
  /\ \/ Greeted /\ toClient' = Append(toClient, Say("response", Head(toServer)))
     \/ sock = "Closing" /\ UNCHANGED toClient
  /\ toServer' = Tail(toServer)
  /\ ServerStep /\ UNCHANGED <<serverVars, served>>

Next ==
  \/ OpenConn \/ Connected \/ Disconnected \/ ReconnectSelected
  \/ ReceiveMessage
  \/ \E o \in Object : DeleteApp(o) \/ SendKeystroke(o)
  \/ Join \/ Greet \/ Answers
  \/ \E w \in Window : Opens(w) \/ Closes(w)
  \/ \E w \in Window \cup {NONE} : Focuses(w)

Spec == Init /\ [][Next]_vars

(***************************************************************************)
(* While there are messages to receive or deletions to make, the event     *)
(* loop comes to one of them.  Nothing is assumed of the server, where a   *)
(* worker may be busy, or wait in a lock cycle, for ever.                  *)
(***************************************************************************)
Fairness == WF_vars(ReceiveMessage \/ \E o \in Object : DeleteApp(o))

FairSpec == Spec /\ Fairness

-----------------------------------------------------------------------------
(* Properties *)

\* AppList has one row for each App of the Connection and for each App that
\* waits to be deleted, and no App is both: not across lists, events and
\* reconnections, however late the deletions come.
RowsAreApps ==
  /\ rows = Apps \cup doomed
  /\ Apps \cap doomed = {}
  /\ \A v, w \in Window : apps_[v] = apps_[w] => v = w \/ apps_[v] = NONE

\* A protocol is started exactly while its socket is connected, and a stopped
\* one has left no application of the old session behind.
StoppedIsEmpty ==
  /\ (state_ = "Stopped") = (sock # "Connected")
  /\ state_ = "Stopped" => Apps = {} /\ focusedApp_ = NONE

\* When a client to which the list was the first that the server said has
\* received every message, the Connection has exactly the windows of the server,
\* and shows the focus on none but the one that has it.  It is not so of one that
\* was told of an event before its list: it takes the event for the list, and
\* the list for an event.  One that was greeted with an empty list never comes
\* to the messages that follow it.
ViewFollows ==
  (served = "greeted" /\ toClient = << >>) =>
    /\ {w \in Window : apps_[w] # NONE} = windows
    /\ focused \ doomed \subseteq {apps_[w] : w \in windows \cap {onFocus}}

\* A request gets its own answer at most once; one that was lost with its
\* session is never taken for answered by a response of a later session.
R == INSTANCE Requests WITH
  status <- [n \in Request |-> IF n > asked THEN "new"
                               ELSE IF reply[n] # 0 THEN "answered"
                               ELSE IF n \in live THEN "asked" ELSE "lost"]
ImplementsRequests == R!Spec

\* A request whose answer is on its way gets it, whatever was sent before that
\* answer, or ends with its connection, unless the client hangs.
Replied(n) ==
  \E i \in DOMAIN toClient : toClient[i].kind = "response" /\ toClient[i].arg[2] = n

=============================================================================
