----------------------------- MODULE MainWindow -----------------------------
(***************************************************************************)
(* The client's windows and what they list: a ConnectDialog makes each     *)
(* Connection and gives it to MainWindow when it is connected;             *)
(* ServerListModel has a row per Connection and AppList a row per App.     *)
(* Rows hold pointers, and objects are deleted later than they are         *)
(* forgotten, by events posted to the loop in order.  What a Connection    *)
(* does with the messages of its server is in Session; here it makes, has  *)
(* and forgets App objects.                                                *)
(***************************************************************************)
EXTENDS Naturals, Sequences, FiniteSets

CONSTANTS
  Conn,   \* Connection objects, one for each ConnectDialog
  App,    \* App objects; both sets bound what exists at once
  NONE

ASSUME NoneAssumption == NONE \notin Conn \cup App
ASSUME AppAssumption == IsFiniteSet(App)

VARIABLES
  dialogs,        \* the connections whose ConnectDialog exists
  conn_,          \* those whose dialog still owns them
  sock,           \* state of each socket, "none" if there is no Connection
  apps_,          \* the applications of each Connection
  parent,         \* the parentConn_ of an App, NONE if there is no App
  focused,        \* the App objects that have the focus
  connections_,   \* of MainWindow
  conns_,         \* the rows of ServerListModel
  order_,         \* the rows of AppList
  numConns_, updateTimer_,
  selected,       \* the rows selected in appListView
  label,          \* the number that lblNumFocusedWin shows
  posted          \* objects to be deleted, in the order of deleteLater()

listVars  == <<connections_, conns_, numConns_, updateTimer_>>
appVars   == <<apps_, parent, focused, order_>>
shownVars == <<selected, label>>
vars == <<dialogs, conn_, sock, appVars, listVars, shownVars, posted>>

Dialog(c)     == [dialog |-> c]
Connection(c) == [conn |-> c]
AppObject(a)  == [app |-> a]
Posted == {posted[i] : i \in 1 .. Len(posted)}
SocketState == {"Unconnected", "Connecting", "Connected", "Closing"}

TypeOK ==
  /\ dialogs \subseteq Conn /\ conn_ \subseteq dialogs
  /\ sock \in [Conn -> SocketState \cup {"none"}]
  /\ apps_ \in [Conn -> SUBSET App]
  /\ parent \in [App -> Conn \cup {NONE}]
  /\ focused \subseteq App /\ order_ \subseteq App
  /\ connections_ \subseteq Conn /\ conns_ \subseteq Conn
  /\ numConns_ \in Nat /\ updateTimer_ \in BOOLEAN
  /\ selected \subseteq order_ /\ label \in 0 .. Cardinality(App)
  /\ posted \in Seq({Dialog(c) : c \in Conn} \cup {Connection(c) : c \in Conn}
                      \cup {AppObject(a) : a \in App})

Init ==
  /\ dialogs = {} /\ conn_ = {} /\ sock = [c \in Conn |-> "none"]
  /\ apps_ = [c \in Conn |-> {}] /\ parent = [a \in App |-> NONE]
  /\ focused = {} /\ order_ = {}
  /\ connections_ = {} /\ conns_ = {}
  /\ numConns_ = 0 /\ updateTimer_ = FALSE
  /\ selected = {} /\ label = 0
  /\ posted = << >>

\* The sequence q of deletions after deleteLater() of every object of S, in some
\* order; an object is posted once.
DeleteLater(q, S) ==
  LET new == S \ {q[i] : i \in 1 .. Len(q)}
  IN  {q \o t : t \in {u \in [1 .. Cardinality(new) -> new] :
                         \A i, j \in 1 .. Cardinality(new) : u[i] = u[j] => i = j}}

AppObjects(c) == {AppObject(a) : a \in apps_[c]}

\* appSelectionChanged() counts what can be sent to.
Count(sel) == Cardinality(sel \cap focused)

-----------------------------------------------------------------------------
(* Dialogs *)

\* ConnectDialog() makes a Connection and owns it.
ConnectDialog(c) ==
  /\ dialogs' = dialogs \cup {c} /\ conn_' = conn_ \cup {c}
  /\ sock' = [sock EXCEPT ![c] = "Unconnected"]

AddConnection(c) ==
  /\ sock[c] = "none" /\ c \notin dialogs
  /\ ConnectDialog(c)
  /\ UNCHANGED <<appVars, listVars, shownVars, posted>>

OpenConn(c) ==
  /\ c \in conn_ /\ sock[c] = "Unconnected" /\ Dialog(c) \notin Posted
  /\ sock' = [sock EXCEPT ![c] = "Connecting"]
  /\ UNCHANGED <<dialogs, conn_, appVars, listVars, shownVars, posted>>

Cancel(c) ==
  /\ c \in conn_ /\ Dialog(c) \notin Posted
  /\ posted' \in DeleteLater(posted, {Dialog(c)})
  /\ UNCHANGED <<dialogs, conn_, sock, appVars, listVars, shownVars>>

\* addConnection() of the two lists; that of AppList does not count.
ServerListAddConnection(c) == conns_' = conns_ \cup {c}

AppListAddConnection(c) ==
  order_' = order_ \cup apps_[c] /\ updateTimer_' = TRUE /\ UNCHANGED numConns_

\* The dialog accepts: giveConnection(), connectionAdded().  A dialog that has
\* given its Connection has no more to give.
Accept(c) ==
  IF c \in conn_
    THEN /\ conn_' = conn_ \ {c}
         /\ connections_' = connections_ \cup {c}
         /\ ServerListAddConnection(c) /\ AppListAddConnection(c)
         /\ posted' \in DeleteLater(posted, {Dialog(c)})
    ELSE UNCHANGED <<conn_, order_, listVars, posted>>

\* A connection that was started after its deletion was posted comes too late:
\* an iteration of the loop begins with the posted events.
Connected(c) ==
  /\ sock[c] = "Connecting" /\ Connection(c) \notin Posted
  /\ sock' = [sock EXCEPT ![c] = "Connected"]
  /\ Accept(c)
  /\ UNCHANGED <<dialogs, apps_, parent, focused, shownVars>>

-----------------------------------------------------------------------------
(* A Connection *)

\* Mutant: forgets its applications without deleting them.
ResetWithoutDelete(c) ==
  /\ apps_' = [apps_ EXCEPT ![c] = {}]
  /\ UNCHANGED posted

\* reset(), on `stopped`
Reset(c) ==
  /\ posted' \in DeleteLater(posted, AppObjects(c))
  /\ apps_' = [apps_ EXCEPT ![c] = {}]

Disconnected(c) ==
  /\ sock[c] \in {"Connecting", "Connected", "Closing"}
  /\ sock' = [sock EXCEPT ![c] = "Unconnected"]
  /\ Reset(c)
  /\ UNCHANGED <<dialogs, conn_, parent, focused, order_, listVars, shownVars>>

\* createApp(), AppList::addApp(); rowsInserted refreshes the label.
CreateApp(c, a) ==
  /\ sock[c] = "Connected" /\ parent[a] = NONE
  /\ apps_' = [apps_ EXCEPT ![c] = @ \cup {a}]
  /\ parent' = [parent EXCEPT ![a] = c]
  /\ order_' = order_ \cup {a}
  /\ label' = Count(selected)
  /\ UNCHANGED <<dialogs, conn_, sock, focused, listVars, selected, posted>>

DestroyApp(c, a) ==
  /\ sock[c] = "Connected" /\ a \in apps_[c]
  /\ focused' = focused \ {a}
  /\ apps_' = [apps_ EXCEPT ![c] = @ \ {a}]
  /\ posted' \in DeleteLater(posted, {AppObject(a)})
  /\ UNCHANGED <<dialogs, conn_, sock, parent, order_, listVars, shownVars>>

SetFocusedApp(c, S) ==
  /\ sock[c] = "Connected" /\ S \subseteq apps_[c] /\ Cardinality(S) <= 1
  /\ focused' = (focused \ apps_[c]) \cup S
  /\ UNCHANGED <<dialogs, conn_, sock, apps_, parent, order_, listVars, shownVars, posted>>

-----------------------------------------------------------------------------
(* MainWindow: the buttons and the selections *)

\* close(): the socket waits when it is connecting or has bytes to write.
AfterClose(s) ==
  CASE s = "Connected"  -> {"Unconnected", "Closing"}
    [] s = "Connecting" -> {"Closing"}
    [] OTHER            -> {s}

\* Mutants: deleteLater() comes before close(); connections_ keeps the pointer.
RemoveConnectionFirst(c) ==
  /\ c \in conns_
  /\ \E s \in AfterClose(sock[c]) : sock' = [sock EXCEPT ![c] = s]
  /\ \E q \in DeleteLater(posted, {Connection(c)}) :
       posted' \in DeleteLater(q, AppObjects(c))
  /\ apps_' = [apps_ EXCEPT ![c] = {}]
  /\ connections_' = connections_ \ {c}
  /\ UNCHANGED <<dialogs, conn_, parent, focused, order_, conns_, numConns_,
                 updateTimer_, shownVars>>

RemoveConnectionKept(c) ==
  /\ c \in conns_
  /\ \E s \in AfterClose(sock[c]) : sock' = [sock EXCEPT ![c] = s]
  /\ \E q \in DeleteLater(posted, AppObjects(c)) :
       posted' \in DeleteLater(q, {Connection(c)})
  /\ apps_' = [apps_ EXCEPT ![c] = {}]
  /\ UNCHANGED <<dialogs, conn_, parent, focused, order_, listVars, shownVars>>

\* close() resets the Connection, whose objects are then posted before itself.
RemoveConnection(c) ==
  /\ c \in conns_
  /\ \E s \in AfterClose(sock[c]) : sock' = [sock EXCEPT ![c] = s]
  /\ \E q \in DeleteLater(posted, AppObjects(c)) :
       posted' \in DeleteLater(q, {Connection(c)})
  /\ apps_' = [apps_ EXCEPT ![c] = {}]
  /\ connections_' = connections_ \ {c}
  /\ UNCHANGED <<dialogs, conn_, parent, focused, order_, conns_, numConns_,
                 updateTimer_, shownVars>>

ReconnectSelected(c) ==
  /\ c \in conns_
  /\ \E s \in AfterClose(sock[c]) :
       sock' = [sock EXCEPT ![c] = IF s = "Unconnected" THEN "Connecting" ELSE s]
  /\ Reset(c)
  /\ UNCHANGED <<dialogs, conn_, parent, focused, order_, listVars, shownVars>>

\* The label follows the selection of the other list, not of this one.
Select(S) ==
  /\ selected' = S
  /\ UNCHANGED <<dialogs, conn_, sock, appVars, listVars, label, posted>>

\* updateTimer_, focusTimeColumnChanged(); dataChanged refreshes the label.
UpdateTimeout ==
  /\ updateTimer_
  /\ label' = Count(selected)
  /\ UNCHANGED <<dialogs, conn_, sock, appVars, listVars, selected, posted>>

-----------------------------------------------------------------------------
(* Deferred deletions *)

\* ~App(); AppList::removeApp(); rowsRemoved refreshes the label.
DeleteApp(a) ==
  /\ parent' = [parent EXCEPT ![a] = NONE]
  /\ focused' = focused \ {a} /\ order_' = order_ \ {a}
  /\ selected' = selected \ {a} /\ label' = Cardinality(selected' \cap focused)
  /\ UNCHANGED <<dialogs, conn_, sock, apps_, listVars>>

\* ~ConnectDialog() deletes the Connection that it still owns.
DeleteDialog(c) ==
  /\ dialogs' = dialogs \ {c} /\ conn_' = conn_ \ {c}
  /\ sock' = [sock EXCEPT ![c] = IF c \in conn_ THEN "none" ELSE @]
  /\ UNCHANGED <<appVars, listVars, shownVars>>

\* Mutants: the test for 0 is gone; the timer stops with the first connection.
DecreaseBelowZero ==
  /\ numConns_' = numConns_ - 1
  /\ UNCHANGED updateTimer_

DecreaseStopsTimer == updateTimer_' = FALSE /\ UNCHANGED numConns_

\* numConns_ counts down to 0 only from more.
DecreaseConnCount ==
  IF numConns_ = 0 THEN UNCHANGED <<numConns_, updateTimer_>>
  ELSE numConns_' = numConns_ - 1 /\ updateTimer_' = (updateTimer_ /\ numConns_ > 1)

\* Mutant: ServerListModel does not hear of `destroyed`.
DeleteConnectionUnheard(c) ==
  /\ sock' = [sock EXCEPT ![c] = "none"]
  /\ apps_' = [apps_ EXCEPT ![c] = {}]
  /\ DecreaseConnCount
  /\ UNCHANGED <<dialogs, conn_, parent, focused, order_, conns_, connections_, shownVars>>

\* ~Connection() leaves its App objects alone; `destroyed` goes to both lists.
DeleteConnection(c) ==
  /\ sock' = [sock EXCEPT ![c] = "none"]
  /\ apps_' = [apps_ EXCEPT ![c] = {}]
  /\ conns_' = conns_ \ {c}
  /\ DecreaseConnCount
  /\ UNCHANGED <<dialogs, conn_, parent, focused, order_, connections_, shownVars>>

DeleteNext ==
  /\ posted # << >> /\ posted' = Tail(posted)
  /\ \/ \E a \in App  : Head(posted) = AppObject(a) /\ DeleteApp(a)
     \/ \E c \in Conn : Head(posted) = Dialog(c) /\ DeleteDialog(c)
     \/ \E c \in Conn : Head(posted) = Connection(c) /\ DeleteConnection(c)

Next ==
  \/ \E c \in Conn :
       \/ AddConnection(c) \/ OpenConn(c) \/ Cancel(c) \/ Connected(c) \/ Disconnected(c)
       \/ RemoveConnection(c) \/ ReconnectSelected(c)
       \/ \E a \in App : CreateApp(c, a) \/ DestroyApp(c, a)
       \/ \E S \in SUBSET apps_[c] : SetFocusedApp(c, S)
  \/ \E S \in SUBSET order_ : Select(S)
  \/ UpdateTimeout \/ DeleteNext

Spec == Init /\ [][Next]_vars

\* The loop comes to every posted event and to the timer.
FairSpec == Spec /\ WF_vars(DeleteNext) /\ WF_vars(UpdateTimeout)

-----------------------------------------------------------------------------
(* Properties *)

\* Every row of AppList shows an App that exists and whose Connection, which
\* data() asks for its address, exists too; every row of ServerListModel shows
\* a Connection that exists, and so does the socket a dialog's widget shows.
NoDanglingRows ==
  /\ \A a \in order_ : parent[a] # NONE /\ sock[parent[a]] # "none"
  /\ \A c \in conns_ \cup connections_ \cup dialogs : sock[c] # "none"

\* Every Connection is in exactly one hand: its dialog's, MainWindow's, or that
\* of the loop, which will delete it; none is lost, none is owned twice.
OneOwner ==
  \A c \in Conn : sock[c] # "none" =>
    Cardinality({h \in {"dialog", "window", "loop"} :
                   \/ h = "dialog" /\ c \in conn_
                   \/ h = "window" /\ c \in connections_
                   \/ h = "loop" /\ Connection(c) \in Posted}) = 1

\* The two lists show what MainWindow has and, until it is deleted, what it had.
RowsFollow ==
  /\ conns_ = connections_ \cup {c \in Conn : Connection(c) \in Posted}
  /\ order_ = (UNION {apps_[c] : c \in Conn}) \cup {a \in App : AppObject(a) \in Posted}

\* However selections and the focus change, the label comes to tell the number
\* of selected applications that have the focus: it depends on the timer.
LabelCatchesUp == []<>(label = Count(selected))

\* A connection that was removed leaves both lists, with its applications.
RemovedLeaves ==
  \A c \in Conn : Connection(c) \in Posted ~> c \notin conns_ /\ c \notin connections_
=============================================================================
