---------------------------- MODULE SessionProofs ----------------------------
(***************************************************************************)
(* Proofs about the client's side of one server, for any windows, any      *)
(* number of App objects and any range of request identifiers.             *)
(***************************************************************************)
EXTENDS Session, TLAPS

\* Messages have the arguments of their kind.
LEMMA Arguments ==
  ASSUME TypeOK, toClient # << >>
  PROVE  /\ Kind = "created" => Arg \in Window
         /\ Kind = "got_focus" => Arg \in Window \cup {NONE}
         /\ Kind = "response" => Arg \in Id \X Request
         /\ FieldOne \subseteq Window
         /\ Tail(toClient) \in Seq(Message)
<1>1. Head(toClient) \in Message /\ Tail(toClient) \in Seq(Message)
  BY DEF TypeOK
<1> QED
  BY <1>1 DEF Message, Kind, Arg, FieldOne

LEMMA Says ==
  /\ \A S \in SUBSET Window : Say("list", S) \in Message
  /\ \A w \in Window : Say("created", w) \in Message /\ Say("destroyed", w) \in Message
  /\ \A w \in Window \cup {NONE} : Say("got_focus", w) \in Message
  /\ \A r \in Id \X Request : Say("response", r) \in Message
BY DEF Say, Message

\* The identifier after another is a valid one.
LEMMA NextIdIsId ==
  ASSUME NEW i \in Id
  PROVE  NextId(i) \in Id
BY RequestAssumption DEF Id, NextId

\* The objects that are made are new.
LEMMA CreateAllTypes ==
  ASSUME NEW S, S \subseteq Window, NEW others \in [Window -> Object \cup {NONE}],
         TypeOK, CreateAll(S, others)
  PROVE  apps_' \in [Window -> Object \cup {NONE}] /\ rows' \subseteq Object
BY DEF CreateAll, TypeOK

LEMMA TypeStep ==
  ASSUME TypeOK, [Next]_vars
  PROVE  TypeOK'
<1> USE RequestAssumption
    DEF TypeOK, sockVars, requestVars, viewVars, serverVars, wireVars, Running
<1>0. /\ Apps \subseteq Object
      /\ << >> \in Seq(Message) /\ << >> \in Seq(Id \X Request)
      /\ \A m \in Message : Append(toClient, m) \in Seq(Message)
  BY DEF Apps
<1>1. CASE OpenConn
  BY <1>1 DEF OpenConn
<1>2. CASE Connected
  BY <1>0, <1>2 DEF Connected, Hangup, Start
<1>3. CASE Disconnected
  BY <1>0, <1>3 DEF Disconnected, HardStop, Reset, Hangup
<1>4. CASE ReconnectSelected
  BY <1>0, <1>4 DEF ReconnectSelected, HardStop, Reset, Hangup
<1>5. CASE ReceiveList
  <2>1. FieldOne \subseteq Window /\ Tail(toClient) \in Seq(Message)
    BY <1>5, Arguments DEF ReceiveList, Take
  <2>2. apps_' \in [Window -> Object \cup {NONE}] /\ rows' \subseteq Object
    BY <1>5, <2>1, CreateAllTypes DEF ReceiveList
  <2> QED
    BY <1>0, <1>5, <2>1, <2>2 DEF ReceiveList, Take
<1>6. CASE ReceiveCreated
  <2>1. Arg \in Window /\ Tail(toClient) \in Seq(Message)
    BY <1>6, Arguments DEF ReceiveCreated, Take
  <2>2. apps_' \in [Window -> Object \cup {NONE}] /\ rows' \subseteq Object
    BY <1>6, <2>1, CreateAllTypes DEF ReceiveCreated
  <2> QED
    BY <1>6, <2>1, <2>2 DEF ReceiveCreated, Take
<1>7. ASSUME NEW w \in Window, ReceiveDestroyed(w) PROVE TypeOK'
  <2>1. Tail(toClient) \in Seq(Message)
    BY <1>7, Arguments DEF ReceiveDestroyed, Take
  <2> QED
    BY <1>7, <2>1 DEF ReceiveDestroyed, Take
<1>8. CASE ReceiveFocus
  <2>1. Arg \in Window \cup {NONE} /\ Tail(toClient) \in Seq(Message)
    BY <1>8, Arguments DEF ReceiveFocus, Take
  <2>2. \A w : (IF w \in Window THEN {apps_[w]} \ {NONE} ELSE {}) \subseteq Object
    OBVIOUS
  <2> QED
    BY <1>8, <2>1, <2>2 DEF ReceiveFocus, Take
<1>9. CASE ReceiveResponse
  <2>1. Arg \in Id \X Request /\ Tail(toClient) \in Seq(Message)
    BY <1>9, Arguments DEF ReceiveResponse, Take
  <2>2. Arg[1] \in Id /\ Arg[2] \in Request /\ pending_reqs_[Arg[1]] \in Request \cup {0}
    BY <2>1
  <2> QED
    BY <1>9, <2>1, <2>2 DEF ReceiveResponse, Take
<1>10. ASSUME NEW o \in Object, DeleteApp(o) PROVE TypeOK'
  BY <1>10 DEF DeleteApp
<1>11. ASSUME NEW o \in Object, SendKeystroke(o) PROVE TypeOK'
  <2>1. NextId(last_id_) \in Id /\ asked + 1 \in Request /\ asked + 1 \in 0 .. MaxRequests
    BY <1>11, NextIdIsId DEF SendKeystroke, Request
  <2> QED
    BY <1>11, <2>1 DEF SendKeystroke
<1>12. CASE Join \/ Greet
  <2>1. Say("list", windows) \in Message /\ Say("got_focus", onFocus) \in Message
    BY Says
  <2>2. toClient \o <<Say("list", windows), Say("got_focus", onFocus)>> \in Seq(Message)
    BY <2>1
  <2> QED
    BY <1>12, <2>2 DEF Join, Greet, ServerStep
<1>13. CASE Answers
  <2>1. Say("response", Head(toServer)) \in Message /\ Tail(toServer) \in Seq(Id \X Request)
    BY <1>13, Says DEF Answers
  <2> QED
    BY <1>0, <1>13, <2>1 DEF Answers, ServerStep
<1>14. ASSUME NEW w \in Window, Opens(w) \/ Closes(w) PROVE TypeOK'
  <2>1. Say("created", w) \in Message /\ Say("destroyed", w) \in Message
    BY Says
  <2>2. toClient' \in Seq(Message)
    BY <1>0, <1>14, <2>1 DEF Opens, Closes, Tell
  <2> QED
    BY <1>14, <2>2 DEF Opens, Closes, Tell, ServerStep
<1>15. ASSUME NEW w \in Window \cup {NONE}, Focuses(w) PROVE TypeOK'
  <2>1. Say("got_focus", w) \in Message
    BY Says
  <2>2. toClient' \in Seq(Message)
    BY <1>0, <1>15, <2>1 DEF Focuses, Tell
  <2> QED
    BY <1>15, <2>2 DEF Focuses, Tell, ServerStep
<1>16. CASE Spin \/ UNCHANGED vars
  BY <1>16 DEF Spin, vars
<1> QED
  BY <1>1, <1>2, <1>3, <1>4, <1>5, <1>6, <1>7, <1>8, <1>9, <1>10, <1>11, <1>12, <1>13,
     <1>14, <1>15, <1>16 DEF Next, ReceiveMessage

(***************************************************************************)
(* Every variable keeps its type; in particular INVALID_REQUEST is never   *)
(* the identifier of a request.                                            *)
(***************************************************************************)
THEOREM SessionTypeCorrect == Spec => []TypeOK
<1>1. Init => TypeOK
  <2> SUFFICES ASSUME Init PROVE TypeOK
    OBVIOUS
  <2>1. 0 \in Id /\ last_id_ \in Id /\ pending_reqs_ \in [Id -> Request \cup {0}]
    BY RequestAssumption DEF Init, ProtocolInit, Id
  <2>2. toServer \in Seq(Id \X Request) /\ toClient \in Seq(Message)
    BY DEF Init
  <2>3. asked \in 0 .. MaxRequests /\ live \subseteq Request
        /\ reply \in [Request -> Request \cup {0}]
    BY RequestAssumption DEF Init
  <2> QED
    BY <2>1, <2>2, <2>3 DEF Init, ProtocolInit, TypeOK
<1> QED
  BY <1>1, TypeStep, PTL DEF Spec

-----------------------------------------------------------------------------
(* The rows of AppList, and a stopped protocol *)

ViewInv == RowsAreApps /\ StoppedIsEmpty

\* Steps that leave the objects, the rows, the protocol and the socket alone.
LEMMA ViewIdle ==
  ASSUME ViewInv, UNCHANGED <<apps_, rows, doomed, focusedApp_, state_, sock>>
  PROVE  ViewInv'
BY DEF ViewInv, RowsAreApps, StoppedIsEmpty, Apps

\* reset() makes every row one that waits for its deletion.
LEMMA ResetKeeps ==
  ASSUME TypeOK, RowsAreApps, Reset
  PROVE  RowsAreApps' /\ Apps' = {} /\ focusedApp_' = NONE
BY DEF TypeOK, RowsAreApps, Reset, Apps

\* Whatever stops the protocol leaves it empty.
LEMMA HardStopKeeps ==
  ASSUME TypeOK, ViewInv, HardStop
  PROVE  RowsAreApps' /\ state_' = "Stopped" /\ Apps' = {} /\ focusedApp_' = NONE
<1>1. CASE state_ = "Stopped"
  BY <1>1 DEF HardStop, viewVars, ViewInv, RowsAreApps, StoppedIsEmpty, Apps
<1>2. CASE state_ # "Stopped"
  BY <1>2, ResetKeeps DEF HardStop, ViewInv
<1> QED
  BY <1>1, <1>2

\* New objects join those kept: they are in no row before.
LEMMA CreateAllKeeps ==
  ASSUME TypeOK, RowsAreApps,
         NEW S, S \subseteq Window, NEW others \in [Window -> Object \cup {NONE}],
         \A w \in Window : w \in S \/ others[w] = NONE \/ others[w] = apps_[w],
         \A w \in S : others[w] = NONE,
         CreateAll(S, others),
         doomed' = doomed \cup (Apps \ {others[w] : w \in Window})
  PROVE  RowsAreApps'
<1>1. PICK new \in [S -> Object \ rows] :
         /\ \A v, w \in S : new[v] = new[w] => v = w
         /\ apps_' = [w \in Window |-> IF w \in S THEN new[w] ELSE others[w]]
         /\ rows' = rows \cup {new[w] : w \in S}
  BY DEF CreateAll
<1>2. /\ \A w \in S : apps_'[w] = new[w] /\ new[w] \in Object \ rows /\ new[w] # NONE
      /\ \A w \in Window \ S : apps_'[w] = others[w]
  BY <1>1, NoneAssumption
<1>3. \A w \in Window : others[w] # NONE => w \notin S /\ others[w] = apps_[w]
  OBVIOUS
<1>4. \A w \in Window : others[w] # NONE => others[w] \in Apps
  BY <1>3 DEF Apps
<1>5. Apps' = {new[w] : w \in S} \cup ({others[w] : w \in Window} \ {NONE})
  BY <1>2, <1>3 DEF Apps
<1>6. rows' = Apps' \cup doomed'
  BY <1>1, <1>4, <1>5 DEF RowsAreApps, Apps
<1>7. Apps' \cap doomed' = {}
  BY <1>2, <1>4, <1>5 DEF RowsAreApps
<1>8. \A v, w \in Window : apps_'[v] = apps_'[w] => v = w \/ apps_'[v] = NONE
  <2> SUFFICES ASSUME NEW v \in Window, NEW w \in Window,
                      apps_'[v] = apps_'[w], apps_'[v] # NONE
               PROVE  v = w
    OBVIOUS
  <2>1. CASE v \in S /\ w \in S
    BY <1>1, <1>2, <2>1
  <2>2. CASE v \notin S /\ w \notin S
    BY <1>2, <1>3, <2>2 DEF RowsAreApps
  <2>3. CASE v \in S /\ w \notin S
    BY <1>2, <1>4, <2>3 DEF RowsAreApps
  <2>4. CASE v \notin S /\ w \in S
    BY <1>2, <1>4, <2>4 DEF RowsAreApps
  <2> QED
    BY <2>1, <2>2, <2>3, <2>4
<1> QED
  BY <1>6, <1>7, <1>8 DEF RowsAreApps

LEMMA ViewStep ==
  ASSUME TypeOK, ViewInv, [Next]_vars
  PROVE  ViewInv'
<1> USE DEF sockVars, viewVars, serverVars, wireVars, requestVars
<1>1. CASE OpenConn
  BY <1>1 DEF OpenConn, ViewInv, RowsAreApps, StoppedIsEmpty, Apps
<1>2. CASE Connected
  BY <1>2 DEF Connected, Start, Hangup, ViewInv, RowsAreApps, StoppedIsEmpty, Apps
<1>3. CASE Disconnected
  BY <1>3, HardStopKeeps DEF Disconnected, ViewInv, StoppedIsEmpty
<1>4. CASE ReconnectSelected
  <2>1. CASE sock = "Connected"
    BY <1>4, <2>1, HardStopKeeps DEF ReconnectSelected, ViewInv, StoppedIsEmpty
  <2>2. CASE sock # "Connected"
    BY <1>4, <2>2 DEF ReconnectSelected, ViewInv, RowsAreApps, StoppedIsEmpty, Apps
  <2> QED
    BY <2>1, <2>2
<1>5. CASE ReceiveList
  <2> DEFINE none == [w \in Window |-> NONE]
  <2>1. FieldOne \subseteq Window
    BY <1>5, Arguments DEF ReceiveList, Take
  <2>2. none \in [Window -> Object \cup {NONE}]
    OBVIOUS
  <2>3. doomed' = doomed \cup (Apps \ {none[w] : w \in Window})
    BY <1>5 DEF ReceiveList, Apps
  <2>4. /\ CreateAll(FieldOne, none)
        /\ state_' = "AcceptingEvents" /\ sock = "Connected" /\ sock' = sock
    BY <1>5 DEF ReceiveList, Take
  <2>5. RowsAreApps'
    <3> HIDE DEF none
    <3>1. \A w \in Window : none[w] = NONE
      BY DEF none
    <3> QED
      BY <2>1, <2>2, <2>3, <2>4, <3>1, CreateAllKeeps DEF ViewInv
  <2> QED
    BY <2>4, <2>5 DEF ViewInv, StoppedIsEmpty
<1>6. CASE ReceiveCreated
  <2>1. Arg \in Window
    BY <1>6, Arguments DEF ReceiveCreated, Take
  <2>2. /\ state_ = "AcceptingEvents" /\ sock = "Connected" /\ sock' = sock
        /\ UNCHANGED <<state_, focusedApp_, doomed>>
    BY <1>6 DEF ReceiveCreated, Take
  <2>3. CASE apps_[Arg] = NONE
    <3>1. CreateAll({Arg}, apps_) /\ apps_ \in [Window -> Object \cup {NONE}]
      BY <1>6, <2>3 DEF ReceiveCreated, TypeOK
    <3>2. doomed' = doomed \cup (Apps \ {apps_[w] : w \in Window})
      BY <2>2 DEF Apps
    <3>3. RowsAreApps'
      BY <2>1, <2>3, <3>1, <3>2, CreateAllKeeps DEF ViewInv
    <3> QED
      BY <2>2, <3>3 DEF ViewInv, StoppedIsEmpty
  <2>4. CASE apps_[Arg] # NONE
    BY <1>6, <2>2, <2>4, ViewIdle DEF ReceiveCreated
  <2> QED
    BY <2>3, <2>4
<1>7. ASSUME NEW v \in Window, ReceiveDestroyed(v) PROVE ViewInv'
  <2>1. /\ apps_' = [apps_ EXCEPT ![v] = NONE] /\ rows' = rows
        /\ doomed' = doomed \cup ({apps_[v]} \ {NONE})
        /\ state_ = "AcceptingEvents" /\ sock = "Connected" /\ sock' = sock /\ state_' = state_
    BY <1>7 DEF ReceiveDestroyed, Take
  <2>2. apps_' \in [Window -> Object \cup {NONE}] /\ apps_'[v] = NONE
        /\ \A w \in Window \ {v} : apps_'[w] = apps_[w]
    BY <2>1 DEF TypeOK
  <2>3. Apps' = Apps \ {apps_[v]}
    BY <2>2 DEF Apps, ViewInv, RowsAreApps
  <2>4. apps_[v] = NONE \/ apps_[v] \in Apps
    BY DEF Apps
  <2>5. rows' = Apps' \cup doomed' /\ Apps' \cap doomed' = {}
    <3> DEFINE o == apps_[v]
    <3>1. rows = Apps \cup doomed /\ Apps \cap doomed = {} /\ NONE \notin Apps
      BY DEF ViewInv, RowsAreApps, Apps
    <3>2. Apps' = Apps \ {o} /\ (o = NONE \/ o \in Apps)
      BY <2>3, <2>4
    <3>3. rows' = rows /\ doomed' = doomed \cup ({o} \ {NONE})
      BY <2>1
    <3> HIDE DEF o
    <3>4. CASE o = NONE
      <4>1. Apps' = Apps /\ doomed' = doomed /\ rows' = rows
        BY <3>1, <3>2, <3>3, <3>4
      <4> QED
        BY <3>1, <4>1
    <3>5. CASE o \in Apps
      <4>1. doomed' = doomed \cup {o} /\ rows' = rows /\ Apps' = Apps \ {o}
        BY <3>1, <3>2, <3>3, <3>5
      <4> QED
        BY <3>1, <3>5, <4>1
    <3> QED
      BY <3>2, <3>4, <3>5
  <2>6. \A u, w \in Window : apps_'[u] = apps_'[w] => u = w \/ apps_'[u] = NONE
    BY <2>2 DEF ViewInv, RowsAreApps
  <2>7. RowsAreApps'
    BY <2>5, <2>6 DEF RowsAreApps
  <2> QED
    BY <2>1, <2>7 DEF ViewInv, StoppedIsEmpty
<1>8. CASE ReceiveFocus
  BY <1>8 DEF ReceiveFocus, Take, ViewInv, RowsAreApps, StoppedIsEmpty, Apps
<1>9. CASE ReceiveResponse
  BY <1>9, ViewIdle DEF ReceiveResponse, Take
<1>10. ASSUME NEW o \in Object, DeleteApp(o) PROVE ViewInv'
  BY <1>10 DEF DeleteApp, ViewInv, RowsAreApps, StoppedIsEmpty, Apps
<1>11. ASSUME NEW o \in Object, SendKeystroke(o) PROVE ViewInv'
  BY <1>11, ViewIdle DEF SendKeystroke
<1>12. CASE Spin \/ Join \/ Greet \/ Answers
  BY <1>12, ViewIdle DEF Spin, Join, Greet, Answers, ServerStep
<1>13. ASSUME NEW w \in Window, Opens(w) \/ Closes(w) PROVE ViewInv'
  BY <1>13, ViewIdle DEF Opens, Closes, Tell, ServerStep
<1>14. ASSUME NEW w \in Window \cup {NONE}, Focuses(w) PROVE ViewInv'
  BY <1>14, ViewIdle DEF Focuses, Tell, ServerStep
<1>15. CASE UNCHANGED vars
  BY <1>15, ViewIdle DEF vars
<1> QED
  BY <1>1, <1>2, <1>3, <1>4, <1>5, <1>6, <1>7, <1>8, <1>9, <1>10, <1>11, <1>12, <1>13,
     <1>14, <1>15 DEF Next, ReceiveMessage

LEMMA ViewAlways == Spec => []ViewInv
<1>1. Init => ViewInv
  BY DEF Init, ProtocolInit, ViewInv, RowsAreApps, StoppedIsEmpty, Apps
<1>2. TypeOK /\ ViewInv /\ [Next]_vars => ViewInv'
  BY ViewStep
<1> QED
  BY <1>1, <1>2, SessionTypeCorrect, PTL DEF Spec

(***************************************************************************)
(* AppList has a row for exactly the applications of the Connection and    *)
(* those that wait to be deleted, never one that is both, however late the *)
(* event loop comes to the deletions.                                      *)
(***************************************************************************)
THEOREM RowsFollowApps == Spec => []RowsAreApps
<1>1. ViewInv => RowsAreApps
  BY DEF ViewInv
<1> QED
  BY <1>1, ViewAlways, PTL

(***************************************************************************)
(* The protocol is started exactly while its socket is connected, and when *)
(* it is stopped nothing of its session is left.                           *)
(***************************************************************************)
THEOREM StopsEmpty == Spec => []StoppedIsEmpty
<1>1. ViewInv => StoppedIsEmpty
  BY DEF ViewInv
<1> QED
  BY <1>1, ViewAlways, PTL

-----------------------------------------------------------------------------
(* A request gets its own answer: the requests under way and those pending *)

\* The identifier that the n-th request gets.
IdOf(n) == IF n = INVALID_REQUEST THEN 0 ELSE n

\* A request or an answer r under way is of a request of this connection, or
\* will find nothing under its identifier, or another request.
Known(r) == r[2] <= asked /\ r[1] = IdOf(r[2])
Current(r) == r[2] \in live \/ pending_reqs_[r[1]] # r[2]

Counted ==
  /\ last_id_ = IdOf(asked)
  /\ \A n \in live : n <= asked /\ reply[n] = 0
  /\ \A n \in Request : reply[n] # 0 => n <= asked

Pending ==
  \A id \in Id : LET n == pending_reqs_[id] IN
    n # 0 => n <= asked /\ id = IdOf(n) /\ reply[n] = 0

Asking ==
  \A i \in 1 .. Len(toServer) :
    Known(toServer[i]) /\ (sock # "Closing" => Current(toServer[i]))

Answering ==
  \A i \in 1 .. Len(toClient) :
    toClient[i].kind = "response" => Known(toClient[i].arg) /\ Current(toClient[i].arg)

RequestInv ==
  /\ Counted /\ Pending /\ Asking /\ Answering
  /\ served # "pending" => sock = "Connected"

\* Different requests have different identifiers: there are fewer than 2^32.
LEMMA IdOfIsInjective ==
  ASSUME NEW m \in Request, NEW n \in Request, IdOf(m) = IdOf(n)
  PROVE  m = n
BY RequestAssumption DEF IdOf, Request

\* Steps that ask and answer nothing, and put nothing on the way that was not.
LEMMA RequestIdle ==
  ASSUME RequestInv, UNCHANGED requestVars,
         \A i \in 1 .. Len(toServer') :
           /\ \E j \in 1 .. Len(toServer) : toServer'[i] = toServer[j]
           /\ sock' # "Closing" => sock # "Closing",
         \A i \in 1 .. Len(toClient') :
           toClient'[i].kind = "response" =>
             \E j \in 1 .. Len(toClient) : toClient'[i] = toClient[j],
         served' # "pending" => sock' = "Connected"
  PROVE  RequestInv'
<1>1. Counted' /\ Pending'
  BY DEF RequestInv, requestVars, Counted, Pending
<1>2. Asking'
  BY DEF RequestInv, requestVars, Asking, Known, Current
<1>3. Answering'
  BY DEF RequestInv, requestVars, Answering, Known, Current
<1> QED
  BY <1>1, <1>2, <1>3 DEF RequestInv

\* Steps that leave the requests and both directions of the wire alone.
LEMMA RequestAlone ==
  ASSUME RequestInv, UNCHANGED <<requestVars, wireVars, sock>>
  PROVE  RequestInv'
BY DEF RequestInv, requestVars, wireVars, Counted, Pending, Asking, Answering, Known, Current

\* A connection ends: what is still to be written is never answered.
LEMMA HangupKeeps ==
  ASSUME RequestInv, Hangup,
         toServer' = << >> \/ (sock' = "Closing" /\ toServer' = toServer)
  PROVE  RequestInv'
<1>1. Counted' /\ Pending'
  BY DEF RequestInv, Hangup, Counted, Pending
<1>2. Asking' /\ Answering'
  BY DEF RequestInv, Hangup, Asking, Answering, Known
<1> QED
  BY <1>1, <1>2 DEF RequestInv, Hangup

\* The messages that have not been received yet, and one more, not an answer.
LEMMA Shorter ==
  ASSUME NEW T, NEW q \in Seq(T), q # << >>
  PROVE  \A i \in 1 .. Len(Tail(q)) :
           \E j \in 1 .. Len(q) : Tail(q)[i] = q[j]
<1> TAKE i \in 1 .. Len(Tail(q))
<1>1. i + 1 \in 1 .. Len(q) /\ Tail(q)[i] = q[i + 1]
  OBVIOUS
<1> QED
  BY <1>1

LEMMA Longer ==
  ASSUME NEW T, NEW q \in Seq(T), NEW m \in T
  PROVE  \A i \in 1 .. Len(Append(q, m)) :
           \/ Append(q, m)[i] = m
           \/ \E j \in 1 .. Len(q) : Append(q, m)[i] = q[j]
<1> TAKE i \in 1 .. Len(Append(q, m))
<1>1. i = Len(q) + 1 \/ i \in 1 .. Len(q)
  OBVIOUS
<1>2. i \in 1 .. Len(q) => Append(q, m)[i] = q[i]
  OBVIOUS
<1>3. i = Len(q) + 1 => Append(q, m)[i] = m
  OBVIOUS
<1> QED
  BY <1>1, <1>2, <1>3

LEMMA LongerByTwo ==
  ASSUME NEW T, NEW q \in Seq(T), NEW m \in T, NEW n \in T
  PROVE  \A i \in 1 .. Len(q \o <<m, n>>) :
           \/ (q \o <<m, n>>)[i] \in {m, n}
           \/ \E j \in 1 .. Len(q) : (q \o <<m, n>>)[i] = q[j]
<1>1. q \o <<m, n>> = Append(Append(q, m), n) /\ Append(q, m) \in Seq(T)
  OBVIOUS
<1> QED
  BY <1>1, Longer

\* Receiving a message that is no answer.
LEMMA TakeKeeps ==
  ASSUME TypeOK, RequestInv, Take, UNCHANGED requestVars
  PROVE  RequestInv'
<1>1. \A i \in 1 .. Len(toClient') : \E j \in 1 .. Len(toClient) : toClient'[i] = toClient[j]
  BY Shorter DEF Take, TypeOK
<1>2. toServer' = toServer /\ sock' = sock /\ served' = served
  BY DEF Take, sockVars
<1> QED
  BY <1>1, <1>2, RequestIdle DEF RequestInv

\* The server telling of one of its windows.
LEMMA TellKeeps ==
  ASSUME TypeOK, RequestInv, NEW m \in Message, m.kind # "response", Tell(m)
  PROVE  RequestInv'
<1>1. \A i \in 1 .. Len(toClient') :
        toClient'[i] = m \/ \E j \in 1 .. Len(toClient) : toClient'[i] = toClient[j]
  <2>1. CASE toClient' = Append(toClient, m)
    <3>1. toClient \in Seq(Message)
      BY DEF TypeOK
    <3> QED
      BY <2>1, <3>1, Longer
  <2>2. CASE toClient' = toClient
    BY <2>2
  <2> QED
    BY <2>1, <2>2 DEF Tell
<1>2. /\ toServer' = toServer /\ sock' = sock /\ UNCHANGED requestVars
      /\ served' # "pending" <=> served # "pending"
  BY DEF Tell, ServerStep, sockVars
<1> QED
  BY <1>1, <1>2, RequestIdle DEF RequestInv

\* The request that is asked next has an identifier under which none is pending.
LEMMA SendKeeps ==
  ASSUME TypeOK, RequestInv, NEW o \in Object, SendKeystroke(o)
  PROVE  RequestInv' /\ asked + 1 \in Request /\ reply[asked + 1] = 0
<1> DEFINE n  == asked + 1
           id == NextId(last_id_)
<1>1. n \in Request /\ n \in Nat /\ asked \in Nat /\ asked < INVALID_REQUEST
  BY RequestAssumption DEF TypeOK, SendKeystroke, Request
<1>2. id = IdOf(n) /\ id \in Id
  BY <1>1, NextIdIsId, RequestAssumption DEF TypeOK, RequestInv, Counted, IdOf, NextId
<1>3. pending_reqs_[id] = 0
  <2>1. pending_reqs_[id] \in Request \cup {0}
    BY <1>2 DEF TypeOK
  <2>2. ASSUME pending_reqs_[id] # 0 PROVE FALSE
    <3>1. pending_reqs_[id] <= asked /\ IdOf(pending_reqs_[id]) = IdOf(n)
      BY <1>2, <2>2 DEF RequestInv, Pending
    <3>2. pending_reqs_[id] = n
      BY <1>1, <2>1, <2>2, <3>1, IdOfIsInjective
    <3> QED
      BY <1>1, <3>1, <3>2
  <2> QED
    BY <2>2
<1>4. reply[n] = 0
  BY <1>1 DEF RequestInv, Counted, TypeOK
<1>5. /\ last_id_' = id /\ asked' = n /\ reply' = reply
      /\ pending_reqs_' = [pending_reqs_ EXCEPT ![id] = n]
      /\ pending_reqs_'[id] = n /\ \A i \in Id \ {id} : pending_reqs_'[i] = pending_reqs_[i]
      /\ live \subseteq live' /\ live' \subseteq live \cup {n}
      /\ toClient' = toClient /\ sock' = sock /\ served' = served
  BY <1>2, <1>3 DEF SendKeystroke, TypeOK, sockVars
<1> HIDE DEF n, id
<1>6. Counted'
  BY <1>1, <1>2, <1>4, <1>5 DEF RequestInv, Counted, TypeOK, Request, n
<1>7. Pending'
  <2> SUFFICES ASSUME NEW i \in Id, pending_reqs_'[i] # 0
               PROVE  /\ pending_reqs_'[i] <= n /\ i = IdOf(pending_reqs_'[i])
                      /\ reply[pending_reqs_'[i]] = 0
    BY <1>5 DEF Pending
  <2>1. CASE i = id
    BY <1>1, <1>2, <1>4, <1>5, <2>1
  <2>2. CASE i # id
    <3>1. pending_reqs_'[i] = pending_reqs_[i] /\ pending_reqs_[i] \in Request \cup {0}
      BY <1>5, <2>2 DEF TypeOK
    <3>2. pending_reqs_[i] <= asked /\ i = IdOf(pending_reqs_[i]) /\ reply[pending_reqs_[i]] = 0
      BY <3>1 DEF RequestInv, Pending
    <3> QED
      BY <1>1, <3>1, <3>2 DEF n, Request
  <2> QED
    BY <2>1, <2>2
<1>8. ASSUME NEW r \in Id \X Request, Known(r)
      PROVE  /\ r[2] <= n /\ r[1] = IdOf(r[2])
             /\ Current(r) => r[2] \in live' \/ pending_reqs_'[r[1]] # r[2]
  <2>1. r[2] <= asked /\ r[1] = IdOf(r[2]) /\ r[2] \in Request /\ r[1] \in Id
    BY <1>8 DEF Known
  <2>2. r[2] <= n /\ r[2] # n
    BY <1>1, <2>1 DEF n, Request
  <2> QED
    BY <1>5, <2>1, <2>2 DEF Current
<1>9. Asking'
  <2> SUFFICES ASSUME NEW i \in 1 .. Len(toServer')
               PROVE  /\ toServer'[i][2] <= n /\ toServer'[i][1] = IdOf(toServer'[i][2])
                      /\ sock # "Closing" =>
                           \/ toServer'[i][2] \in live'
                           \/ pending_reqs_'[toServer'[i][1]] # toServer'[i][2]
    BY <1>5 DEF Asking, Known, Current
  <2> DEFINE r == toServer'[i]
  <2>1. CASE \E j \in 1 .. Len(toServer) : r = toServer[j]
    <3>1. r \in Id \X Request /\ Known(r) /\ (sock # "Closing" => Current(r))
      BY <2>1 DEF RequestInv, Asking, TypeOK
    <3> HIDE DEF r
    <3>2. /\ r[2] <= n /\ r[1] = IdOf(r[2])
          /\ Current(r) => r[2] \in live' \/ pending_reqs_'[r[1]] # r[2]
      BY <1>8, <3>1
    <3> QED
      BY <3>1, <3>2 DEF r
  <2>2. CASE Writable /\ r = <<id, n>>
    BY <1>1, <1>2, <2>2 DEF SendKeystroke, n, id
  <2>3. \/ \E j \in 1 .. Len(toServer) : r = toServer[j]
        \/ Writable /\ r = <<id, n>>
    <3>1. CASE Writable
      <4>1. toServer' = Append(toServer, <<id, n>>) /\ <<id, n>> \in Id \X Request
        BY <1>1, <1>2, <3>1 DEF SendKeystroke, n, id
      <4>2. toServer \in Seq(Id \X Request)
        BY DEF TypeOK
      <4> QED
        BY <3>1, <4>1, <4>2, Longer
    <3>2. CASE ~Writable
      BY <3>2 DEF SendKeystroke
    <3> QED
      BY <3>1, <3>2
  <2> QED
    BY <2>1, <2>2, <2>3
<1>10. Answering'
  <2> SUFFICES ASSUME NEW i \in 1 .. Len(toClient), toClient[i].kind = "response"
               PROVE  LET r == toClient[i].arg IN
                        /\ r[2] <= n /\ r[1] = IdOf(r[2])
                        /\ r[2] \in live' \/ pending_reqs_'[r[1]] # r[2]
    BY <1>5 DEF Answering, Known, Current
  <2> DEFINE r == toClient[i].arg
  <2>1. r \in Id \X Request
    BY DEF TypeOK, Message
  <2>2. Known(r) /\ Current(r)
    BY DEF RequestInv, Answering
  <2> HIDE DEF r
  <2>3. /\ r[2] <= n /\ r[1] = IdOf(r[2])
        /\ r[2] \in live' \/ pending_reqs_'[r[1]] # r[2]
    BY <1>8, <2>1, <2>2
  <2> QED
    BY <2>3 DEF r
<1>11. n \in Request /\ reply[n] = 0 /\ (served' # "pending" => sock' = "Connected")
  BY <1>1, <1>4, <1>5 DEF RequestInv
<1> QED
  BY <1>6, <1>7, <1>9, <1>10, <1>11 DEF RequestInv, n

\* The request that gets an answer is the one that was answered.
LEMMA AnswersItsOwn ==
  ASSUME TypeOK, RequestInv, ReceiveResponse, pending_reqs_[Arg[1]] # 0
  PROVE  /\ Arg[1] \in Id /\ Arg[2] \in Request /\ Arg[1] = IdOf(Arg[2])
         /\ pending_reqs_[Arg[1]] = Arg[2]
         /\ Arg[2] \in live /\ Arg[2] <= asked /\ reply[Arg[2]] = 0
<1>1. toClient # << >> /\ Kind = "response"
  BY DEF ReceiveResponse, Take
<1>2. Arg[1] \in Id /\ Arg[2] \in Request
  BY <1>1, Arguments
<1>3. 1 \in 1 .. Len(toClient) /\ Head(toClient) = toClient[1]
  BY <1>1 DEF TypeOK
<1>4. Known(Arg) /\ Current(Arg)
  BY <1>1, <1>3 DEF RequestInv, Answering, Kind, Arg
<1>5. pending_reqs_[Arg[1]] \in Request
  BY <1>2 DEF TypeOK
<1>6. IdOf(pending_reqs_[Arg[1]]) = IdOf(Arg[2]) /\ reply[pending_reqs_[Arg[1]]] = 0
  BY <1>2, <1>4 DEF RequestInv, Pending, Known
<1>7. pending_reqs_[Arg[1]] = Arg[2]
  BY <1>2, <1>5, <1>6, IdOfIsInjective
<1> QED
  BY <1>2, <1>4, <1>6, <1>7 DEF Known, Current

LEMMA ResponseKeeps ==
  ASSUME TypeOK, RequestInv, ReceiveResponse
  PROVE  RequestInv'
<1>1. CASE pending_reqs_[Arg[1]] = 0
  <2>1. Take /\ UNCHANGED requestVars
    BY <1>1 DEF ReceiveResponse, requestVars
  <2> QED
    BY <2>1, TakeKeeps
<1>2. CASE pending_reqs_[Arg[1]] # 0
  <2> DEFINE id == Arg[1]
             n  == Arg[2]
  <2>1. /\ id \in Id /\ n \in Request /\ id = IdOf(n) /\ pending_reqs_[id] = n
        /\ n \in live /\ n <= asked /\ reply[n] = 0
    BY <1>2, AnswersItsOwn
  <2>2. /\ pending_reqs_' = [pending_reqs_ EXCEPT ![id] = 0]
        /\ reply' = [reply EXCEPT ![n] = n] /\ live' = live \ {n}
        /\ last_id_' = last_id_ /\ asked' = asked
    BY <1>2, <2>1 DEF ReceiveResponse
  <2>3. toClient' = Tail(toClient) /\ toServer' = toServer /\ sock' = sock /\ served' = served
    BY DEF ReceiveResponse, Take, sockVars
  <2>4. toClient # << >>
    BY DEF ReceiveResponse, Take
  <2> HIDE DEF id, n
  <2>5. /\ pending_reqs_'[id] = 0 /\ \A i \in Id \ {id} : pending_reqs_'[i] = pending_reqs_[i]
        /\ reply'[n] = n /\ \A m \in Request \ {n} : reply'[m] = reply[m]
    BY <2>1, <2>2 DEF TypeOK
  <2>6. Counted'
    <3>1. \A m \in live' : m \in Request \ {n} /\ m \in live
      BY <2>2 DEF TypeOK
    <3>2. \A m \in live' : m <= asked /\ reply'[m] = 0
      BY <2>5, <3>1 DEF RequestInv, Counted
    <3>3. \A m \in Request : reply'[m] # 0 => m <= asked
      BY <2>1, <2>5 DEF RequestInv, Counted
    <3> QED
      BY <2>2, <3>2, <3>3 DEF RequestInv, Counted
  <2>7. Pending'
    <3> SUFFICES ASSUME NEW i \in Id, pending_reqs_'[i] # 0
                 PROVE  /\ pending_reqs_'[i] <= asked /\ i = IdOf(pending_reqs_'[i])
                        /\ reply'[pending_reqs_'[i]] = 0
      BY <2>2 DEF Pending
    <3>1. i # id /\ pending_reqs_'[i] = pending_reqs_[i] /\ pending_reqs_[i] \in Request
      BY <2>5 DEF TypeOK
    <3>2. /\ pending_reqs_[i] <= asked /\ i = IdOf(pending_reqs_[i])
          /\ reply[pending_reqs_[i]] = 0
      BY <3>1 DEF RequestInv, Pending
    <3>3. pending_reqs_[i] # n
      BY <2>1, <3>1, <3>2
    <3> QED
      BY <2>5, <3>1, <3>2, <3>3
  <2>8. ASSUME NEW r \in Id \X Request, Known(r), Current(r)
        PROVE  r[2] \in live' \/ pending_reqs_'[r[1]] # r[2]
    <3>1. r[1] \in Id /\ r[2] \in Request /\ r[1] = IdOf(r[2]) /\ r[2] # 0
      BY <2>8 DEF Known, Request
    <3>2. CASE r[2] = n
      BY <2>1, <2>5, <3>1, <3>2
    <3>3. CASE r[2] # n
      BY <2>2, <2>5, <2>8, <3>1, <3>3 DEF Current
    <3> QED
      BY <3>2, <3>3
  <2>9. Asking'
    <3> SUFFICES ASSUME NEW i \in 1 .. Len(toServer)
                 PROVE  /\ Known(toServer[i])
                        /\ sock # "Closing" =>
                             \/ toServer[i][2] \in live'
                             \/ pending_reqs_'[toServer[i][1]] # toServer[i][2]
      BY <2>2, <2>3 DEF Asking, Known, Current
    <3>1. toServer[i] \in Id \X Request
      BY DEF TypeOK
    <3>2. Known(toServer[i]) /\ (sock # "Closing" => Current(toServer[i]))
      BY DEF RequestInv, Asking
    <3> QED
      BY <2>8, <3>1, <3>2
  <2>10. Answering'
    <3> SUFFICES ASSUME NEW i \in 1 .. Len(Tail(toClient)), Tail(toClient)[i].kind = "response"
                 PROVE  LET r == Tail(toClient)[i].arg IN
                          /\ Known(r)
                          /\ r[2] \in live' \/ pending_reqs_'[r[1]] # r[2]
      BY <2>2, <2>3 DEF Answering, Known, Current
    <3>1. PICK j \in 1 .. Len(toClient) : Tail(toClient)[i] = toClient[j]
      BY <2>4, Shorter DEF TypeOK
    <3>2. toClient[j].arg \in Id \X Request
      BY <3>1 DEF TypeOK, Message
    <3>3. Known(toClient[j].arg) /\ Current(toClient[j].arg)
      BY <3>1 DEF RequestInv, Answering
    <3> QED
      BY <2>8, <3>1, <3>2, <3>3
  <2> QED
    BY <2>3, <2>6, <2>7, <2>9, <2>10 DEF RequestInv
<1> QED
  BY <1>1, <1>2

\* An answer takes the place of its request on the way.
LEMMA AnswersKeeps ==
  ASSUME TypeOK, RequestInv, Answers
  PROVE  RequestInv'
<1>1. /\ toServer # << >> /\ toServer' = Tail(toServer)
      /\ UNCHANGED <<requestVars, sock, served>>
  BY DEF Answers, ServerStep, sockVars
<1>2. \A i \in 1 .. Len(toServer') : \E j \in 1 .. Len(toServer) : toServer'[i] = toServer[j]
  BY <1>1, Shorter DEF TypeOK
<1>3. CASE toClient' = toClient
  BY <1>1, <1>2, <1>3, RequestIdle DEF RequestInv
<1>4. CASE Greeted /\ toClient' = Append(toClient, Say("response", Head(toServer)))
  <2>1. Head(toServer) = toServer[1] /\ 1 \in 1 .. Len(toServer) /\ toServer[1] \in Id \X Request
    BY <1>1 DEF TypeOK
  <2>2. Known(toServer[1]) /\ Current(toServer[1])
    BY <1>4, <2>1 DEF RequestInv, Asking, Greeted
  <2> DEFINE m == Say("response", toServer[1])
  <2>3. m \in Message /\ m.arg = toServer[1]
    BY <2>1, Says DEF Say
  <2>4. toClient' = Append(toClient, m) /\ toClient \in Seq(Message)
    BY <1>4, <2>1 DEF TypeOK
  <2> HIDE DEF m
  <2>5. \A i \in 1 .. Len(toClient') :
          toClient'[i] = m \/ \E j \in 1 .. Len(toClient) : toClient'[i] = toClient[j]
    BY <2>3, <2>4, Longer
  <2>6. Answering'
    <3> SUFFICES ASSUME NEW i \in 1 .. Len(toClient'), toClient'[i].kind = "response"
                 PROVE  Known(toClient'[i].arg) /\ Current(toClient'[i].arg)
      BY <1>1 DEF Answering, Known, Current, requestVars
    <3>1. CASE toClient'[i] = m
      BY <2>2, <2>3, <3>1
    <3>2. CASE \E j \in 1 .. Len(toClient) : toClient'[i] = toClient[j]
      BY <3>2 DEF RequestInv, Answering
    <3> QED
      BY <2>5, <3>1, <3>2
  <2>7. Asking'
    BY <1>1, <1>2 DEF RequestInv, Asking, Known, Current, requestVars
  <2>8. Counted' /\ Pending' /\ (served' # "pending" => sock' = "Connected")
    BY <1>1 DEF RequestInv, Counted, Pending, requestVars
  <2> QED
    BY <2>6, <2>7, <2>8 DEF RequestInv
<1> QED
  BY <1>3, <1>4 DEF Answers

LEMMA RequestStep ==
  ASSUME TypeOK, RequestInv, [Next]_vars
  PROVE  RequestInv'
<1> USE DEF sockVars, viewVars, serverVars
<1>1. CASE OpenConn
  <2>1. UNCHANGED requestVars /\ toServer' = << >> /\ toClient' = toClient
        /\ sock # "Connected" /\ served' = served
    BY <1>1 DEF OpenConn
  <2> QED
    BY <2>1, RequestIdle DEF RequestInv
<1>2. CASE Connected
  <2>1. CASE pendingClose
    BY <1>2, <2>1, HangupKeeps DEF Connected
  <2>2. CASE ~pendingClose
    <3>1. /\ UNCHANGED requestVars /\ toServer' = toServer /\ toClient' = toClient
          /\ sock = "Connecting" /\ sock' = "Connected"
      BY <1>2, <2>2 DEF Connected, wireVars
    <3> QED
      BY <3>1, RequestIdle
  <2> QED
    BY <2>1, <2>2
<1>3. CASE Disconnected
  BY <1>3, HangupKeeps DEF Disconnected
<1>4. CASE ReconnectSelected
  <2>1. CASE sock = "Unconnected"
    <3>1. /\ UNCHANGED requestVars /\ toServer' = << >> /\ toClient' = toClient
          /\ served' = served /\ served = "pending"
      BY <1>4, <2>1 DEF ReconnectSelected, RequestInv
    <3> QED
      BY <3>1, RequestIdle
  <2>2. CASE sock # "Unconnected"
    BY <1>4, <2>2, HangupKeeps DEF ReconnectSelected
  <2> QED
    BY <2>1, <2>2
<1>5. CASE ReceiveList
  BY <1>5, TakeKeeps DEF ReceiveList
<1>6. CASE ReceiveCreated
  BY <1>6, TakeKeeps DEF ReceiveCreated
<1>7. ASSUME NEW w \in Window, ReceiveDestroyed(w) PROVE RequestInv'
  BY <1>7, TakeKeeps DEF ReceiveDestroyed
<1>8. CASE ReceiveFocus
  BY <1>8, TakeKeeps DEF ReceiveFocus
<1>9. CASE ReceiveResponse
  BY <1>9, ResponseKeeps
<1>10. ASSUME NEW o \in Object, DeleteApp(o) PROVE RequestInv'
  BY <1>10, RequestAlone DEF DeleteApp
<1>11. ASSUME NEW o \in Object, SendKeystroke(o) PROVE RequestInv'
  BY <1>11, SendKeeps
<1>12. CASE Greet
  <2> DEFINE l == Say("list", windows)
             f == Say("got_focus", onFocus)
  <2>1. /\ UNCHANGED <<requestVars, sock, toServer>> /\ served # "pending"
        /\ toClient' = toClient \o <<l, f>>
    BY <1>12 DEF Greet, ServerStep
  <2>2. l.kind # "response" /\ f.kind # "response" /\ l \in Message /\ f \in Message
    BY Says DEF Say, TypeOK
  <2>3. toClient \in Seq(Message)
    BY DEF TypeOK
  <2> HIDE DEF l, f
  <2>4. \A i \in 1 .. Len(toClient') : \/ toClient'[i] \in {l, f}
                                       \/ \E j \in 1 .. Len(toClient) : toClient'[i] = toClient[j]
    BY <2>1, <2>2, <2>3, LongerByTwo
  <2> QED
    BY <2>1, <2>2, <2>4, RequestIdle DEF RequestInv
<1>13. CASE Answers
  BY <1>13, AnswersKeeps
<1>14. ASSUME NEW w \in Window, Opens(w) \/ Closes(w) PROVE RequestInv'
  BY <1>14, Says, TellKeeps DEF Opens, Closes, Say
<1>15. ASSUME NEW w \in Window \cup {NONE}, Focuses(w) PROVE RequestInv'
  BY <1>15, Says, TellKeeps DEF Focuses, Say
<1>16. CASE Spin \/ UNCHANGED vars
  BY <1>16, RequestAlone DEF Spin, vars
<1>17. CASE Join
  BY <1>17, RequestIdle DEF Join, ServerStep, RequestInv
<1> QED
  BY <1>1, <1>2, <1>3, <1>4, <1>5, <1>6, <1>7, <1>8, <1>9, <1>10, <1>11, <1>12, <1>13,
     <1>14, <1>15, <1>16, <1>17 DEF Next, ReceiveMessage

LEMMA RequestAlways == Spec => []RequestInv
<1>1. Init => RequestInv
  BY RequestAssumption
     DEF Init, ProtocolInit, RequestInv, Counted, Pending, Asking, Answering, IdOf
<1>2. TypeOK /\ RequestInv /\ [Next]_vars => RequestInv'
  BY RequestStep
<1> QED
  BY <1>1, <1>2, SessionTypeCorrect, PTL DEF Spec

\* Steps that ask and answer nothing are none of the requests.
LEMMA RequestStutters ==
  ASSUME UNCHANGED requestVars
  PROVE  UNCHANGED R!vars
BY DEF requestVars, R!vars, R!Request

\* A connection that ends loses what was asked on it.
LEMMA HangupLoses ==
  ASSUME TypeOK, RequestInv, Hangup
  PROVE  R!LoseAll
<1>1. live' = {} /\ asked' = asked /\ reply' = reply
  BY DEF Hangup
<1>2. \A n \in live : n <= asked /\ reply[n] = 0 /\ n \in Request
  BY DEF RequestInv, Counted, TypeOK
<1> QED
  BY <1>1, <1>2 DEF R!LoseAll, R!Request, Request

\* A keystroke that is asked for is a new request, asked or lost at once.
LEMMA SendAsks ==
  ASSUME TypeOK, RequestInv, NEW o \in Object, SendKeystroke(o)
  PROVE  \E n \in R!Request : R!Ask(n)
<1>0. PICK n \in Request : n = asked + 1
  BY SendKeeps
<1>1. n \in Request /\ n = asked + 1 /\ reply[n] = 0 /\ asked \in Nat
  BY <1>0, SendKeeps DEF TypeOK
<1>2. /\ asked' = n /\ reply' = reply
      /\ live' = IF Writable THEN live \cup {n} ELSE live
  BY <1>1 DEF SendKeystroke
<1>3. \A m \in live : m <= asked
  BY DEF RequestInv, Counted
<1>4. \A m \in Request : /\ m # n => (m > asked <=> m > n) /\ (m \in live' <=> m \in live)
                         /\ m = n => m > asked /\ ~(m > n)
  BY <1>1, <1>2 DEF Request
<1> DEFINE s == IF Writable THEN "asked" ELSE "lost"
<1>5. n \in live' <=> Writable
  BY <1>1, <1>2, <1>3
<1>6. /\ [m \in Request |-> IF m > asked' THEN "new" ELSE IF reply'[m] # 0 THEN "answered"
                            ELSE IF m \in live' THEN "asked" ELSE "lost"]
         = [[m \in Request |-> IF m > asked THEN "new" ELSE IF reply[m] # 0 THEN "answered"
                               ELSE IF m \in live THEN "asked" ELSE "lost"]
             EXCEPT ![n] = s]
  BY <1>1, <1>2, <1>4, <1>5
<1>7. [m \in Request |-> IF m > asked THEN "new" ELSE IF reply[m] # 0 THEN "answered"
                         ELSE IF m \in live THEN "asked" ELSE "lost"][n] = "new"
  BY <1>1, <1>4
<1>8. s \in {"asked", "lost"}
  OBVIOUS
<1> HIDE DEF s
<1>9. R!Ask(n)
  BY <1>2, <1>6, <1>7, <1>8 DEF R!Ask
<1> QED
  BY <1>1, <1>9 DEF R!Request, Request

\* The answer that is received is one of the abstract specification's.
LEMMA ResponseAnswers ==
  ASSUME TypeOK, RequestInv, ReceiveResponse
  PROVE  UNCHANGED R!vars \/ \E n \in R!Request : R!Answer(n)
<1>1. CASE pending_reqs_[Arg[1]] = 0
  BY <1>1, RequestStutters DEF ReceiveResponse, requestVars
<1>2. CASE pending_reqs_[Arg[1]] # 0
  <2>0. PICK n \in Request : n = Arg[2]
    BY <1>2, AnswersItsOwn
  <2>1. n \in Request /\ pending_reqs_[Arg[1]] = n /\ n \in live /\ n <= asked /\ reply[n] = 0
    BY <1>2, <2>0, AnswersItsOwn
  <2>2. reply' = [reply EXCEPT ![n] = n] /\ live' = live \ {n} /\ asked' = asked
    BY <1>2, <2>0, <2>1 DEF ReceiveResponse
  <2>3. n \in Nat /\ n # 0 /\ asked \in Nat /\ reply \in [Request -> Request \cup {0}]
    BY <2>1 DEF Request, TypeOK
  <2>4. /\ [m \in Request |-> IF m > asked' THEN "new" ELSE IF reply'[m] # 0 THEN "answered"
                              ELSE IF m \in live' THEN "asked" ELSE "lost"]
           = [[m \in Request |-> IF m > asked THEN "new" ELSE IF reply[m] # 0 THEN "answered"
                                 ELSE IF m \in live THEN "asked" ELSE "lost"]
               EXCEPT ![n] = "answered"]
    <3>1. ~(n > asked') /\ reply'[n] # 0
      BY <2>1, <2>2, <2>3
    <3>2. \A m \in Request \ {n} : reply'[m] = reply[m] /\ (m \in live' <=> m \in live)
      BY <2>1, <2>2, <2>3
    <3> QED
      BY <2>1, <2>2, <3>1, <3>2
  <2>5. [m \in Request |-> IF m > asked THEN "new" ELSE IF reply[m] # 0 THEN "answered"
                           ELSE IF m \in live THEN "asked" ELSE "lost"][n] = "asked"
    BY <2>1, <2>3
  <2>6. R!Answer(n)
    BY <2>2, <2>4, <2>5 DEF R!Answer
  <2> QED
    BY <2>1, <2>6 DEF R!Request, Request
<1> QED
  BY <1>1, <1>2

LEMMA RefinesStep ==
  ASSUME TypeOK, RequestInv, [Next]_vars
  PROVE  [R!Next]_(R!vars)
<1>1. CASE Hangup
  BY <1>1, HangupLoses DEF R!Next
<1>2. CASE UNCHANGED requestVars
  BY <1>2, RequestStutters
<1>3. ASSUME NEW o \in Object, SendKeystroke(o) PROVE [R!Next]_(R!vars)
  BY <1>3, SendAsks DEF R!Next
<1>4. CASE ReceiveResponse
  BY <1>4, ResponseAnswers DEF R!Next
<1>5. \/ Hangup \/ UNCHANGED requestVars \/ ReceiveResponse
      \/ \E o \in Object : SendKeystroke(o)
  <2>1. Connected \/ Disconnected \/ ReconnectSelected => Hangup \/ UNCHANGED requestVars
    BY DEF Connected, Disconnected, ReconnectSelected, requestVars
  <2>2. \/ OpenConn \/ Spin \/ ReceiveList \/ ReceiveCreated \/ ReceiveFocus
        \/ \E w \in Window : ReceiveDestroyed(w)
        => UNCHANGED requestVars
    BY DEF OpenConn, Spin, ReceiveList, ReceiveCreated, ReceiveDestroyed, ReceiveFocus
  <2>3. (\E o \in Object : DeleteApp(o)) \/ Join \/ Greet \/ Answers => UNCHANGED requestVars
    BY DEF DeleteApp, Join, Greet, Answers, ServerStep
  <2>4. \/ \E w \in Window : Opens(w) \/ Closes(w)
        \/ \E w \in Window \cup {NONE} : Focuses(w)
        => UNCHANGED requestVars
    BY DEF Opens, Closes, Focuses, Tell, ServerStep
  <2>5. UNCHANGED vars => UNCHANGED requestVars
    BY DEF vars
  <2> QED
    BY <2>1, <2>2, <2>3, <2>4, <2>5 DEF Next, ReceiveMessage
<1> QED
  BY <1>1, <1>2, <1>3, <1>4, <1>5

(***************************************************************************)
(* Every request gets its own answer at most once, and one that was lost   *)
(* with its session is not taken for answered by a response of a later one *)
(* - for any number of sessions, as long as fewer than 2^32 keystrokes     *)
(* are asked for.                                                          *)
(***************************************************************************)
THEOREM AnswersAreTheirOwn == Spec => ImplementsRequests
<1>1. Init => R!Init
  BY RequestAssumption DEF Init, Request, R!Init, R!Request
<1>2. TypeOK /\ RequestInv /\ [Next]_vars => [R!Next]_(R!vars)
  BY RefinesStep
<1> QED
  BY <1>1, <1>2, SessionTypeCorrect, RequestAlways, PTL DEF Spec, ImplementsRequests, R!Spec

-----------------------------------------------------------------------------
(* The list and the events: what the server said first *)

(***************************************************************************)
(* Nothing is said to a client, which waits for its list, until it is      *)
(* greeted or told of an event; where the list was said first, it is the   *)
(* first to be received, and the only one.  One that hangs has it yet to   *)
(* receive.                                                                *)
(***************************************************************************)
ListFirst ==
  /\ hung => toClient # << >>
  /\ served \in {"pending", "active"} => toClient = << >> /\ state_ # "AcceptingEvents"
  /\ served = "greeted" =>
       /\ state_ = "Init" => toClient # << >> /\ toClient[1].kind = "list"
       /\ \A i \in 1 .. Len(toClient) :
            toClient[i].kind = "list" => i = 1 /\ state_ = "Init"

\* Steps that leave the protocol, and what the server says, alone.
LEMMA ListFirstIdle ==
  ASSUME ListFirst, UNCHANGED <<state_, toClient>>, hung' => hung \/ toClient # << >>,
         served' = served \/ (served' = "active" /\ served = "pending")
  PROVE  ListFirst'
BY DEF ListFirst

\* A connection that ends, with its session.
LEMMA ListFirstHangup ==
  ASSUME Running, Hangup, state_' # "AcceptingEvents"
  PROVE  ListFirst'
BY DEF ListFirst, Running, Hangup

\* A message is received: the list, if it was the first that was said.
LEMMA ListFirstReceived ==
  ASSUME TypeOK, ListFirst, Take, state_' = "AcceptingEvents",
         state_ = "Init" \/ state_ = "AcceptingEvents"
  PROVE  ListFirst'
<1>1. /\ toClient \in Seq(Message) /\ toClient # << >> /\ toClient' = Tail(toClient)
      /\ served' = served /\ ~hung'
  BY DEF TypeOK, Take, Running
<1>2. \A i \in 1 .. Len(toClient') : i + 1 \in 1 .. Len(toClient) /\ toClient'[i] = toClient[i + 1]
                                     /\ i + 1 # 1
  BY <1>1
<1>3. served \notin {"pending", "active"}
  BY <1>1 DEF ListFirst
<1> QED
  BY <1>1, <1>2, <1>3 DEF ListFirst

\* A message that is no list is said.
LEMMA ListFirstSaid ==
  ASSUME TypeOK, ListFirst, NEW m \in Message, m.kind # "list",
         toClient' = Append(toClient, m), state_' = state_,
         served' = served \/ served' \notin {"pending", "active", "greeted"},
         served' \notin {"pending", "active"}
  PROVE  ListFirst'
<1>1. /\ toClient \in Seq(Message) /\ toClient' # << >> /\ Len(toClient') = Len(toClient) + 1
      /\ \A i \in 1 .. Len(toClient) : toClient'[i] = toClient[i]
      /\ toClient'[Len(toClient) + 1] = m
      /\ toClient # << >> => 1 \in 1 .. Len(toClient)
  BY DEF TypeOK
<1>2. \A i \in 1 .. Len(toClient') : i \in 1 .. Len(toClient) \/ i = Len(toClient) + 1
  BY <1>1
<1>3. CASE served' = "greeted"
  <2>1. served = "greeted"
    BY <1>3
  <2>2. state_' = "Init" => toClient' # << >> /\ toClient'[1].kind = "list"
    BY <1>1, <2>1 DEF ListFirst
  <2>3. \A i \in 1 .. Len(toClient') : toClient'[i].kind = "list" => i = 1 /\ state_' = "Init"
    BY <1>1, <1>2, <2>1 DEF ListFirst
  <2> QED
    BY <1>3, <2>2, <2>3 DEF ListFirst
<1>4. CASE served' # "greeted"
  BY <1>4 DEF ListFirst
<1> QED
  BY <1>3, <1>4

LEMMA ListFirstTell ==
  ASSUME TypeOK, ListFirst, NEW m \in Message, m.kind # "list", Tell(m)
  PROVE  ListFirst'
<1>1. state_' = state_ /\ hung' = hung
  BY DEF Tell, ServerStep
<1>2. CASE UNCHANGED <<served, toClient>>
  BY <1>1, <1>2, ListFirstIdle
<1>3. CASE /\ toClient' = Append(toClient, m) /\ served # "pending"
           /\ served' = IF served = "active" THEN "early" ELSE served
  BY <1>1, <1>3, ListFirstSaid
<1> QED
  BY <1>2, <1>3 DEF Tell

LEMMA ListFirstGreet ==
  ASSUME TypeOK, ViewInv, RequestInv, ListFirst, Greet
  PROVE  ListFirst'
<1>1. CASE served = "early"
  BY <1>1 DEF Greet, ListFirst, TypeOK
<1>2. CASE served = "active"
  <2>1. sock = "Connected" /\ state_ = "Init" /\ toClient = << >>
    BY <1>2 DEF RequestInv, ViewInv, StoppedIsEmpty, ListFirst, TypeOK
  <2>2. toClient' = <<Say("list", windows), Say("got_focus", onFocus)>> /\ state_' = "Init"
    BY <2>1 DEF Greet, ServerStep
  <2>3. /\ Len(toClient') = 2 /\ toClient' # << >>
        /\ toClient'[1].kind = "list" /\ toClient'[2].kind = "got_focus"
    BY <2>2 DEF Say
  <2>4. \A i \in 1 .. Len(toClient') : i = 1 \/ i = 2
    BY <2>3
  <2>5. served' = "greeted"
    BY <1>2 DEF Greet
  <2> QED
    BY <2>2, <2>3, <2>4, <2>5 DEF ListFirst
<1> QED
  BY <1>1, <1>2 DEF Greet

LEMMA ListFirstStep ==
  ASSUME TypeOK, ViewInv, RequestInv, ListFirst, [Next]_vars
  PROVE  ListFirst'
<1> USE DEF sockVars, wireVars, Running
<1>1. CASE OpenConn
  BY <1>1, ListFirstIdle DEF OpenConn
<1>2. CASE Connected
  <2>1. state_ = "Stopped" /\ served = "pending"
    BY <1>2 DEF Connected, ViewInv, StoppedIsEmpty, RequestInv
  <2>2. CASE pendingClose
    BY <1>2, <2>1, <2>2, ListFirstHangup DEF Connected
  <2>3. CASE ~pendingClose
    BY <1>2, <2>1, <2>3 DEF Connected, Start, ListFirst
  <2> QED
    BY <2>2, <2>3
<1>3. CASE Disconnected
  BY <1>3, ListFirstHangup DEF Disconnected, HardStop
<1>4. CASE ReconnectSelected
  <2>1. CASE sock = "Unconnected"
    BY <1>4, <2>1, ListFirstIdle DEF ReconnectSelected
  <2>2. CASE sock = "Connecting"
    BY <1>4, <2>2, ListFirstHangup DEF ReconnectSelected, ViewInv, StoppedIsEmpty
  <2>3. CASE sock = "Connected"
    BY <1>4, <2>3, ListFirstHangup DEF ReconnectSelected, HardStop
  <2> QED
    BY <1>4, <2>1, <2>2, <2>3 DEF ReconnectSelected
<1>5. CASE ReceiveList \/ ReceiveCreated \/ ReceiveFocus \/ ReceiveResponse
  BY <1>5, ListFirstReceived DEF ReceiveList, ReceiveCreated, ReceiveFocus, ReceiveResponse
<1>6. ASSUME NEW w \in Window, ReceiveDestroyed(w) PROVE ListFirst'
  BY <1>6, ListFirstReceived DEF ReceiveDestroyed
<1>7. CASE Spin \/ (\E o \in Object : DeleteApp(o) \/ SendKeystroke(o)) \/ UNCHANGED vars
  BY <1>7, ListFirstIdle DEF Spin, DeleteApp, SendKeystroke, vars
<1>8. CASE Join
  BY <1>8, ListFirstIdle DEF Join, ServerStep
<1>9. CASE Greet
  BY <1>9, ListFirstGreet
<1>10. CASE Answers
  <2>1. Say("response", Head(toServer)) \in Message
    <3>1. Head(toServer) \in Id \X Request
      BY <1>10 DEF Answers, TypeOK
    <3> QED
      BY <3>1, Says
  <2>2. Say("response", Head(toServer)).kind # "list" /\ UNCHANGED <<state_, served, hung>>
    BY <1>10 DEF Answers, ServerStep, Say
  <2>3. CASE toClient' = toClient
    BY <2>2, <2>3, ListFirstIdle
  <2>4. CASE Greeted /\ toClient' = Append(toClient, Say("response", Head(toServer)))
    BY <2>1, <2>2, <2>4, ListFirstSaid DEF Greeted
  <2> QED
    BY <1>10, <2>3, <2>4 DEF Answers
<1>11. ASSUME NEW w \in Window, Opens(w) \/ Closes(w) PROVE ListFirst'
  BY <1>11, Says, ListFirstTell DEF Opens, Closes, Say
<1>12. ASSUME NEW w \in Window \cup {NONE}, Focuses(w) PROVE ListFirst'
  BY <1>12, Says, ListFirstTell DEF Focuses, Say
<1> QED
  BY <1>1, <1>2, <1>3, <1>4, <1>5, <1>6, <1>7, <1>8, <1>9, <1>10, <1>11, <1>12
     DEF Next, ReceiveMessage

LEMMA ListFirstAlways == Spec => []ListFirst
<1>1. Init => ListFirst
  BY DEF Init, ProtocolInit, ListFirst
<1>2. TypeOK /\ ViewInv /\ RequestInv /\ ListFirst /\ [Next]_vars => ListFirst'
  BY ListFirstStep
<1> QED
  BY <1>1, <1>2, SessionTypeCorrect, ViewAlways, RequestAlways, PTL DEF Spec

-----------------------------------------------------------------------------
(* The view of the windows and of the focus *)

\* Nothing in q is in A; the last of the messages in q that is.
NoWord(q, A) == \A i \in 1 .. Len(q) : q[i] \notin A
LastWord(q, A) ==
  {q[i] : i \in {i \in 1 .. Len(q) : q[i] \in A /\ \A j \in i + 1 .. Len(q) : q[j] \notin A}}

AboutWindow(w) ==
  {m \in Message : m.kind = "list" \/ (m.kind \in {"created", "destroyed"} /\ m.arg = w)}
AboutFocus == {m \in Message : m.kind = "got_focus"}

Shows(m, w) == IF m.kind = "list" THEN w \in m.arg ELSE m.kind = "created"

InStep == served = "greeted" /\ ~hung

(***************************************************************************)
(* Where the list was said first, and is received, the last word under way *)
(* to the client about a window is true, and where none is under way what  *)
(* the client has is true.                                                 *)
(***************************************************************************)
WindowsFollow ==
  InStep => \A w \in Window :
    /\ NoWord(toClient, AboutWindow(w)) => (apps_[w] # NONE <=> w \in windows)
    /\ \A m \in LastWord(toClient, AboutWindow(w)) : Shows(m, w) <=> w \in windows

\* The same of the focus, which the client may have given to no window.
FocusFollows ==
  InStep =>
    /\ NoWord(toClient, AboutFocus) => focusedApp_ \in {NONE, onFocus}
    /\ \A m \in LastWord(toClient, AboutFocus) : m.arg = onFocus

\* An App that has the focus, and is not to be deleted, is that of focusedApp_.
FocusIsLocal ==
  /\ focused \subseteq rows
  /\ \A o \in focused \ doomed : focusedApp_ \in Window /\ o = apps_[focusedApp_]

Follows == WindowsFollow /\ FocusFollows /\ FocusIsLocal

\* A message that is sent is the last word on what it is about.
LEMMA LastOfAppend ==
  ASSUME NEW T, NEW q \in Seq(T), NEW m \in T, NEW A
  PROVE  /\ NoWord(Append(q, m), A) => m \notin A /\ NoWord(q, A)
         /\ LastWord(Append(q, m), A) \subseteq IF m \in A THEN {m} ELSE LastWord(q, A)
<1> DEFINE r == Append(q, m)
           n == Len(q)
<1>1. /\ n \in Nat /\ Len(r) = n + 1 /\ r[n + 1] = m
      /\ \A i \in 1 .. n : r[i] = q[i]
  OBVIOUS
<1> HIDE DEF r, n
<1>2. ASSUME NoWord(r, A) PROVE m \notin A /\ NoWord(q, A)
  <2>1. n + 1 \in 1 .. Len(r) /\ \A i \in 1 .. n : i \in 1 .. Len(r)
    BY <1>1
  <2> QED
    BY <1>1, <1>2, <2>1 DEF NoWord, n
<1>3. ASSUME NEW x \in LastWord(r, A) PROVE x \in IF m \in A THEN {m} ELSE LastWord(q, A)
  <2>1. PICK i \in 1 .. Len(r) : /\ x = r[i] /\ r[i] \in A
                                 /\ \A j \in i + 1 .. Len(r) : r[j] \notin A
    BY <1>3 DEF LastWord
  <2>2. CASE i = n + 1
    BY <1>1, <2>1, <2>2
  <2>3. CASE i # n + 1
    <3>1. i \in 1 .. n /\ n + 1 \in i + 1 .. Len(r)
      BY <1>1, <2>3
    <3>2. m \notin A /\ x = q[i] /\ q[i] \in A
      BY <1>1, <2>1, <3>1
    <3>3. \A j \in i + 1 .. n : j \in i + 1 .. Len(r) /\ r[j] = q[j]
      BY <1>1
    <3>4. \A j \in i + 1 .. n : q[j] \notin A
      BY <2>1, <3>3
    <3> QED
      BY <3>1, <3>2, <3>4 DEF LastWord, n
  <2> QED
    BY <2>2, <2>3
<1> QED
  BY <1>2, <1>3 DEF r

\* A message that is received is the last word only when there is no other.
LEMMA LastOfTail ==
  ASSUME NEW T, NEW q \in Seq(T), q # << >>, NEW A
  PROVE  /\ NoWord(Tail(q), A) =>
              IF Head(q) \in A THEN Head(q) \in LastWord(q, A) ELSE NoWord(q, A)
         /\ LastWord(Tail(q), A) \subseteq LastWord(q, A)
<1> DEFINE r == Tail(q)
           n == Len(r)
<1>1. /\ n \in Nat /\ Len(q) = n + 1 /\ Head(q) = q[1]
      /\ \A i \in 1 .. n : r[i] = q[i + 1]
  OBVIOUS
<1>2. \A k \in 2 .. Len(q) : k - 1 \in 1 .. n /\ q[k] = r[k - 1]
  BY <1>1
<1> HIDE DEF r, n
<1>3. ASSUME NoWord(r, A)
      PROVE  IF q[1] \in A THEN q[1] \in LastWord(q, A) ELSE NoWord(q, A)
  <2>1. \A k \in 2 .. Len(q) : q[k] \notin A
    BY <1>2, <1>3 DEF NoWord, n
  <2>2. 1 \in 1 .. Len(q) /\ \A k \in 1 .. Len(q) : k = 1 \/ k \in 2 .. Len(q)
    BY <1>1
  <2>3. 1 + 1 = 2
    OBVIOUS
  <2> QED
    BY <2>1, <2>2, <2>3 DEF NoWord, LastWord
<1>4. ASSUME NEW x \in LastWord(r, A) PROVE x \in LastWord(q, A)
  <2>1. PICK i \in 1 .. n : /\ x = r[i] /\ r[i] \in A
                            /\ \A j \in i + 1 .. n : r[j] \notin A
    BY <1>4 DEF LastWord, n
  <2>2. i + 1 \in 1 .. Len(q) /\ x = q[i + 1] /\ q[i + 1] \in A
    BY <1>1, <2>1
  <2>3. ASSUME NEW k \in i + 1 + 1 .. Len(q) PROVE q[k] \notin A
    <3>1. k - 1 \in i + 1 .. n /\ k \in 2 .. Len(q)
      BY <1>1
    <3> QED
      BY <1>2, <2>1, <3>1
  <2> QED
    BY <2>2, <2>3 DEF LastWord
<1> QED
  BY <1>1, <1>3, <1>4 DEF r

-----------------------------------------------------------------------------
\* Of a client that was not told the list first, or hangs, nothing is claimed.
LEMMA FollowsUnsaid ==
  ASSUME Follows, UNCHANGED viewVars, ~InStep'
  PROVE  Follows'
BY DEF Follows, WindowsFollow, FocusFollows, FocusIsLocal, viewVars

\* Steps of no message that leave the windows and the view alone.
LEMMA FollowsIdle ==
  ASSUME Follows, UNCHANGED <<viewVars, serverVars, served, hung, toClient>>
  PROVE  Follows'
BY DEF Follows, InStep, WindowsFollow, FocusFollows, FocusIsLocal, viewVars, serverVars

\* A connection that ends, with the session that ends with it.
LEMMA FollowsHangup ==
  ASSUME TypeOK, ViewInv, Follows, HardStop \/ UNCHANGED viewVars, served' # "greeted"
  PROVE  Follows'
<1>1. CASE UNCHANGED viewVars
  BY <1>1 DEF Follows, InStep, WindowsFollow, FocusFollows, FocusIsLocal, viewVars
<1>2. CASE Reset
  BY <1>2 DEF Follows, InStep, WindowsFollow, FocusFollows, FocusIsLocal, Reset, ViewInv,
              RowsAreApps
<1> QED
  BY <1>1, <1>2 DEF HardStop

\* The server says something: of its windows and of its focus what is true.
LEMMA FollowsSent ==
  ASSUME TypeOK, Follows, NEW m \in Message,
         InStep' => InStep /\ toClient' = Append(toClient, m),
         UNCHANGED viewVars,
         \A w \in Window : IF m \in AboutWindow(w) THEN Shows(m, w) <=> w \in windows'
                                                   ELSE w \in windows' <=> w \in windows,
         IF m \in AboutFocus THEN m.arg = onFocus' ELSE onFocus' = onFocus
  PROVE  Follows'
<1>1. CASE ~InStep'
  BY <1>1 DEF Follows, WindowsFollow, FocusFollows, FocusIsLocal, viewVars
<1>2. CASE InStep'
  <2>1. toClient \in Seq(Message) /\ toClient' = Append(toClient, m)
    BY <1>2 DEF TypeOK
  <2>2. ASSUME NEW A
        PROVE  /\ NoWord(toClient', A) => m \notin A /\ NoWord(toClient, A)
               /\ LastWord(toClient', A) \subseteq IF m \in A THEN {m} ELSE LastWord(toClient, A)
    BY <2>1, LastOfAppend
  <2>3. WindowsFollow'
    <3> SUFFICES ASSUME NEW w \in Window
                 PROVE  /\ NoWord(toClient', AboutWindow(w)) =>
                             (apps_'[w] # NONE <=> w \in windows')
                        /\ \A x \in LastWord(toClient', AboutWindow(w)) :
                             Shows(x, w) <=> w \in windows'
      BY DEF WindowsFollow
    <3>1. /\ NoWord(toClient, AboutWindow(w)) => (apps_[w] # NONE <=> w \in windows)
          /\ \A x \in LastWord(toClient, AboutWindow(w)) : Shows(x, w) <=> w \in windows
      BY <1>2 DEF Follows, WindowsFollow
    <3> DEFINE A == AboutWindow(w)
    <3> HIDE DEF A
    <3>2. /\ NoWord(toClient', A) => m \notin A /\ NoWord(toClient, A)
          /\ LastWord(toClient', A) \subseteq IF m \in A THEN {m} ELSE LastWord(toClient, A)
      BY <2>2
    <3> QED
      BY <3>1, <3>2 DEF A, viewVars
  <2>4. FocusFollows'
    BY <1>2, <2>2 DEF Follows, FocusFollows, viewVars
  <2> QED
    BY <2>3, <2>4 DEF Follows, FocusIsLocal, viewVars
<1> QED
  BY <1>1, <1>2

\* The client takes what a message says of the windows and of the focus.
LEMMA FollowsReceived ==
  ASSUME TypeOK, Follows, Take, FocusIsLocal',
         InStep =>
           /\ \A w \in Window :
                apps_'[w] # NONE <=> IF Head(toClient) \in AboutWindow(w)
                                       THEN Shows(Head(toClient), w) ELSE apps_[w] # NONE
           /\ focusedApp_' \in
                {NONE, IF Head(toClient) \in AboutFocus THEN Head(toClient).arg ELSE focusedApp_}
  PROVE  Follows'
<1> DEFINE h == Head(toClient)
<1>1. /\ toClient \in Seq(Message) /\ toClient # << >> /\ toClient' = Tail(toClient)
      /\ InStep' = InStep /\ windows' = windows /\ onFocus' = onFocus
  BY DEF TypeOK, Take, Running, InStep, serverVars
<1>2. ASSUME NEW A
      PROVE  /\ NoWord(toClient', A) =>
                  IF h \in A THEN h \in LastWord(toClient, A) ELSE NoWord(toClient, A)
             /\ LastWord(toClient', A) \subseteq LastWord(toClient, A)
  BY <1>1, LastOfTail
<1> HIDE DEF h
<1>3. WindowsFollow'
  <2> SUFFICES ASSUME InStep, NEW w \in Window
               PROVE  /\ NoWord(toClient', AboutWindow(w)) => (apps_'[w] # NONE <=> w \in windows)
                      /\ \A x \in LastWord(toClient', AboutWindow(w)) :
                           Shows(x, w) <=> w \in windows
    BY <1>1 DEF WindowsFollow
  <2> DEFINE A == AboutWindow(w)
  <2>1. /\ NoWord(toClient, A) => (apps_[w] # NONE <=> w \in windows)
        /\ \A x \in LastWord(toClient, A) : Shows(x, w) <=> w \in windows
    BY DEF Follows, WindowsFollow
  <2>2. apps_'[w] # NONE <=> IF h \in A THEN Shows(h, w) ELSE apps_[w] # NONE
    BY DEF h
  <2> HIDE DEF A
  <2>3. /\ NoWord(toClient', A) =>
             IF h \in A THEN h \in LastWord(toClient, A) ELSE NoWord(toClient, A)
        /\ LastWord(toClient', A) \subseteq LastWord(toClient, A)
    BY <1>2
  <2> QED
    BY <2>1, <2>2, <2>3 DEF A
<1>4. FocusFollows'
  <2> SUFFICES ASSUME InStep
               PROVE  /\ NoWord(toClient', AboutFocus) => focusedApp_' \in {NONE, onFocus}
                      /\ \A x \in LastWord(toClient', AboutFocus) : x.arg = onFocus
    BY <1>1 DEF FocusFollows
  <2>1. /\ NoWord(toClient, AboutFocus) => focusedApp_ \in {NONE, onFocus}
        /\ \A x \in LastWord(toClient, AboutFocus) : x.arg = onFocus
    BY DEF Follows, FocusFollows
  <2>2. focusedApp_' \in {NONE, IF h \in AboutFocus THEN h.arg ELSE focusedApp_}
    BY DEF h
  <2> QED
    BY <1>2, <2>1, <2>2
<1> QED
  BY <1>3, <1>4 DEF Follows

\* What kind of message is about what.
LEMMA Kinds ==
  ASSUME TypeOK, toClient # << >>
  PROVE  LET h == Head(toClient) IN
           /\ Kind = "list" =>
                /\ h \notin AboutFocus /\ FieldOne = Arg
                /\ \A w \in Window : h \in AboutWindow(w) /\ (Shows(h, w) <=> w \in Arg)
           /\ Kind \in {"created", "destroyed"} =>
                /\ h \notin AboutFocus /\ (Kind = "destroyed" => FieldOne = {Arg})
                /\ \A w \in Window : h \in AboutWindow(w) <=> w = Arg
                /\ \A w \in Window : Shows(h, w) <=> Kind = "created"
           /\ Kind = "got_focus" =>
                h \in AboutFocus /\ h.arg = Arg /\ \A w \in Window : h \notin AboutWindow(w)
           /\ Kind = "response" =>
                h \notin AboutFocus /\ \A w \in Window : h \notin AboutWindow(w)
<1>1. Head(toClient) \in Message
  BY DEF TypeOK
<1> QED
  BY <1>1 DEF AboutFocus, AboutWindow, Shows, Kind, Arg, FieldOne

\* What is received first is a list exactly while the client waits for one.
LEMMA HeadIsList ==
  ASSUME TypeOK, ListFirst, Take, InStep
  PROVE  Kind = "list" <=> state_ = "Init"
<1>1. Head(toClient) = toClient[1] /\ 1 \in 1 .. Len(toClient)
  BY DEF Take, TypeOK
<1> QED
  BY <1>1 DEF ListFirst, InStep, Kind

\* The Apps of a new list are not focused; those before are to be deleted.
LEMMA FollowsList ==
  ASSUME TypeOK, ViewInv, ListFirst, Follows, ReceiveList
  PROVE  Follows'
<1>1. /\ Take /\ toClient # << >> /\ state_ = "Init"
      /\ focusedApp_' = NONE /\ focused' = focused /\ doomed' = doomed \cup Apps
  BY DEF ReceiveList, Take
<1>2. FieldOne \subseteq Window
  BY <1>1, Arguments
<1>3. PICK new \in [FieldOne -> Object \ rows] :
        /\ apps_' = [w \in Window |->
                       IF w \in FieldOne THEN new[w] ELSE [v \in Window |-> NONE][w]]
        /\ rows' = rows \cup {new[w] : w \in FieldOne}
  BY DEF ReceiveList, CreateAll
<1>4. \A w \in Window : apps_'[w] # NONE <=> w \in FieldOne
  BY <1>3, NoneAssumption
<1>5. FocusIsLocal'
  <2>1. focused \subseteq rows /\ rows = Apps \cup doomed
    BY DEF Follows, FocusIsLocal, ViewInv, RowsAreApps
  <2> QED
    BY <1>1, <1>3, <2>1 DEF FocusIsLocal
<1>6. InStep =>
        /\ Head(toClient) \notin AboutFocus
        /\ \A w \in Window : Head(toClient) \in AboutWindow(w)
                              /\ (Shows(Head(toClient), w) <=> w \in FieldOne)
  BY <1>1, HeadIsList, Kinds
<1> QED
  BY <1>1, <1>4, <1>5, <1>6, FollowsReceived

LEMMA FollowsCreated ==
  ASSUME TypeOK, Follows, ReceiveCreated
  PROVE  Follows'
<1>1. /\ Take /\ toClient # << >> /\ Kind = "created"
      /\ focusedApp_' = focusedApp_ /\ doomed' = doomed
  BY DEF ReceiveCreated, Take
<1>2. Arg \in Window
  BY <1>1, Arguments
<1>3. /\ focused \subseteq rows /\ focused \subseteq Object
      /\ \A o \in focused \ doomed : focusedApp_ \in Window /\ o = apps_[focusedApp_]
  BY DEF Follows, FocusIsLocal, TypeOK
<1>4. /\ \A w \in Window : apps_'[w] # NONE <=> (w = Arg \/ apps_[w] # NONE)
      /\ FocusIsLocal'
  <2>1. CASE apps_[Arg] = NONE
    <3>1. PICK new \in [{Arg} -> Object \ rows] :
            /\ apps_' = [w \in Window |-> IF w \in {Arg} THEN new[w] ELSE apps_[w]]
            /\ rows' = rows \cup {new[w] : w \in {Arg}}
      BY <2>1 DEF ReceiveCreated, CreateAll
    <3>2. focused' = focused
      BY <2>1 DEF ReceiveCreated
    <3>3. \A w \in Window : apps_'[w] # NONE <=> (w = Arg \/ apps_[w] # NONE)
      BY <1>2, <3>1, NoneAssumption
    <3>4. \A o \in focused \ doomed : focusedApp_ # Arg
      BY <1>3, <2>1, NoneAssumption
    <3> QED
      BY <1>1, <1>3, <3>1, <3>2, <3>3, <3>4 DEF FocusIsLocal
  <2>2. CASE apps_[Arg] # NONE
    <3>1. focused' = focused \ {apps_[Arg]} /\ apps_' = apps_ /\ rows' = rows
      BY <2>2 DEF ReceiveCreated
    <3> QED
      BY <1>1, <1>3, <2>2, <3>1 DEF FocusIsLocal
  <2> QED
    BY <2>1, <2>2
<1>5. /\ Head(toClient) \notin AboutFocus
      /\ \A w \in Window : Head(toClient) \in AboutWindow(w) <=> w = Arg
      /\ \A w \in Window : Shows(Head(toClient), w)
  BY <1>1, Kinds
<1> QED
  BY <1>1, <1>4, <1>5, FollowsReceived

LEMMA FollowsDestroyed ==
  ASSUME TypeOK, ListFirst, Follows, NEW w \in Window, ReceiveDestroyed(w)
  PROVE  Follows'
<1>1. /\ Take /\ toClient # << >> /\ state_ = "AcceptingEvents" /\ w \in FieldOne
      /\ focusedApp_' = focusedApp_ /\ rows' = rows
      /\ focused' = focused \ {apps_[w]} /\ doomed' = doomed \cup ({apps_[w]} \ {NONE})
      /\ apps_' = [apps_ EXCEPT ![w] = NONE]
  BY DEF ReceiveDestroyed, Take
<1>2. \A v \in Window : apps_'[v] = IF v = w THEN NONE ELSE apps_[v]
  BY <1>1 DEF TypeOK
<1>3. FocusIsLocal'
  BY <1>1, <1>2 DEF Follows, FocusIsLocal
<1>4. ASSUME InStep
      PROVE  /\ Head(toClient) \notin AboutFocus
             /\ \A v \in Window : Head(toClient) \in AboutWindow(v) <=> v = w
             /\ \A v \in Window : ~Shows(Head(toClient), v)
  <2>1. Kind = "destroyed"
    BY <1>1, <1>4, HeadIsList DEF FieldOne
  <2> QED
    BY <1>1, <2>1, Kinds
<1> QED
  BY <1>1, <1>2, <1>3, <1>4, FollowsReceived

\* The App that had the focus loses it, if it is still there to lose it.
LEMMA FollowsFocus ==
  ASSUME TypeOK, ViewInv, Follows, ReceiveFocus
  PROVE  Follows'
<1> DEFINE app(w) == IF w \in Window THEN {apps_[w]} \ {NONE} ELSE {}
<1>1. /\ Take /\ toClient # << >> /\ Kind = "got_focus"
      /\ focused' = (focused \ app(focusedApp_)) \cup app(Arg)
      /\ focusedApp_' = IF app(Arg) = {} THEN NONE ELSE Arg
      /\ apps_' = apps_ /\ rows' = rows /\ doomed' = doomed
  BY DEF ReceiveFocus, Take
<1>2. /\ focused \subseteq rows /\ focused \subseteq Object
      /\ \A o \in focused \ doomed : focusedApp_ \in Window /\ o = apps_[focusedApp_]
  BY DEF Follows, FocusIsLocal, TypeOK
<1>3. (focused \ app(focusedApp_)) \ doomed = {}
  BY <1>2, NoneAssumption
<1>4. app(Arg) \subseteq rows
  BY DEF ViewInv, RowsAreApps, Apps
<1>5. \A o \in app(Arg) : Arg \in Window /\ o = apps_[Arg]
  OBVIOUS
<1>6. Head(toClient) \in AboutFocus /\ Head(toClient).arg = Arg
      /\ \A w \in Window : Head(toClient) \notin AboutWindow(w)
  BY <1>1, Kinds
<1> HIDE DEF app
<1>7. FocusIsLocal'
  BY <1>1, <1>2, <1>3, <1>4, <1>5 DEF FocusIsLocal
<1> QED
  BY <1>1, <1>6, <1>7, FollowsReceived

LEMMA FollowsResponse ==
  ASSUME TypeOK, Follows, ReceiveResponse
  PROVE  Follows'
<1>1. /\ Take /\ toClient # << >> /\ Kind = "response"
      /\ UNCHANGED viewVars
  BY DEF ReceiveResponse, Take
<1>2. FocusIsLocal'
  BY <1>1 DEF Follows, FocusIsLocal, viewVars
<1>3. Head(toClient) \notin AboutFocus /\ \A w \in Window : Head(toClient) \notin AboutWindow(w)
  BY <1>1, Kinds
<1> QED
  BY <1>1, <1>2, <1>3, FollowsReceived DEF viewVars

\* The first that a client hears is all there is to know.
LEMMA FollowsGreet ==
  ASSUME TypeOK, ListFirst, Follows, Greet, served = "active"
  PROVE  Follows'
<1> DEFINE l == Say("list", windows)
           f == Say("got_focus", onFocus)
<1>1. toClient' = <<l, f>> /\ UNCHANGED viewVars /\ UNCHANGED serverVars
  BY DEF Greet, ServerStep, ListFirst
<1>2. /\ \A w \in Window : /\ l \in AboutWindow(w) /\ f \notin AboutWindow(w)
                           /\ Shows(l, w) <=> w \in windows
      /\ l \notin AboutFocus /\ f \in AboutFocus /\ f.arg = onFocus
  <2>1. l \in Message /\ f \in Message
    BY Says DEF TypeOK
  <2> QED
    BY <2>1 DEF Say, AboutWindow, AboutFocus, Shows
<1> HIDE DEF l, f
<1>3. Len(toClient') = 2 /\ toClient'[1] = l /\ toClient'[2] = f
  BY <1>1
<1>4. \A i \in 1 .. Len(toClient') : i = 1 \/ i = 2
  BY <1>3
<1>5. 1 \in 1 .. Len(toClient') /\ 2 \in 1 .. Len(toClient')
  BY <1>3
<1>6. WindowsFollow'
  <2>1. \A w \in Window : ~NoWord(toClient', AboutWindow(w))
    BY <1>2, <1>3, <1>5 DEF NoWord
  <2>2. \A w \in Window : \A m \in LastWord(toClient', AboutWindow(w)) : m = l
    BY <1>2, <1>3, <1>4 DEF LastWord
  <2> QED
    BY <1>1, <1>2, <2>1, <2>2 DEF WindowsFollow, serverVars
<1>7. FocusFollows'
  <2>1. ~NoWord(toClient', AboutFocus)
    BY <1>2, <1>3, <1>5 DEF NoWord
  <2>2. \A m \in LastWord(toClient', AboutFocus) : m = f
    BY <1>2, <1>3, <1>4 DEF LastWord
  <2> QED
    BY <1>1, <1>2, <2>1, <2>2 DEF FocusFollows, serverVars
<1> QED
  BY <1>1, <1>6, <1>7 DEF Follows, FocusIsLocal, viewVars

LEMMA FollowsAnswers ==
  ASSUME TypeOK, Follows, Answers
  PROVE  Follows'
<1>1. UNCHANGED <<viewVars, serverVars, served, hung>>
  BY DEF Answers, ServerStep
<1>2. CASE toClient' = toClient
  BY <1>1, <1>2, FollowsIdle
<1>3. CASE Greeted /\ toClient' = Append(toClient, Say("response", Head(toServer)))
  <2>1. Say("response", Head(toServer)) \in Message
    <3>1. Head(toServer) \in Id \X Request
      BY DEF Answers, TypeOK
    <3> QED
      BY <3>1, Says
  <2> DEFINE m == Say("response", Head(toServer))
  <2>2. m \notin AboutFocus /\ \A w \in Window : m \notin AboutWindow(w)
    BY DEF Say, AboutFocus, AboutWindow
  <2> HIDE DEF m
  <2> QED
    BY <1>1, <1>3, <2>1, <2>2, FollowsSent DEF m, serverVars, InStep
<1> QED
  BY <1>2, <1>3 DEF Answers

\* What a window that opens or closes, or gets the focus, is said to do.
LEMMA FollowsWindow ==
  ASSUME TypeOK, Follows, NEW w \in Window, Opens(w) \/ Closes(w)
  PROVE  Follows'
<1> DEFINE kind == IF w \in windows THEN "destroyed" ELSE "created"
           m == Say(kind, w)
<1>1. /\ Tell(m) /\ onFocus' = onFocus
      /\ windows' = IF w \in windows THEN windows \ {w} ELSE windows \cup {w}
  BY DEF Opens, Closes
<1>2. m \in Message
  BY Says
<1>3. /\ m \notin AboutFocus
      /\ \A v \in Window : m \in AboutWindow(v) <=> v = w
      /\ Shows(m, w) <=> w \notin windows
  BY <1>2 DEF Say, AboutFocus, AboutWindow, Shows
<1> HIDE DEF m, kind
<1>4. UNCHANGED viewVars /\ (InStep' => InStep /\ toClient' = Append(toClient, m))
  BY <1>1 DEF Tell, ServerStep, InStep
<1>5. \A v \in Window : IF m \in AboutWindow(v) THEN Shows(m, v) <=> v \in windows'
                                                ELSE v \in windows' <=> v \in windows
  BY <1>1, <1>3
<1> QED
  BY <1>1, <1>2, <1>3, <1>4, <1>5, FollowsSent

LEMMA FollowsFocuses ==
  ASSUME TypeOK, Follows, NEW w \in Window \cup {NONE}, Focuses(w)
  PROVE  Follows'
<1> DEFINE m == Say("got_focus", w)
<1>1. Tell(m) /\ onFocus' = w /\ windows' = windows
  BY DEF Focuses
<1>2. m \in Message
  BY Says
<1>3. m \in AboutFocus /\ m.arg = w /\ \A v \in Window : m \notin AboutWindow(v)
  BY <1>2 DEF Say, AboutFocus, AboutWindow
<1> HIDE DEF m
<1>4. UNCHANGED viewVars /\ (InStep' => InStep /\ toClient' = Append(toClient, m))
  BY <1>1 DEF Tell, ServerStep, InStep
<1> QED
  BY <1>1, <1>2, <1>3, <1>4, FollowsSent

LEMMA FollowsStep ==
  ASSUME TypeOK, ViewInv, ListFirst, Follows, [Next]_vars
  PROVE  Follows'
<1> USE DEF Running
<1>1. CASE OpenConn
  BY <1>1, FollowsIdle DEF OpenConn
<1>2. CASE Connected
  <2>1. CASE pendingClose
    BY <1>2, <2>1, FollowsHangup DEF Connected, Hangup
  <2>2. CASE ~pendingClose
    BY <1>2, <2>2, FollowsIdle DEF Connected, wireVars
  <2> QED
    BY <2>1, <2>2
<1>3. CASE Disconnected
  BY <1>3, FollowsHangup DEF Disconnected, Hangup
<1>4. CASE ReconnectSelected
  <2>1. CASE sock = "Unconnected"
    BY <1>4, <2>1, FollowsIdle DEF ReconnectSelected
  <2>2. CASE sock # "Unconnected"
    BY <1>4, <2>2, FollowsHangup DEF ReconnectSelected, Hangup
  <2> QED
    BY <2>1, <2>2
<1>5. CASE ReceiveMessage
  <2>1. CASE Spin
    BY <2>1, FollowsUnsaid DEF Spin, InStep
  <2> QED
    BY <1>5, <2>1, FollowsList, FollowsCreated, FollowsDestroyed, FollowsFocus, FollowsResponse
       DEF ReceiveMessage
<1>6. ASSUME NEW o \in Object, DeleteApp(o) PROVE Follows'
  <2>1. /\ UNCHANGED <<apps_, focusedApp_, hung, serverVars, wireVars>>
        /\ doomed' = doomed \ {o} /\ rows' = rows \ {o} /\ focused' = focused \ {o}
    BY <1>6 DEF DeleteApp
  <2>2. FocusIsLocal'
    BY <2>1 DEF Follows, FocusIsLocal
  <2> QED
    BY <2>1, <2>2 DEF Follows, InStep, WindowsFollow, FocusFollows, serverVars, wireVars
<1>7. ASSUME NEW o \in Object, SendKeystroke(o) PROVE Follows'
  BY <1>7, FollowsIdle DEF SendKeystroke
<1>8. CASE Join \/ Greet \/ Answers
  <2>1. CASE Join
    BY <2>1, FollowsUnsaid DEF Join, ServerStep, InStep
  <2>2. CASE Greet /\ served = "early"
    BY <2>2, FollowsUnsaid DEF Greet, ServerStep, InStep
  <2>3. CASE Greet /\ served = "active"
    BY <2>3, FollowsGreet
  <2> QED
    BY <1>8, <2>1, <2>2, <2>3, FollowsAnswers DEF Greet
<1>9. ASSUME NEW w \in Window, Opens(w) \/ Closes(w) PROVE Follows'
  BY <1>9, FollowsWindow
<1>10. ASSUME NEW w \in Window \cup {NONE}, Focuses(w) PROVE Follows'
  BY <1>10, FollowsFocuses
<1>11. CASE UNCHANGED vars
  BY <1>11, FollowsIdle DEF vars, wireVars
<1> QED
  BY <1>1, <1>2, <1>3, <1>4, <1>5, <1>6, <1>7, <1>8, <1>9, <1>10, <1>11 DEF Next

(***************************************************************************)
(* Whenever a client that was told of no event before its list has         *)
(* received all that the server told it, it has exactly the windows of the *)
(* server, and shows the focus on none but the one that has it: in any     *)
(* order of what happens to the windows, across lists, events, deletions   *)
(* that come late, and reconnections.  One that hangs on an empty list     *)
(* never has received all.                                                 *)
(***************************************************************************)
THEOREM ViewCatchesUp == Spec => []ViewFollows
<1>1. Init => Follows
  BY DEF Init, Follows, InStep, WindowsFollow, FocusFollows, FocusIsLocal
<1>2. TypeOK /\ ViewInv /\ ListFirst /\ Follows /\ [Next]_vars => Follows'
  BY FollowsStep
<1>3. TypeOK /\ ListFirst /\ Follows => ViewFollows
  <2> SUFFICES ASSUME TypeOK, ListFirst, Follows, served = "greeted", toClient = << >>
               PROVE  /\ {w \in Window : apps_[w] # NONE} = windows
                      /\ focused \ doomed \subseteq {apps_[w] : w \in windows \cap {onFocus}}
    BY DEF ViewFollows
  <2>1. InStep /\ \A A : NoWord(toClient, A)
    BY DEF ListFirst, InStep, NoWord
  <2>2. \A w \in Window : apps_[w] # NONE <=> w \in windows
    BY <2>1 DEF Follows, WindowsFollow
  <2>3. focusedApp_ \in {NONE, onFocus}
    BY <2>1 DEF Follows, FocusFollows
  <2>4. \A o \in focused \ doomed : o # NONE /\ focusedApp_ \in Window /\ o = apps_[focusedApp_]
    BY NoneAssumption DEF Follows, FocusIsLocal, TypeOK
  <2>5. NONE \notin Window
    BY NoneAssumption
  <2> QED
    BY <2>2, <2>3, <2>4, <2>5 DEF TypeOK
<1> QED
  BY <1>1, <1>2, <1>3, SessionTypeCorrect, ViewAlways, ListFirstAlways, PTL DEF Spec
=============================================================================
