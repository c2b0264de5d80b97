-------------------------- MODULE MainWindowProofs --------------------------
(***************************************************************************)
(* Proofs about what the client's windows list, for any number of          *)
(* connections and applications: no row outlives its object, and every     *)
(* Connection has one owner.  All rests on the order of deferred           *)
(* deletions, so the first lemmas are about the queue of posted objects.   *)
(***************************************************************************)
EXTENDS MainWindow, FiniteSetTheorems, TLAPS

In(q) == {q[i] : i \in 1 .. Len(q)}
Once(q) == \A i, j \in 1 .. Len(q) : q[i] = q[j] => i = j
Before(q, x, y) == \E i, j \in 1 .. Len(q) : i < j /\ q[i] = x /\ q[j] = y

\* An injective enumeration of a finite set reaches every member.
LEMMA Enumerates ==
  ASSUME NEW S, IsFiniteSet(S), NEW u \in [1 .. Cardinality(S) -> S],
         \A i, j \in 1 .. Cardinality(S) : u[i] = u[j] => i = j
  PROVE  \A x \in S : \E i \in 1 .. Cardinality(S) : u[i] = x
<1>1. Cardinality(S) \in Nat
  BY FS_CardinalityType
<1>2. Cardinality(1 .. Cardinality(S)) = Cardinality(S)
  BY <1>1, FS_Interval
<1>3. u \in Injection(1 .. Cardinality(S), S)
  BY DEF Injection, IsInjective
<1>4. u \in Surjection(1 .. Cardinality(S), S)
  BY <1>2, <1>3, FS_Injection
<1> QED
  BY <1>4 DEF Surjection

\* deleteLater() of every object of S: each is posted once, behind the others.
LEMMA Posts ==
  ASSUME NEW T, NEW q \in Seq(T), Once(q), NEW S, S \subseteq T, IsFiniteSet(S),
         NEW r \in DeleteLater(q, S)
  PROVE  /\ r \in Seq(T) /\ Once(r) /\ In(r) = In(q) \cup S
         /\ \A x, y : Before(q, x, y) => Before(r, x, y)
         /\ \A x \in In(q), y \in S \ In(q) : Before(r, x, y)
<1> DEFINE new == S \ In(q)
           n   == Cardinality(new)
<1>1. IsFiniteSet(new) /\ n \in Nat
  BY FS_Subset, FS_CardinalityType
<1>2. PICK u \in [1 .. n -> new] :
        (\A i, j \in 1 .. n : u[i] = u[j] => i = j) /\ r = q \o u
  BY DEF DeleteLater, In
<1>3. \A x \in new : \E i \in 1 .. n : u[i] = x
  BY <1>1, <1>2, Enumerates
<1> HIDE DEF n
<1>4. u \in Seq(T) /\ Len(u) = n
  BY <1>1, <1>2
<1>5. /\ r \in Seq(T) /\ Len(r) = Len(q) + n /\ Len(q) \in Nat
      /\ \A i \in 1 .. Len(q) : r[i] = q[i]
      /\ \A i \in 1 .. n : r[Len(q) + i] = u[i]
  <2>1. r \in Seq(T) /\ Len(r) = Len(q) + n /\ Len(q) \in Nat
    <3>1. r = q \o u /\ Len(q) \in Nat
      BY <1>2
    <3>2. q \o u \in Seq(T) /\ Len(q \o u) = Len(q) + Len(u)
      BY <1>4
    <3> QED
      BY <1>4, <3>1, <3>2
  <2>2. \A i \in 1 .. Len(r) : r[i] = IF i <= Len(q) THEN q[i] ELSE u[i - Len(q)]
    BY <1>2, <1>4, <2>1
  <2>3. ASSUME NEW i \in 1 .. n PROVE r[Len(q) + i] = u[i]
    <3>1. Len(q) + i \in 1 .. Len(r) /\ ~(Len(q) + i <= Len(q)) /\ (Len(q) + i) - Len(q) = i
      BY <1>1, <2>1
    <3> QED
      BY <2>2, <3>1
  <2> QED
    BY <1>1, <2>1, <2>2, <2>3
<1>11. /\ \A i \in 1 .. Len(q) : q[i] \in In(q)
       /\ \A i \in 1 .. n : u[i] \in S /\ u[i] \notin In(q)
  BY <1>2 DEF In
<1>6. \A i \in 1 .. Len(r) : i \in 1 .. Len(q) \/ \E j \in 1 .. n : i = Len(q) + j
  <2> TAKE i \in 1 .. Len(r)
  <2>1. i \notin 1 .. Len(q) => i - Len(q) \in 1 .. n /\ i = Len(q) + (i - Len(q))
    BY <1>1, <1>5
  <2> QED
    BY <2>1
<1>7. In(r) = In(q) \cup S
  <2>1. In(r) \subseteq In(q) \cup S
    <3> SUFFICES ASSUME NEW i \in 1 .. Len(r) PROVE r[i] \in In(q) \cup S
      BY DEF In
    <3> QED
      BY <1>5, <1>11, <1>6
  <2>2. In(q) \subseteq In(r)
    BY <1>1, <1>5 DEF In
  <2>3. new \subseteq In(r)
    <3> SUFFICES ASSUME NEW x \in new PROVE x \in In(r)
      OBVIOUS
    <3>1. PICK i \in 1 .. n : u[i] = x
      BY <1>3
    <3>2. Len(q) + i \in 1 .. Len(r) /\ r[Len(q) + i] = x
      BY <1>1, <1>5, <3>1
    <3> QED
      BY <3>2 DEF In
  <2> QED
    BY <2>1, <2>2, <2>3
<1>8. Once(r)
  <2> SUFFICES ASSUME NEW i \in 1 .. Len(r), NEW j \in 1 .. Len(r), r[i] = r[j]
               PROVE  i = j
    BY DEF Once
  <2>1. CASE i \in 1 .. Len(q) /\ j \in 1 .. Len(q)
    BY <1>5, <2>1 DEF Once
  <2>2. CASE (\E k \in 1 .. n : i = Len(q) + k) /\ (\E k \in 1 .. n : j = Len(q) + k)
    BY <1>2, <1>5, <2>2
  <2>3. CASE i \in 1 .. Len(q) /\ (\E k \in 1 .. n : j = Len(q) + k)
    BY <1>5, <1>11, <2>3
  <2>4. CASE j \in 1 .. Len(q) /\ (\E k \in 1 .. n : i = Len(q) + k)
    BY <1>5, <1>11, <2>4
  <2> QED
    BY <1>6, <2>1, <2>2, <2>3, <2>4
<1>9. ASSUME NEW x, NEW y, Before(q, x, y) PROVE Before(r, x, y)
  BY <1>1, <1>5, <1>9 DEF Before
<1>10. ASSUME NEW x \in In(q), NEW y \in new PROVE Before(r, x, y)
  <2>1. PICK i \in 1 .. Len(q) : q[i] = x
    BY DEF In
  <2>2. PICK j \in 1 .. n : u[j] = y
    BY <1>3
  <2>3. /\ i \in 1 .. Len(r) /\ Len(q) + j \in 1 .. Len(r) /\ i < Len(q) + j
        /\ r[i] = x /\ r[Len(q) + j] = y
    BY <1>1, <1>5, <2>1, <2>2
  <2> QED
    BY <2>3 DEF Before
<1> QED
  BY <1>5, <1>7, <1>8, <1>9, <1>10

\* The loop takes the first posted object.
LEMMA Takes ==
  ASSUME NEW T, NEW q \in Seq(T), q # << >>, Once(q)
  PROVE  /\ Tail(q) \in Seq(T) /\ Once(Tail(q))
         /\ Head(q) \in In(q) /\ In(Tail(q)) = In(q) \ {Head(q)}
         /\ \A x, y : Before(q, x, y) /\ x # Head(q) => Before(Tail(q), x, y)
         /\ \A x : ~Before(q, x, Head(q))
<1>1. /\ Tail(q) \in Seq(T) /\ Len(q) \in Nat \ {0} /\ Len(Tail(q)) = Len(q) - 1
      /\ \A i \in 1 .. Len(Tail(q)) : Tail(q)[i] = q[i + 1]
      /\ Head(q) = q[1]
  OBVIOUS
<1>2. Once(Tail(q))
  BY <1>1 DEF Once
<1>3. \A i \in 1 .. Len(q) : i = 1 \/ (i - 1 \in 1 .. Len(Tail(q)) /\ Tail(q)[i - 1] = q[i])
  BY <1>1
<1>4. In(Tail(q)) = In(q) \ {Head(q)}
  <2>1. In(Tail(q)) \subseteq In(q) \ {Head(q)}
    BY <1>1 DEF In, Once
  <2>2. In(q) \ {Head(q)} \subseteq In(Tail(q))
    BY <1>1, <1>3 DEF In
  <2> QED
    BY <2>1, <2>2
<1>5. ASSUME NEW x, NEW y, Before(q, x, y), x # Head(q) PROVE Before(Tail(q), x, y)
  <2>1. PICK i \in 1 .. Len(q), j \in 1 .. Len(q) : i < j /\ q[i] = x /\ q[j] = y
    BY <1>5 DEF Before
  <2>2. /\ i - 1 \in 1 .. Len(Tail(q)) /\ j - 1 \in 1 .. Len(Tail(q)) /\ i - 1 < j - 1
        /\ Tail(q)[i - 1] = x /\ Tail(q)[j - 1] = y
    BY <1>1, <1>3, <1>5, <2>1
  <2> QED
    BY <2>2 DEF Before
<1>6. \A x : ~Before(q, x, Head(q))
  BY <1>1 DEF Before, Once
<1>7. Head(q) \in In(q)
  BY <1>1 DEF In
<1> QED
  BY <1>1, <1>2, <1>4, <1>5, <1>6, <1>7

-----------------------------------------------------------------------------
(* The inductive invariant *)

\* An App has a row for as long as it exists; it is in its Connection's apps_
\* until its deletion is posted.
AppsInv ==
  /\ order_ = {a \in App : parent[a] # NONE}
  /\ \A c \in Conn : \A a \in apps_[c] : parent[a] = c
  /\ \A a \in App : parent[a] # NONE =>
       (a \in apps_[parent[a]] <=> AppObject(a) \notin In(posted))
  /\ \A a \in App : AppObject(a) \in In(posted) => parent[a] # NONE

\* A Connection, by who owns it.  What hangs on it is deleted before it.
ConnInv(c) ==
  /\ c \in conns_ <=> c \in connections_ \/ Connection(c) \in In(posted)
  /\ sock[c] = "none" =>
       /\ c \notin connections_ /\ c \notin dialogs /\ Connection(c) \notin In(posted)
       /\ \A a \in App : parent[a] # c
  /\ sock[c] # "none" => c \in conn_ \/ c \in connections_ \/ Connection(c) \in In(posted)
  /\ c \in conn_ =>
       /\ c \notin connections_ /\ Connection(c) \notin In(posted)
       /\ sock[c] # "Connected" /\ \A a \in App : parent[a] # c
  /\ Connection(c) \in In(posted) =>
       /\ c \notin connections_ /\ sock[c] # "Connected" /\ apps_[c] = {}
       /\ \A a \in App : parent[a] = c => Before(posted, AppObject(a), Connection(c))
       /\ c \in dialogs => Before(posted, Dialog(c), Connection(c))
  /\ c \in dialogs \ conn_ => Dialog(c) \in In(posted)
  /\ Dialog(c) \in In(posted) => c \in dialogs

Inv == Once(posted) /\ AppsInv /\ \A c \in Conn : ConnInv(c)

Objects == {Dialog(c) : c \in Conn} \cup {Connection(c) : c \in Conn}
             \cup {AppObject(a) : a \in App}

\* An object is a dialog, a Connection or an App, and one of them.
LEMMA Distinct ==
  /\ \A c, d : Dialog(c) = Dialog(d) => c = d
  /\ \A c, d : Connection(c) = Connection(d) => c = d
  /\ \A a, b : AppObject(a) = AppObject(b) => a = b
  /\ \A c, d : Dialog(c) # Connection(d)
  /\ \A c, a : Dialog(c) # AppObject(a) /\ Connection(c) # AppObject(a)
<1>1. \A c, d : Dialog(c) = Dialog(d) => c = d
  <2> TAKE c, d
  <2>1. Dialog(c).dialog = c /\ Dialog(d).dialog = d
    BY DEF Dialog
  <2> QED
    BY <2>1
<1>2. \A c, d : Connection(c) = Connection(d) => c = d
  <2> TAKE c, d
  <2>1. Connection(c).conn = c /\ Connection(d).conn = d
    BY DEF Connection
  <2> QED
    BY <2>1
<1>3. \A a, b : AppObject(a) = AppObject(b) => a = b
  <2> TAKE a, b
  <2>1. AppObject(a).app = a /\ AppObject(b).app = b
    BY DEF AppObject
  <2> QED
    BY <2>1
<1>4. \A c, d : Dialog(c) # Connection(d)
  <2> TAKE c, d
  <2>1. DOMAIN Dialog(c) = {"dialog"} /\ DOMAIN Connection(d) = {"conn"}
    BY DEF Dialog, Connection
  <2> QED
    BY <2>1
<1>5. \A c, a : Dialog(c) # AppObject(a) /\ Connection(c) # AppObject(a)
  <2> TAKE c, a
  <2>1. DOMAIN Dialog(c) = {"dialog"} /\ DOMAIN Connection(c) = {"conn"}
        /\ DOMAIN AppObject(a) = {"app"}
    BY DEF Dialog, Connection, AppObject
  <2> QED
    BY <2>1
<1> QED
  BY <1>1, <1>2, <1>3, <1>4, <1>5

\* The objects that a Connection deletes when it is reset.
LEMMA Finitely ==
  ASSUME TypeOK, NEW c \in Conn
  PROVE  /\ IsFiniteSet(AppObjects(c)) /\ AppObjects(c) \subseteq Objects
         /\ \A a \in App : AppObject(a) \in AppObjects(c) <=> a \in apps_[c]
         /\ \A x \in AppObjects(c) : \E a \in apps_[c] : x = AppObject(a)
         /\ \A d : {Dialog(d)} \subseteq Objects <=> d \in Conn
<1>1. apps_[c] \subseteq App /\ IsFiniteSet(apps_[c])
  BY AppAssumption, FS_Subset DEF TypeOK
<1> DEFINE f == [a \in apps_[c] |-> AppObject(a)]
<1>2. f \in Surjection(apps_[c], AppObjects(c))
  BY DEF Surjection, AppObjects
<1>3. IsFiniteSet(AppObjects(c))
  BY <1>1, <1>2, FS_Surjection
<1>4. \A a \in App : AppObject(a) \in AppObjects(c) <=> a \in apps_[c]
  BY Distinct DEF AppObjects
<1>5. \A d : {Dialog(d)} \subseteq Objects <=> d \in Conn
  BY Distinct DEF Objects
<1>6. AppObjects(c) \subseteq Objects /\ \A x \in AppObjects(c) : \E a \in apps_[c] : x = AppObject(a)
  BY <1>1 DEF AppObjects, Objects
<1> QED
  BY <1>3, <1>4, <1>5, <1>6

\* Selections, the focus and the label are none of the invariant.
LEMMA InvAlone ==
  ASSUME Inv, UNCHANGED <<dialogs, conn_, sock, apps_, parent, order_, connections_, conns_, posted>>
  PROVE  Inv'
<1>1. Once(posted)' /\ AppsInv'
  BY DEF Inv, AppsInv
<1>2. ASSUME NEW c \in Conn PROVE ConnInv(c)'
  BY DEF Inv, ConnInv
<1> QED
  BY <1>1, <1>2 DEF Inv

\* The label shows a number of applications.
LEMMA LabelType ==
  ASSUME NEW S, S \subseteq App
  PROVE  Cardinality(S) \in 0 .. Cardinality(App)
<1>1. Cardinality(S) \in Nat /\ Cardinality(App) \in Nat /\ Cardinality(S) <= Cardinality(App)
  BY AppAssumption, FS_Subset, FS_CardinalityType
<1> QED
  BY <1>1

-----------------------------------------------------------------------------
(* Each action keeps the invariant *)

LEMMA AddConnectionKeeps ==
  ASSUME TypeOK, Inv, NEW c \in Conn, AddConnection(c)
  PROVE  TypeOK' /\ Inv'
<1> USE DEF appVars, listVars, shownVars
<1>1. /\ sock[c] = "none" /\ c \notin dialogs
      /\ dialogs' = dialogs \cup {c} /\ conn_' = conn_ \cup {c} /\ sock'[c] = "Unconnected"
      /\ \A d \in Conn \ {c} : sock'[d] = sock[d]
      /\ UNCHANGED <<apps_, parent, order_, connections_, conns_, posted>>
  BY DEF AddConnection, ConnectDialog, TypeOK
<1>2. TypeOK'
  BY DEF AddConnection, ConnectDialog, TypeOK, SocketState
<1>3. Once(posted)' /\ AppsInv'
  BY <1>1 DEF Inv, AppsInv
<1>4. ASSUME NEW d \in Conn PROVE ConnInv(d)'
  <2>1. ConnInv(d) /\ ConnInv(c)
    BY DEF Inv
  <2>2. CASE d = c
    BY <1>1, <2>1, <2>2 DEF ConnInv
  <2>3. CASE d # c
    BY <1>1, <2>1, <2>3 DEF ConnInv
  <2> QED
    BY <2>2, <2>3
<1> QED
  BY <1>2, <1>3, <1>4 DEF Inv

LEMMA OpenConnKeeps ==
  ASSUME TypeOK, Inv, NEW c \in Conn, OpenConn(c)
  PROVE  TypeOK' /\ Inv'
<1> USE DEF appVars, listVars, shownVars
<1>1. /\ c \in conn_ /\ sock[c] = "Unconnected" /\ sock'[c] = "Connecting"
      /\ \A d \in Conn \ {c} : sock'[d] = sock[d]
      /\ UNCHANGED <<dialogs, conn_, apps_, parent, order_, connections_, conns_, posted>>
  BY DEF OpenConn, TypeOK
<1>2. TypeOK'
  BY DEF OpenConn, TypeOK, SocketState
<1>3. Once(posted)' /\ AppsInv'
  BY <1>1 DEF Inv, AppsInv
<1>4. ASSUME NEW d \in Conn PROVE ConnInv(d)'
  <2>1. ConnInv(d)
    BY DEF Inv
  <2>2. CASE d = c
    BY <1>1, <2>1, <2>2 DEF ConnInv
  <2>3. CASE d # c
    BY <1>1, <2>1, <2>3 DEF ConnInv
  <2> QED
    BY <2>2, <2>3
<1> QED
  BY <1>2, <1>3, <1>4 DEF Inv

\* Posting the deletion of a dialog.
LEMMA PostsDialog ==
  ASSUME TypeOK, Inv, NEW c \in Conn, posted' \in DeleteLater(posted, {Dialog(c)})
  PROVE  /\ posted' \in Seq(Objects) /\ Once(posted') /\ In(posted') = In(posted) \cup {Dialog(c)}
         /\ \A x, y : Before(posted, x, y) => Before(posted', x, y)
<1>1. {Dialog(c)} \subseteq Objects /\ IsFiniteSet({Dialog(c)})
  BY FS_Singleton DEF Objects
<1>2. posted \in Seq(Objects) /\ Once(posted)
  BY DEF TypeOK, Objects, Inv
<1> QED
  BY <1>1, <1>2, Posts

LEMMA CancelKeeps ==
  ASSUME TypeOK, Inv, NEW c \in Conn, Cancel(c)
  PROVE  TypeOK' /\ Inv'
<1> USE DEF appVars, listVars, shownVars
<1>1. /\ c \in conn_ /\ UNCHANGED <<dialogs, conn_, sock, appVars, listVars, shownVars>>
      /\ posted' \in DeleteLater(posted, {Dialog(c)})
  BY DEF Cancel
<1>2. /\ posted' \in Seq(Objects) /\ Once(posted') /\ In(posted') = In(posted) \cup {Dialog(c)}
      /\ \A x, y : Before(posted, x, y) => Before(posted', x, y)
  BY <1>1, PostsDialog
<1>3. TypeOK'
  BY <1>1, <1>2 DEF TypeOK, Objects
<1>4. AppsInv'
  BY <1>1, <1>2, Distinct DEF Inv, AppsInv
<1>5. ASSUME NEW d \in Conn PROVE ConnInv(d)'
  <2>1. ConnInv(d) /\ c \in dialogs
    BY <1>1 DEF Inv, TypeOK
  <2> QED
    BY <1>1, <1>2, <2>1, Distinct DEF ConnInv
<1> QED
  BY <1>2, <1>3, <1>4, <1>5 DEF Inv

LEMMA ConnectedKeeps ==
  ASSUME TypeOK, Inv, NEW c \in Conn, Connected(c)
  PROVE  TypeOK' /\ Inv'
<1> USE DEF appVars, listVars, shownVars, Accept, ServerListAddConnection, AppListAddConnection
<1>1. /\ sock[c] = "Connecting" /\ Connection(c) \notin In(posted)
      /\ sock' = [sock EXCEPT ![c] = "Connected"]
      /\ sock'[c] = "Connected" /\ \A d \in Conn \ {c} : sock'[d] = sock[d]
      /\ UNCHANGED <<dialogs, apps_, parent, focused, selected, label>>
  BY DEF Connected, TypeOK, Posted, In
<1>2. CASE c \in conn_
  <2>1. /\ conn_' = conn_ \ {c} /\ connections_' = connections_ \cup {c}
        /\ conns_' = conns_ \cup {c} /\ order_' = order_ \cup apps_[c]
        /\ updateTimer_' = TRUE /\ numConns_' = numConns_
        /\ posted' \in DeleteLater(posted, {Dialog(c)})
    BY <1>2 DEF Connected
  <2>2. /\ posted' \in Seq(Objects) /\ Once(posted')
        /\ In(posted') = In(posted) \cup {Dialog(c)}
        /\ \A x, y : Before(posted, x, y) => Before(posted', x, y)
    BY <2>1, PostsDialog
  <2>3. TypeOK'
    BY <1>1, <2>1, <2>2 DEF TypeOK, Objects, SocketState
  <2>4. apps_[c] \subseteq order_
    BY NoneAssumption DEF Inv, AppsInv, TypeOK
  <2>5. AppsInv'
    BY <1>1, <2>1, <2>2, <2>4, Distinct DEF Inv, AppsInv
  <2>6. ASSUME NEW d \in Conn PROVE ConnInv(d)'
    <3>1. ConnInv(d) /\ c \in dialogs
      BY <1>2 DEF Inv, TypeOK
    <3>2. CASE d = c
      BY <1>1, <1>2, <2>1, <2>2, <3>1, <3>2, Distinct DEF ConnInv
    <3>3. CASE d # c
      BY <1>1, <1>2, <2>1, <2>2, <3>1, <3>3, Distinct DEF ConnInv
    <3> QED
      BY <3>2, <3>3
  <2> QED
    BY <2>2, <2>3, <2>5, <2>6 DEF Inv
<1>3. CASE c \notin conn_
  <2>1. UNCHANGED <<conn_, order_, connections_, conns_, numConns_, updateTimer_, posted>>
    BY <1>3 DEF Connected
  <2>2. TypeOK'
    BY <1>1, <2>1 DEF TypeOK, SocketState
  <2>3. AppsInv' /\ Once(posted)'
    BY <1>1, <2>1 DEF Inv, AppsInv
  <2>4. ASSUME NEW d \in Conn PROVE ConnInv(d)'
    <3>1. ConnInv(d)
      BY DEF Inv
    <3>2. CASE d = c
      BY <1>1, <1>3, <2>1, <3>1, <3>2 DEF ConnInv
    <3>3. CASE d # c
      BY <1>1, <2>1, <3>1, <3>3 DEF ConnInv
    <3> QED
      BY <3>2, <3>3
  <2> QED
    BY <2>2, <2>3, <2>4 DEF Inv
<1> QED
  BY <1>2, <1>3

\* reset(): all applications of the Connection are posted, and none is left.
LEMMA ResetKeeps ==
  ASSUME TypeOK, Inv, NEW c \in Conn, NEW q \in DeleteLater(posted, AppObjects(c))
  PROVE  /\ q \in Seq(Objects) /\ Once(q) /\ In(q) = In(posted) \cup AppObjects(c)
         /\ \A x, y : Before(posted, x, y) => Before(q, x, y)
         /\ \A a \in App : parent[a] = c => AppObject(a) \in In(q)
         /\ \A d : /\ Connection(d) \in In(q) <=> Connection(d) \in In(posted)
                   /\ Dialog(d) \in In(q) <=> Dialog(d) \in In(posted)
<1>1. IsFiniteSet(AppObjects(c)) /\ AppObjects(c) \subseteq Objects
  BY Finitely
<1>2. posted \in Seq(Objects) /\ Once(posted)
  BY DEF TypeOK, Objects, Inv
<1>3. /\ q \in Seq(Objects) /\ Once(q) /\ In(q) = In(posted) \cup AppObjects(c)
      /\ \A x, y : Before(posted, x, y) => Before(q, x, y)
  BY <1>1, <1>2, Posts
<1>4. ASSUME NEW a \in App, parent[a] = c PROVE AppObject(a) \in In(q)
  <2>1. a \in apps_[c] \/ AppObject(a) \in In(posted)
    BY <1>4, NoneAssumption DEF Inv, AppsInv
  <2> QED
    BY <1>3, <2>1, Finitely
<1>5. \A d : Connection(d) \notin AppObjects(c) /\ Dialog(d) \notin AppObjects(c)
  BY Finitely, Distinct
<1> QED
  BY <1>3, <1>4, <1>5

\* What the applications are when their Connection has been reset.
LEMMA ResetApps ==
  ASSUME TypeOK, Inv, NEW c \in Conn, UNCHANGED <<parent, order_>>,
         apps_' = [apps_ EXCEPT ![c] = {}],
         \A a \in App : AppObject(a) \in In(posted') <=>
                          AppObject(a) \in In(posted) \/ a \in apps_[c]
  PROVE  AppsInv' /\ apps_' \in [Conn -> SUBSET App] /\ apps_'[c] = {}
         /\ \A d \in Conn \ {c} : apps_'[d] = apps_[d]
<1>1. /\ apps_' \in [Conn -> SUBSET App] /\ apps_'[c] = {}
      /\ \A d \in Conn \ {c} : apps_'[d] = apps_[d]
  BY DEF TypeOK
<1>2. order_' = {a \in App : parent'[a] # NONE}
  BY DEF Inv, AppsInv
<1>3. \A d \in Conn : \A a \in apps_'[d] : parent'[a] = d
  BY <1>1 DEF Inv, AppsInv
<1>4. ASSUME NEW a \in App, parent[a] # NONE
      PROVE  a \in apps_'[parent[a]] <=> AppObject(a) \notin In(posted')
  <2>1. parent[a] \in Conn
    BY <1>4 DEF TypeOK
  <2>2. a \in apps_[parent[a]] <=> AppObject(a) \notin In(posted)
    BY <1>4 DEF Inv, AppsInv
  <2>3. a \in apps_[c] => parent[a] = c
    BY DEF Inv, AppsInv
  <2> QED
    BY <1>1, <2>1, <2>2, <2>3
<1>5. ASSUME NEW a \in App, AppObject(a) \in In(posted') PROVE parent[a] # NONE
  BY <1>5, NoneAssumption DEF Inv, AppsInv
<1> QED
  BY <1>1, <1>2, <1>3, <1>4, <1>5 DEF AppsInv

LEMMA DisconnectedKeeps ==
  ASSUME TypeOK, Inv, NEW c \in Conn, Reset(c), sock[c] # "none",
         NEW s \in SocketState \ {"Connected"}, sock' = [sock EXCEPT ![c] = s],
         UNCHANGED <<dialogs, conn_, parent, focused, order_, listVars, shownVars>>
  PROVE  TypeOK' /\ Inv'
<1> USE DEF listVars, shownVars
<1>1. posted' \in DeleteLater(posted, AppObjects(c)) /\ apps_' = [apps_ EXCEPT ![c] = {}]
  BY DEF Reset
<1>2. /\ posted' \in Seq(Objects) /\ Once(posted') /\ In(posted') = In(posted) \cup AppObjects(c)
      /\ \A x, y : Before(posted, x, y) => Before(posted', x, y)
      /\ \A d : /\ Connection(d) \in In(posted') <=> Connection(d) \in In(posted)
                /\ Dialog(d) \in In(posted') <=> Dialog(d) \in In(posted)
  BY <1>1, ResetKeeps
<1>3. /\ AppsInv' /\ apps_' \in [Conn -> SUBSET App] /\ apps_'[c] = {}
      /\ \A d \in Conn \ {c} : apps_'[d] = apps_[d]
  <2>1. \A a \in App : AppObject(a) \in In(posted') <=>
                         AppObject(a) \in In(posted) \/ a \in apps_[c]
    BY <1>2, Finitely
  <2> QED
    BY <1>1, <2>1, ResetApps
<1>4. TypeOK'
  BY <1>2, <1>3 DEF TypeOK, Objects, SocketState
<1>5. sock'[c] = s /\ s # "none" /\ s # "Connected" /\ \A d \in Conn \ {c} : sock'[d] = sock[d]
  BY DEF TypeOK, SocketState
<1>6. ASSUME NEW d \in Conn PROVE ConnInv(d)'
  <2>1. ConnInv(d)
    BY DEF Inv
  <2>2. CASE d = c
    BY <1>2, <1>3, <1>5, <2>1, <2>2 DEF ConnInv
  <2>3. CASE d # c
    BY <1>2, <1>3, <1>5, <2>1, <2>3 DEF ConnInv
  <2> QED
    BY <2>2, <2>3
<1> QED
  BY <1>2, <1>3, <1>4, <1>6 DEF Inv

LEMMA ReconnectSelectedKeeps ==
  ASSUME TypeOK, Inv, NEW c \in Conn, ReconnectSelected(c)
  PROVE  TypeOK' /\ Inv'
<1>1. PICK s \in AfterClose(sock[c]) :
        sock' = [sock EXCEPT ![c] = IF s = "Unconnected" THEN "Connecting" ELSE s]
  BY DEF ReconnectSelected
<1>2. sock[c] \in SocketState
  BY DEF ReconnectSelected, Inv, ConnInv, TypeOK
<1>3. (IF s = "Unconnected" THEN "Connecting" ELSE s) \in SocketState \ {"Connected"}
  BY <1>1, <1>2 DEF AfterClose, SocketState
<1>4. /\ Reset(c) /\ sock[c] # "none"
      /\ UNCHANGED <<dialogs, conn_, parent, focused, order_, listVars, shownVars>>
  BY <1>2 DEF ReconnectSelected, SocketState
<1> QED
  BY <1>1, <1>3, <1>4, DisconnectedKeeps

LEMMA RemoveConnectionKeeps ==
  ASSUME TypeOK, Inv, NEW c \in Conn, RemoveConnection(c)
  PROVE  TypeOK' /\ Inv'
<1> USE DEF listVars, shownVars
<1>1. /\ c \in conns_ /\ apps_' = [apps_ EXCEPT ![c] = {}]
      /\ connections_' = connections_ \ {c}
      /\ UNCHANGED <<dialogs, conn_, parent, focused, order_, conns_, numConns_,
                     updateTimer_, selected, label>>
  BY DEF RemoveConnection
<1>2. PICK q \in DeleteLater(posted, AppObjects(c)) :
        posted' \in DeleteLater(q, {Connection(c)})
  BY DEF RemoveConnection
<1>3. /\ q \in Seq(Objects) /\ Once(q) /\ In(q) = In(posted) \cup AppObjects(c)
      /\ \A x, y : Before(posted, x, y) => Before(q, x, y)
      /\ \A a \in App : parent[a] = c => AppObject(a) \in In(q)
      /\ \A d : /\ Connection(d) \in In(q) <=> Connection(d) \in In(posted)
                /\ Dialog(d) \in In(q) <=> Dialog(d) \in In(posted)
  BY ResetKeeps
<1>4. /\ posted' \in Seq(Objects) /\ Once(posted') /\ In(posted') = In(q) \cup {Connection(c)}
      /\ \A x, y : Before(q, x, y) => Before(posted', x, y)
      /\ \A x \in In(q), y \in {Connection(c)} \ In(q) : Before(posted', x, y)
  <2>1. {Connection(c)} \subseteq Objects /\ IsFiniteSet({Connection(c)})
    BY FS_Singleton DEF Objects
  <2> QED
    BY <1>2, <1>3, <2>1, Posts
<1>5. /\ AppsInv' /\ apps_' \in [Conn -> SUBSET App] /\ apps_'[c] = {}
      /\ \A d \in Conn \ {c} : apps_'[d] = apps_[d]
  <2>1. \A a \in App : AppObject(a) \in In(posted') <=>
                         AppObject(a) \in In(posted) \/ a \in apps_[c]
    BY <1>3, <1>4, Finitely, Distinct
  <2> QED
    BY <1>1, <2>1, ResetApps
<1>6. sock' \in [Conn -> SocketState \cup {"none"}] /\ sock'[c] # "none" /\ sock'[c] # "Connected"
      /\ \A d \in Conn \ {c} : sock'[d] = sock[d]
  <2>1. sock[c] \in SocketState
    BY <1>1 DEF Inv, ConnInv, TypeOK
  <2>2. PICK s \in AfterClose(sock[c]) : sock' = [sock EXCEPT ![c] = s]
    BY DEF RemoveConnection
  <2>3. s \in SocketState \ {"Connected"}
    BY <2>1, <2>2 DEF AfterClose, SocketState
  <2> QED
    BY <2>2, <2>3 DEF TypeOK, SocketState
<1>7. TypeOK'
  BY <1>1, <1>4, <1>5, <1>6 DEF TypeOK, Objects
<1>8. ASSUME NEW d \in Conn PROVE ConnInv(d)'
  <2>1. ConnInv(d)
    BY DEF Inv
  <2>2. CASE d = c
    <3>1. c \notin conn_ /\ (c \in dialogs => Dialog(c) \in In(q))
      BY <1>1, <1>3, <2>1, <2>2 DEF ConnInv
    <3>2. ASSUME NEW a \in App, parent[a] = c
          PROVE  Before(posted', AppObject(a), Connection(c))
      <4>1. CASE Connection(c) \in In(q)
        BY <1>3, <1>4, <2>1, <2>2, <3>2, <4>1 DEF ConnInv
      <4>2. CASE Connection(c) \notin In(q)
        BY <1>3, <1>4, <3>2, <4>2
      <4> QED
        BY <4>1, <4>2
    <3>3. ASSUME c \in dialogs PROVE Before(posted', Dialog(c), Connection(c))
      <4>1. CASE Connection(c) \in In(q)
        BY <1>3, <1>4, <2>1, <2>2, <3>3, <4>1 DEF ConnInv
      <4>2. CASE Connection(c) \notin In(q)
        BY <1>3, <1>4, <3>1, <3>3, <4>2
      <4> QED
        BY <4>1, <4>2
    <3>4. /\ Connection(c) \in In(posted')
          /\ Dialog(c) \in In(posted') <=> Dialog(c) \in In(posted)
      BY <1>3, <1>4, Distinct
    <3> QED
      BY <1>1, <1>5, <1>6, <2>1, <2>2, <3>1, <3>2, <3>3, <3>4 DEF ConnInv
  <2>3. CASE d # c
    <3>1. /\ Connection(d) \in In(posted') <=> Connection(d) \in In(posted)
          /\ Dialog(d) \in In(posted') <=> Dialog(d) \in In(posted)
      BY <1>3, <1>4, <2>3, Distinct
    <3> QED
      BY <1>1, <1>3, <1>4, <1>5, <1>6, <2>1, <2>3, <3>1 DEF ConnInv
  <2> QED
    BY <2>2, <2>3
<1> QED
  BY <1>4, <1>5, <1>7, <1>8 DEF Inv

LEMMA CreateAppKeeps ==
  ASSUME TypeOK, Inv, NEW c \in Conn, NEW a \in App, CreateApp(c, a)
  PROVE  TypeOK' /\ Inv'
<1> USE DEF appVars, listVars, shownVars
<1>1. /\ sock[c] = "Connected" /\ parent[a] = NONE
      /\ apps_'[c] = apps_[c] \cup {a} /\ \A d \in Conn \ {c} : apps_'[d] = apps_[d]
      /\ parent'[a] = c /\ \A b \in App \ {a} : parent'[b] = parent[b]
      /\ order_' = order_ \cup {a}
      /\ UNCHANGED <<dialogs, conn_, sock, connections_, conns_, posted>>
  BY DEF CreateApp, TypeOK
<1>2. TypeOK'
  <2>1. label' \in 0 .. Cardinality(App)
    BY LabelType DEF CreateApp, Count, TypeOK
  <2> QED
    BY <2>1 DEF CreateApp, TypeOK
<1>3. c # NONE
  BY NoneAssumption
<1>4. AppsInv'
  <2>1. AppObject(a) \notin In(posted)
    BY <1>1 DEF Inv, AppsInv
  <2>2. \A d \in Conn : a \notin apps_[d]
    BY <1>1, NoneAssumption DEF Inv, AppsInv
  <2>3. order_' = {b \in App : parent'[b] # NONE}
    BY <1>1, <1>3 DEF Inv, AppsInv
  <2>4. ASSUME NEW d \in Conn, NEW b \in apps_'[d] PROVE parent'[b] = d
    <3>1. b \in App
      BY <1>2 DEF TypeOK
    <3>2. CASE b = a
      BY <1>1, <2>2, <2>4, <3>2
    <3>3. CASE b # a
      BY <1>1, <2>4, <3>1, <3>3 DEF Inv, AppsInv
    <3> QED
      BY <3>2, <3>3
  <2>5. ASSUME NEW b \in App, parent'[b] # NONE
        PROVE  b \in apps_'[parent'[b]] <=> AppObject(b) \notin In(posted)
    <3>1. CASE b = a
      BY <1>1, <2>1, <3>1
    <3>2. CASE b # a
      <4>1. parent[b] \in Conn /\ parent'[b] = parent[b]
        BY <1>1, <2>5, <3>2 DEF TypeOK
      <4>2. b \in apps_[parent[b]] <=> AppObject(b) \notin In(posted)
        BY <2>5, <4>1 DEF Inv, AppsInv
      <4> QED
        BY <1>1, <3>2, <4>1, <4>2
    <3> QED
      BY <3>1, <3>2
  <2>6. \A b \in App : AppObject(b) \in In(posted) => parent'[b] # NONE
    BY <1>1, <1>3 DEF Inv, AppsInv
  <2> QED
    BY <1>1, <2>3, <2>4, <2>5, <2>6 DEF AppsInv
<1>5. ASSUME NEW d \in Conn PROVE ConnInv(d)'
  <2>1. ConnInv(d)
    BY DEF Inv
  <2>2. CASE d = c
    BY <1>1, <2>1, <2>2 DEF ConnInv
  <2>3. CASE d # c
    <3>1. \A b \in App : parent'[b] = d => parent[b] = d
      BY <1>1, <2>3
    <3> QED
      BY <1>1, <2>1, <2>3, <3>1 DEF ConnInv
  <2> QED
    BY <2>2, <2>3
<1> QED
  BY <1>1, <1>2, <1>4, <1>5 DEF Inv

LEMMA DestroyAppKeeps ==
  ASSUME TypeOK, Inv, NEW c \in Conn, NEW a \in App, DestroyApp(c, a)
  PROVE  TypeOK' /\ Inv'
<1> USE DEF appVars, listVars, shownVars
<1>1. /\ sock[c] = "Connected" /\ a \in apps_[c]
      /\ apps_'[c] = apps_[c] \ {a} /\ \A d \in Conn \ {c} : apps_'[d] = apps_[d]
      /\ posted' \in DeleteLater(posted, {AppObject(a)})
      /\ UNCHANGED <<dialogs, conn_, sock, parent, order_, connections_, conns_>>
  BY DEF DestroyApp, TypeOK
<1>2. /\ posted' \in Seq(Objects) /\ Once(posted')
      /\ In(posted') = In(posted) \cup {AppObject(a)}
      /\ \A x, y : Before(posted, x, y) => Before(posted', x, y)
  <2>1. {AppObject(a)} \subseteq Objects /\ IsFiniteSet({AppObject(a)})
    BY FS_Singleton DEF Objects
  <2>2. posted \in Seq(Objects) /\ Once(posted)
    BY DEF TypeOK, Objects, Inv
  <2> QED
    BY <1>1, <2>1, <2>2, Posts
<1>3. TypeOK'
  BY <1>2 DEF DestroyApp, TypeOK, Objects
<1>4. \A b : AppObject(b) \in In(posted') <=> AppObject(b) \in In(posted) \/ b = a
  BY <1>2, Distinct
<1>5. AppsInv'
  <2>1. parent[a] = c /\ c # NONE
    BY <1>1, NoneAssumption DEF Inv, AppsInv
  <2>2. order_' = {b \in App : parent'[b] # NONE}
    BY <1>1 DEF Inv, AppsInv
  <2>3. \A d \in Conn : \A b \in apps_'[d] : parent'[b] = d
    BY <1>1 DEF Inv, AppsInv
  <2>4. ASSUME NEW b \in App, parent[b] # NONE
        PROVE  b \in apps_'[parent[b]] <=> AppObject(b) \notin In(posted')
    <3>1. parent[b] \in Conn /\ (b \in apps_[parent[b]] <=> AppObject(b) \notin In(posted))
      BY <2>4 DEF Inv, AppsInv, TypeOK
    <3>2. CASE b = a
      BY <1>1, <1>4, <2>1, <3>2
    <3>3. CASE b # a
      BY <1>1, <1>4, <3>1, <3>3
    <3> QED
      BY <3>2, <3>3
  <2>5. \A b \in App : AppObject(b) \in In(posted') => parent[b] # NONE
    BY <1>4, <2>1 DEF Inv, AppsInv
  <2> QED
    BY <1>1, <2>2, <2>3, <2>4, <2>5 DEF AppsInv
<1>6. ASSUME NEW d \in Conn PROVE ConnInv(d)'
  <2>1. ConnInv(d)
    BY DEF Inv
  <2>2. /\ Connection(d) \in In(posted') <=> Connection(d) \in In(posted)
        /\ Dialog(d) \in In(posted') <=> Dialog(d) \in In(posted)
    BY <1>2, Distinct
  <2>3. apps_'[d] \subseteq apps_[d]
    BY <1>1
  <2> QED
    BY <1>1, <1>2, <2>1, <2>2, <2>3 DEF ConnInv
<1> QED
  BY <1>2, <1>3, <1>5, <1>6 DEF Inv

-----------------------------------------------------------------------------
(* The loop deletes the first posted object *)

\* The queue, when an object x has been taken from it.
LEMMA TakesHead ==
  ASSUME TypeOK, Inv, posted # << >>, posted' = Tail(posted), NEW x, x = Head(posted)
  PROVE  /\ posted' \in Seq(Objects) /\ Once(posted')
         /\ x \in In(posted) /\ In(posted') = In(posted) \ {x}
         /\ \A y, z : Before(posted, y, z) /\ y # x => Before(posted', y, z)
         /\ \A y : ~Before(posted, y, x)
<1>1. posted \in Seq(Objects) /\ Once(posted)
  BY DEF TypeOK, Objects, Inv
<1> QED
  BY <1>1, Takes

LEMMA DeleteAppKeeps ==
  ASSUME TypeOK, Inv, posted # << >>, posted' = Tail(posted),
         NEW a \in App, Head(posted) = AppObject(a), DeleteApp(a)
  PROVE  TypeOK' /\ Inv'
<1> USE DEF listVars
<1>1. /\ parent'[a] = NONE /\ \A b \in App \ {a} : parent'[b] = parent[b]
      /\ order_' = order_ \ {a}
      /\ UNCHANGED <<dialogs, conn_, sock, apps_, connections_, conns_>>
  BY DEF DeleteApp, TypeOK
<1>2. /\ posted' \in Seq(Objects) /\ Once(posted') /\ AppObject(a) \in In(posted)
      /\ In(posted') = In(posted) \ {AppObject(a)}
      /\ \A y, z : Before(posted, y, z) /\ y # AppObject(a) => Before(posted', y, z)
  BY TakesHead
<1>3. TypeOK'
  <2>1. label' \in 0 .. Cardinality(App)
    BY LabelType DEF DeleteApp, TypeOK
  <2> QED
    BY <1>2, <2>1 DEF DeleteApp, TypeOK, Objects
<1>4. \A b : AppObject(b) \in In(posted') <=> AppObject(b) \in In(posted) /\ b # a
  BY <1>2, Distinct
<1>5. AppsInv'
  <2>1. \A d \in Conn : a \notin apps_[d]
    <3> SUFFICES ASSUME NEW d \in Conn, a \in apps_[d] PROVE FALSE
      OBVIOUS
    <3>1. parent[a] = d /\ d # NONE
      BY NoneAssumption DEF Inv, AppsInv
    <3> QED
      BY <1>2, <3>1 DEF Inv, AppsInv
  <2>2. order_' = {b \in App : parent'[b] # NONE}
    BY <1>1 DEF Inv, AppsInv
  <2>3. \A d \in Conn : \A b \in apps_'[d] : parent'[b] = d
    BY <1>1, <2>1 DEF Inv, AppsInv, TypeOK
  <2>4. \A b \in App : parent'[b] # NONE =>
          (b \in apps_'[parent'[b]] <=> AppObject(b) \notin In(posted'))
    BY <1>1, <1>4 DEF Inv, AppsInv
  <2>5. \A b \in App : AppObject(b) \in In(posted') => parent'[b] # NONE
    BY <1>1, <1>4 DEF Inv, AppsInv
  <2> QED
    BY <2>2, <2>3, <2>4, <2>5 DEF AppsInv
<1>6. ASSUME NEW d \in Conn PROVE ConnInv(d)'
  <2>1. ConnInv(d) /\ d # NONE
    BY NoneAssumption DEF Inv
  <2>2. /\ Connection(d) \in In(posted') <=> Connection(d) \in In(posted)
        /\ Dialog(d) \in In(posted') <=> Dialog(d) \in In(posted)
    BY <1>2, Distinct
  <2>3. \A b \in App : parent'[b] = d =>
          /\ parent[b] = d
          /\ Before(posted, AppObject(b), Connection(d)) => Before(posted', AppObject(b), Connection(d))
    BY <1>1, <1>2, <2>1, Distinct
  <2>4. Before(posted, Dialog(d), Connection(d)) => Before(posted', Dialog(d), Connection(d))
    BY <1>2, Distinct
  <2> QED
    BY <1>1, <2>1, <2>2, <2>3, <2>4 DEF ConnInv
<1> QED
  BY <1>2, <1>3, <1>5, <1>6 DEF Inv

LEMMA DeleteDialogKeeps ==
  ASSUME TypeOK, Inv, posted # << >>, posted' = Tail(posted),
         NEW c \in Conn, Head(posted) = Dialog(c), DeleteDialog(c)
  PROVE  TypeOK' /\ Inv'
<1> USE DEF appVars, listVars, shownVars
<1>1. /\ dialogs' = dialogs \ {c} /\ conn_' = conn_ \ {c}
      /\ sock'[c] = (IF c \in conn_ THEN "none" ELSE sock[c])
      /\ \A d \in Conn \ {c} : sock'[d] = sock[d]
      /\ UNCHANGED <<apps_, parent, order_, connections_, conns_>>
  BY DEF DeleteDialog, TypeOK
<1>2. /\ posted' \in Seq(Objects) /\ Once(posted') /\ Dialog(c) \in In(posted)
      /\ In(posted') = In(posted) \ {Dialog(c)}
      /\ \A y, z : Before(posted, y, z) /\ y # Dialog(c) => Before(posted', y, z)
  BY TakesHead
<1>3. TypeOK'
  BY <1>2 DEF DeleteDialog, TypeOK, Objects
<1>4. AppsInv'
  <2>1. \A a : AppObject(a) \in In(posted') <=> AppObject(a) \in In(posted)
    BY <1>2, Distinct
  <2> QED
    BY <1>1, <2>1 DEF Inv, AppsInv
<1>5. ASSUME NEW d \in Conn PROVE ConnInv(d)'
  <2>1. ConnInv(d)
    BY DEF Inv
  <2>2. /\ Connection(d) \in In(posted') <=> Connection(d) \in In(posted)
        /\ Dialog(d) \in In(posted') <=> Dialog(d) \in In(posted) /\ d # c
    BY <1>2, Distinct
  <2>3. \A a \in App : Before(posted, AppObject(a), Connection(d)) =>
                         Before(posted', AppObject(a), Connection(d))
    BY <1>2, Distinct
  <2>4. d # c /\ Before(posted, Dialog(d), Connection(d)) => Before(posted', Dialog(d), Connection(d))
    BY <1>2, Distinct
  <2>5. CASE d = c
    BY <1>1, <2>1, <2>2, <2>3, <2>5 DEF ConnInv
  <2>6. CASE d # c
    BY <1>1, <2>1, <2>2, <2>3, <2>4, <2>6 DEF ConnInv
  <2> QED
    BY <2>5, <2>6
<1> QED
  BY <1>2, <1>3, <1>4, <1>5 DEF Inv

LEMMA DeleteConnectionKeeps ==
  ASSUME TypeOK, Inv, posted # << >>, posted' = Tail(posted),
         NEW c \in Conn, Head(posted) = Connection(c), DeleteConnection(c)
  PROVE  TypeOK' /\ Inv'
<1> USE DEF shownVars
<1>1. /\ sock'[c] = "none" /\ \A d \in Conn \ {c} : sock'[d] = sock[d]
      /\ apps_'[c] = {} /\ \A d \in Conn \ {c} : apps_'[d] = apps_[d]
      /\ conns_' = conns_ \ {c}
      /\ UNCHANGED <<dialogs, conn_, parent, order_, connections_>>
  BY DEF DeleteConnection, TypeOK
<1>2. /\ posted' \in Seq(Objects) /\ Once(posted') /\ Connection(c) \in In(posted)
      /\ In(posted') = In(posted) \ {Connection(c)}
      /\ \A y, z : Before(posted, y, z) /\ y # Connection(c) => Before(posted', y, z)
      /\ \A y : ~Before(posted, y, Connection(c))
  BY TakesHead
<1>3. TypeOK'
  <2>1. numConns_' \in Nat /\ updateTimer_' \in BOOLEAN
    <3>1. DecreaseConnCount /\ numConns_ \in Nat /\ updateTimer_ \in BOOLEAN
      BY DEF DeleteConnection, TypeOK
    <3>2. numConns_' \in Nat
      BY <3>1 DEF DecreaseConnCount
    <3>3. updateTimer_' \in BOOLEAN
      BY <3>1, Zenon DEF DecreaseConnCount
    <3> QED
      BY <3>2, <3>3
  <2> QED
    BY <1>2, <2>1 DEF DeleteConnection, TypeOK, Objects
<1>4. ConnInv(c)
  BY DEF Inv
<1>5. apps_[c] = {} /\ (\A a \in App : parent[a] # c) /\ c \notin dialogs
      /\ c \notin connections_ /\ c \notin conn_
  BY <1>2, <1>4 DEF ConnInv, TypeOK
<1>6. AppsInv'
  <2>1. \A a : AppObject(a) \in In(posted') <=> AppObject(a) \in In(posted)
    BY <1>2, Distinct
  <2>2. \A d \in Conn : apps_'[d] = apps_[d]
    BY <1>1, <1>5
  <2>3. order_' = {a \in App : parent'[a] # NONE} /\ parent' = parent
    BY <1>1 DEF Inv, AppsInv
  <2>4. \A a \in App : parent[a] # NONE => parent[a] \in Conn
    BY DEF TypeOK
  <2> QED
    BY <2>1, <2>2, <2>3, <2>4 DEF Inv, AppsInv
<1>7. ASSUME NEW d \in Conn PROVE ConnInv(d)'
  <2>1. ConnInv(d)
    BY DEF Inv
  <2>2. /\ Connection(d) \in In(posted') <=> Connection(d) \in In(posted) /\ d # c
        /\ Dialog(d) \in In(posted') <=> Dialog(d) \in In(posted)
    BY <1>2, Distinct
  <2>3. \A a \in App : Before(posted, AppObject(a), Connection(d)) =>
                         Before(posted', AppObject(a), Connection(d))
    BY <1>2, Distinct
  <2>4. Before(posted, Dialog(d), Connection(d)) => Before(posted', Dialog(d), Connection(d))
    BY <1>2, Distinct
  <2>5. CASE d = c
    BY <1>1, <1>5, <2>1, <2>2, <2>5 DEF ConnInv
  <2>6. CASE d # c
    BY <1>1, <2>1, <2>2, <2>3, <2>4, <2>6 DEF ConnInv
  <2> QED
    BY <2>5, <2>6
<1> QED
  BY <1>2, <1>3, <1>6, <1>7 DEF Inv

LEMMA ShownKeeps ==
  ASSUME TypeOK, Inv, UNCHANGED <<dialogs, conn_, sock, apps_, parent, order_, listVars, posted>>,
         focused' \subseteq App, selected' \subseteq order_, label' \in 0 .. Cardinality(App)
  PROVE  TypeOK' /\ Inv'
<1>1. TypeOK'
  BY DEF TypeOK, listVars
<1>2. Inv'
  BY InvAlone DEF listVars
<1> QED
  BY <1>1, <1>2

LEMMA Step ==
  ASSUME TypeOK, Inv, [Next]_vars
  PROVE  TypeOK' /\ Inv'
<1>1. ASSUME NEW c \in Conn,
             \/ AddConnection(c) \/ OpenConn(c) \/ Cancel(c) \/ Connected(c)
             \/ RemoveConnection(c) \/ ReconnectSelected(c)
      PROVE  TypeOK' /\ Inv'
  BY <1>1, AddConnectionKeeps, OpenConnKeeps, CancelKeeps, ConnectedKeeps,
     RemoveConnectionKeeps, ReconnectSelectedKeeps
<1>2. ASSUME NEW c \in Conn, Disconnected(c) PROVE TypeOK' /\ Inv'
  <2>1. /\ Reset(c) /\ sock[c] # "none" /\ sock' = [sock EXCEPT ![c] = "Unconnected"]
        /\ "Unconnected" \in SocketState \ {"Connected"}
        /\ UNCHANGED <<dialogs, conn_, parent, focused, order_, listVars, shownVars>>
    BY <1>2 DEF Disconnected, SocketState
  <2> QED
    BY <2>1, DisconnectedKeeps
<1>3. ASSUME NEW c \in Conn, NEW a \in App, CreateApp(c, a) \/ DestroyApp(c, a)
      PROVE  TypeOK' /\ Inv'
  BY <1>3, CreateAppKeeps, DestroyAppKeeps
<1>4. ASSUME NEW c \in Conn, NEW S \in SUBSET apps_[c], SetFocusedApp(c, S)
      PROVE  TypeOK' /\ Inv'
  <2>1. S \subseteq App /\ focused' \subseteq App
    BY <1>4 DEF SetFocusedApp, TypeOK
  <2> QED
    BY <1>4, <2>1, ShownKeeps DEF SetFocusedApp, TypeOK, shownVars
<1>5. ASSUME NEW S \in SUBSET order_, Select(S) PROVE TypeOK' /\ Inv'
  BY <1>5, ShownKeeps DEF Select, TypeOK, appVars
<1>6. CASE UpdateTimeout
  <2>1. label' \in 0 .. Cardinality(App)
    BY <1>6, LabelType DEF UpdateTimeout, Count, TypeOK
  <2> QED
    BY <1>6, <2>1, ShownKeeps DEF UpdateTimeout, TypeOK, appVars
<1>7. CASE DeleteNext
  BY <1>7, DeleteAppKeeps, DeleteDialogKeeps, DeleteConnectionKeeps DEF DeleteNext
<1>8. CASE UNCHANGED vars
  BY <1>8, ShownKeeps DEF vars, appVars, shownVars, TypeOK
<1> QED
  BY <1>1, <1>2, <1>3, <1>4, <1>5, <1>6, <1>7, <1>8 DEF Next

LEMMA Always == Spec => [](TypeOK /\ Inv)
<1>1. Init => TypeOK /\ Inv
  <2> SUFFICES ASSUME Init PROVE TypeOK /\ Inv
    OBVIOUS
  <2>1. TypeOK
    <3>1. 0 \in 0 .. Cardinality(App)
      BY AppAssumption, FS_CardinalityType
    <3>2. posted \in Seq(Objects)
      BY DEF Init
    <3>3. sock \in [Conn -> SocketState \cup {"none"}] /\ apps_ \in [Conn -> SUBSET App]
          /\ parent \in [App -> Conn \cup {NONE}]
      BY DEF Init
    <3> QED
      BY <3>1, <3>2, <3>3 DEF Init, TypeOK, Objects
  <2>2. Once(posted) /\ In(posted) = {}
    BY DEF Init, Once, In
  <2>3. AppsInv
    BY <2>2 DEF Init, AppsInv
  <2>4. \A c \in Conn : ConnInv(c)
    BY <2>2, NoneAssumption DEF Init, ConnInv
  <2> QED
    BY <2>1, <2>2, <2>3, <2>4 DEF Inv
<1>2. TypeOK /\ Inv /\ [Next]_vars => (TypeOK /\ Inv)'
  BY Step
<1> QED
  BY <1>1, <1>2, PTL DEF Spec

(***************************************************************************)
(* Every variable keeps its type; the number that the label shows is never *)
(* more than there are applications.                                       *)
(***************************************************************************)
THEOREM WindowTypeCorrect == Spec => []TypeOK
BY Always, PTL

(***************************************************************************)
(* No row of either list outlives the object that it shows, nor does a row *)
(* of AppList outlive the Connection that it asks for an address: deferred *)
(* deletions come in the order that this needs.                            *)
(***************************************************************************)
THEOREM RowsAreAlive == Spec => []NoDanglingRows
<1>1. TypeOK /\ Inv => NoDanglingRows
  <2> SUFFICES ASSUME TypeOK, Inv PROVE NoDanglingRows
    OBVIOUS
  <2>1. ASSUME NEW a \in order_ PROVE parent[a] # NONE /\ sock[parent[a]] # "none"
    <3>1. a \in App /\ parent[a] \in Conn
      BY NoneAssumption DEF Inv, AppsInv, TypeOK
    <3>2. ConnInv(parent[a])
      BY <3>1 DEF Inv
    <3> QED
      BY <3>1, <3>2, NoneAssumption DEF ConnInv
  <2>2. ASSUME NEW c \in conns_ \cup connections_ \cup dialogs PROVE sock[c] # "none"
    BY DEF Inv, ConnInv, TypeOK
  <2> QED
    BY <2>1, <2>2 DEF NoDanglingRows
<1> QED
  BY <1>1, Always, PTL

(***************************************************************************)
(* The two lists show exactly what the main window has, and what it had    *)
(* until the loop has deleted it.                                          *)
(***************************************************************************)
THEOREM RowsFollowObjects == Spec => []RowsFollow
<1>1. TypeOK /\ Inv => RowsFollow
  <2> SUFFICES ASSUME TypeOK, Inv PROVE RowsFollow
    OBVIOUS
  <2>1. Posted = In(posted)
    BY DEF Posted, In
  <2>2. conns_ = connections_ \cup {c \in Conn : Connection(c) \in In(posted)}
    BY DEF Inv, ConnInv, TypeOK
  <2> DEFINE U == UNION {apps_[c] : c \in Conn}
             D == {a \in App : AppObject(a) \in In(posted)}
  <2>3. ASSUME NEW a \in order_ PROVE a \in U \/ a \in D
    <3>1. a \in App /\ parent[a] \in Conn /\ parent[a] # NONE
      BY NoneAssumption DEF Inv, AppsInv, TypeOK
    <3> QED
      BY <3>1 DEF Inv, AppsInv
  <2>4. ASSUME NEW a \in U PROVE a \in order_
    <3>1. PICK c \in Conn : a \in apps_[c]
      OBVIOUS
    <3> QED
      BY <3>1, NoneAssumption DEF Inv, AppsInv, TypeOK
  <2>5. ASSUME NEW a \in D PROVE a \in order_
    BY DEF Inv, AppsInv
  <2>6. order_ = U \cup D
    <3> HIDE DEF U, D
    <3> QED
      BY <2>3, <2>4, <2>5
  <2>7. conns_ = connections_ \cup {c \in Conn : Connection(c) \in Posted}
    BY <2>1, <2>2
  <2>8. order_ = U \cup {a \in App : AppObject(a) \in Posted}
    BY <2>1, <2>6
  <2> QED
    BY <2>7, <2>8 DEF RowsFollow
<1> QED
  BY <1>1, Always, PTL

(***************************************************************************)
(* Every Connection has one owner: a dialog, the main window, or the loop  *)
(* that will delete it.                                                    *)
(***************************************************************************)
THEOREM OwnedOnce == Spec => []OneOwner
<1>1. TypeOK /\ Inv => OneOwner
  <2> SUFFICES ASSUME TypeOK, Inv, NEW c \in Conn, sock[c] # "none"
               PROVE  Cardinality({h \in {"dialog", "window", "loop"} :
                                     \/ h = "dialog" /\ c \in conn_
                                     \/ h = "window" /\ c \in connections_
                                     \/ h = "loop" /\ Connection(c) \in Posted}) = 1
    BY DEF OneOwner
  <2> DEFINE H == {h \in {"dialog", "window", "loop"} :
                     \/ h = "dialog" /\ c \in conn_
                     \/ h = "window" /\ c \in connections_
                     \/ h = "loop" /\ Connection(c) \in Posted}
  <2>1. Posted = In(posted) /\ ConnInv(c)
    BY DEF Posted, In, Inv
  <2>2. H = {"dialog"} \/ H = {"window"} \/ H = {"loop"}
    <3>1. CASE c \in conn_
      BY <2>1, <3>1 DEF ConnInv
    <3>2. CASE c \in connections_
      BY <2>1, <3>2 DEF ConnInv
    <3>3. CASE Connection(c) \in In(posted)
      BY <2>1, <3>3 DEF ConnInv
    <3> QED
      BY <2>1, <3>1, <3>2, <3>3 DEF ConnInv
  <2>3. Cardinality({"dialog"}) = 1 /\ Cardinality({"window"}) = 1 /\ Cardinality({"loop"}) = 1
    BY FS_Singleton
  <2> QED
    BY <2>2, <2>3
<1> QED
  BY <1>1, Always, PTL
=============================================================================
