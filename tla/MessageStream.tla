--------------------------- MODULE MessageStream ---------------------------
(***************************************************************************)
(* The client's MessageStream.  The device hands over the bytes of the     *)
(* connection in pieces of any size, and readyRead() cuts them into the    *)
(* messages that were written: each is preceded by its size.               *)
(*                                                                         *)
(* A byte is its position in what the other end has written, so a frame is *)
(* the position of its first byte and the size of its body, and a message  *)
(* is a range of positions.                                                *)
(***************************************************************************)
EXTENDS Naturals, Sequences

CONSTANTS
  SizeBytes,    \* sizeof(quint32)
  MaxRead,      \* MAX_READ
  Size,         \* the sizes that messages may have
  MaxFrames,    \* bound on the frames written on one connection
  NULL

ASSUME SizeAssumption ==
  /\ SizeBytes \in Nat \ {0}
  /\ MaxRead \in Nat \ {0}
  /\ Size \subseteq Nat
  /\ MaxFrames \in Nat

Frame   == [at : Nat, size : Size]
Message == [from : Nat, len : Nat]

ASSUME NullAssumption == NULL \notin Message

VARIABLES
  written,    \* the frames that the other end has written
  arrived,    \* how many bytes the device has been given
  taken,      \* how many bytes have been read from it
  alive,      \* reading from the device does not fail
  reading,    \* readyRead() runs
  msgbuf,     \* msgbuf_: the part of a message that has been read, or NULL
  remaining,  \* remaining_
  delivered   \* the messages that messageReceived() has been emitted with

deviceVars == <<written, arrived, taken, alive>>
vars == <<deviceVars, reading, msgbuf, remaining, delivered>>

TypeOK ==
  /\ written \in Seq(Frame)
  /\ arrived \in Nat /\ taken \in Nat
  /\ alive \in BOOLEAN /\ reading \in BOOLEAN
  /\ msgbuf \in Message \cup {NULL}
  /\ remaining \in Nat
  /\ delivered \in Seq(Message)

-----------------------------------------------------------------------------
Body(f) == [from |-> f.at + SizeBytes, len |-> f.size]
End(f)  == f.at + SizeBytes + f.size

\* How many bytes have been written.
Total == IF written = << >> THEN 0 ELSE End(written[Len(written)])

Available == arrived - taken
Least(m, n) == IF m <= n THEN m ELSE n

\* What SizeBytes bytes from position p say: a size, or anything within a frame.
SizesAt(p) ==
  LET Here == {i \in DOMAIN written : written[i].at = p}
  IN  IF Here = {} THEN Size ELSE {written[i].size : i \in Here}

Init ==
  /\ written = << >> /\ arrived = 0 /\ taken = 0 /\ alive = TRUE
  /\ reading = FALSE
  /\ msgbuf = NULL /\ remaining = 0
  /\ delivered = << >>

-----------------------------------------------------------------------------
\* The other end writes a frame.
Write(n) ==
  /\ Len(written) < MaxFrames
  /\ written' = Append(written, [at |-> Total, size |-> n])
  /\ UNCHANGED <<arrived, taken, alive, reading, msgbuf, remaining, delivered>>

\* The device has got n more bytes and emits readyRead().
Arrive(n) ==
  /\ alive /\ ~reading
  /\ arrived + n <= Total
  /\ arrived' = arrived + n
  /\ reading' = TRUE
  /\ UNCHANGED <<written, taken, alive, msgbuf, remaining, delivered>>

\* readyRead(): no message has begun, and the whole size is there
ReadSize ==
  /\ reading /\ msgbuf = NULL
  /\ Available >= SizeBytes
  /\ taken' = taken + SizeBytes
  /\ \E n \in SizesAt(taken) : remaining' = n
  /\ msgbuf' = [from |-> taken', len |-> 0]
  /\ UNCHANGED <<written, arrived, alive, reading, delivered>>

\* (mutant) readyRead() asks for more than the message lacks
ReadBodyBeyond ==
  /\ reading /\ msgbuf # NULL /\ Available > 0
  /\ LET n == Least(MaxRead, Available)
         read == [msgbuf EXCEPT !.len = @ + n]
     IN  /\ taken' = taken + n
         /\ remaining' = remaining - n
         /\ IF n > 0 /\ remaining' = 0
              THEN delivered' = Append(delivered, read) /\ msgbuf' = NULL
              ELSE msgbuf' = read /\ UNCHANGED delivered
  /\ UNCHANGED <<written, arrived, alive, reading>>

\* The device hands over what it has, MAX_READ bytes at most; a message whose
\* last byte has come is emitted.  Nothing is read of an empty message, and the
\* loop goes on with nothing changed.
ReadBody ==
  /\ reading /\ msgbuf # NULL /\ Available > 0
  /\ LET n == Least(Least(remaining, MaxRead), Available)
         read == [msgbuf EXCEPT !.len = @ + n]
     IN  /\ taken' = taken + n
         /\ remaining' = remaining - n
         /\ IF n > 0 /\ remaining' = 0
              THEN delivered' = Append(delivered, read) /\ msgbuf' = NULL
              ELSE msgbuf' = read /\ UNCHANGED delivered
  /\ UNCHANGED <<written, arrived, alive, reading>>

\* (mutant) one message is read for each readyRead()
ReturnAfterOne ==
  /\ reading
  /\ Available = 0 \/ msgbuf = NULL
  /\ reading' = FALSE
  /\ UNCHANGED <<deviceVars, msgbuf, remaining, delivered>>

\* (mutant) the loop waits for the rest of a size
ReturnWhenEmpty ==
  /\ reading
  /\ Available = 0 \/ (msgbuf = NULL /\ Available < SizeBytes)
  /\ reading' = (Available > 0)
  /\ UNCHANGED <<deviceVars, msgbuf, remaining, delivered>>

\* The loop ends: nothing is left, or not enough for a size.
Return ==
  /\ reading
  /\ Available = 0 \/ (msgbuf = NULL /\ Available < SizeBytes)
  /\ reading' = FALSE
  /\ UNCHANGED <<deviceVars, msgbuf, remaining, delivered>>

\* read() returns -1: the message that has begun is dropped
ReadFails ==
  /\ reading /\ Available > 0
  /\ msgbuf = NULL => Available >= SizeBytes
  /\ alive' = FALSE
  /\ reading' = FALSE
  /\ msgbuf' = NULL
  /\ UNCHANGED <<written, arrived, taken, remaining, delivered>>

\* (mutant) reset() keeps the message that has begun
ReconnectKeeping ==
  /\ ~reading
  /\ written' = << >> /\ arrived' = 0 /\ taken' = 0 /\ alive' = TRUE
  /\ delivered' = << >>
  /\ UNCHANGED <<reading, msgbuf, remaining>>

\* The device is closed and emits aboutToClose(), which calls reset(); then it
\* is connected again.
Reconnect ==
  /\ ~reading
  /\ msgbuf' = NULL /\ remaining' = 0
  /\ written' = << >> /\ arrived' = 0 /\ taken' = 0 /\ alive' = TRUE
  /\ delivered' = << >>
  /\ UNCHANGED reading

-----------------------------------------------------------------------------
ReadyReadStep == ReadSize \/ ReadBody \/ Return

Next ==
  \/ \E n \in Size : Write(n)
  \/ \E n \in 1 .. Total : Arrive(n)
  \/ ReadyReadStep
  \/ ReadFails
  \/ Reconnect

Spec == Init /\ [][Next]_vars

(***************************************************************************)
(* readyRead() runs on the event loop's thread until it returns.           *)
(***************************************************************************)
FairSpec == Spec /\ WF_vars(ReadyReadStep)

-----------------------------------------------------------------------------
(***************************************************************************)
(* Whatever the pieces in which the bytes arrive, the messages emitted are *)
(* the first of those written on this connection, each whole, once and in  *)
(* order: nothing of an earlier connection is left.                        *)
(***************************************************************************)
Channel == INSTANCE MessageChannel WITH
  sent     <- [i \in DOMAIN written |-> Body(written[i])],
  received <- delivered

ImplementsChannel == Channel!Spec

(***************************************************************************)
(* "If we don't read all of the available data immediately, some of it     *)
(* will remain": when readyRead() has returned, no message that has        *)
(* arrived whole waits for more bytes, unless an empty one came before it. *)
(***************************************************************************)
Emptied(i) == \E j \in 1 .. i : written[j].size = 0

NothingLingers ==
  alive /\ ~reading =>
    \A i \in DOMAIN written :
      End(written[i]) <= arrived /\ ~Emptied(i) => i \in DOMAIN delivered

(***************************************************************************)
(* readyRead() returns, unless it has come to an empty message with bytes  *)
(* behind it.                                                              *)
(***************************************************************************)
Spinning == msgbuf # NULL /\ remaining = 0 /\ Available > 0

ReturnsUnlessEmpty == reading ~> ~reading \/ Spinning
=============================================================================
