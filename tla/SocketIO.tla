------------------------------ MODULE SocketIO ------------------------------
(***************************************************************************)
(* How a worker moves bytes: readMessage() reads requests with readN() and *)
(* writes responses with sendN(), each a size and a body.  recv() and      *)
(* send() move any part of what they are asked to, or fail.                *)
(*                                                                         *)
(* A byte of the requests is its position in what the client has written;  *)
(* a byte of a response is its position in that response.                  *)
(***************************************************************************)
EXTENDS Naturals, Sequences

CONSTANTS
  SizeBytes,      \* sizeof(uint32_t)
  Size,           \* the sizes of requests
  ResponseSize,   \* of a serialized response
  MaxFrames       \* bounds the requests on a connection

ASSUME SizeAssumption ==
  /\ SizeBytes \in Nat \ {0} /\ ResponseSize \in Nat \ {0}
  /\ Size \subseteq Nat /\ MaxFrames \in Nat

VARIABLES
  written,   \* the requests the client has written: where they begin, their size
  arrived,   \* how many bytes of them have come
  up,        \* recv() and send() do not fail
  pc,        \* where readMessage() stands
  size_,     \* the size of the request's body
  taken,     \* how many bytes recv() has returned
  buffer,    \* what readN() has put in its buffer
  offset,    \* how far it has advanced in it
  left,      \* of readN() or sendN()
  sent,      \* of sendN()
  wire,      \* history: the bytes of this response that send() has taken
  served     \* history: the requests that have been served

readVars == <<size_, taken, buffer, offset>>
vars == <<written, arrived, up, pc, readVars, left, sent, wire, served>>

PC == {"readSize", "readBody", "serve", "sendSize", "sendBody", "closed"}

Frame == [at : Nat, size : Size]

TypeOK ==
  /\ written \in Seq(Frame) /\ arrived \in Nat /\ up \in BOOLEAN /\ pc \in PC
  /\ size_ \in Nat /\ taken \in Nat /\ taken <= arrived
  /\ buffer \in Seq(Nat) /\ offset \in Nat
  /\ left \in Nat /\ sent \in Nat
  /\ wire \in Seq(Nat) /\ served \in Seq(Seq(Nat))

End(f) == f.at + SizeBytes + f.size
Total == IF written = << >> THEN 0 ELSE End(written[Len(written)])
Positions(from, n) == [i \in 1 .. n |-> from + i]
Body(f) == Positions(f.at + SizeBytes, f.size)

\* What the bytes of buffer say: the size of the frame they begin, or nonsense.
SizesIn(b) ==
  LET Here == {i \in 1 .. Len(written) : b = Positions(written[i].at, SizeBytes)}
  IN  IF Here = {} THEN Size ELSE {written[i].size : i \in Here}

Init ==
  /\ written = << >> /\ arrived = 0 /\ up = TRUE
  /\ pc = "readSize" /\ size_ = 0
  /\ taken = 0 /\ buffer = << >> /\ offset = 0 /\ left = SizeBytes
  /\ sent = 0 /\ wire = << >> /\ served = << >>

-----------------------------------------------------------------------------
(* The client and the network *)

Write(n) ==
  /\ up /\ Len(written) < MaxFrames
  /\ written' = Append(written, [at |-> Total, size |-> n])
  /\ UNCHANGED <<arrived, up, pc, readVars, left, sent, wire, served>>

Arrive ==
  /\ \E n \in arrived + 1 .. Total : arrived' = n
  /\ UNCHANGED <<written, up, pc, readVars, left, sent, wire, served>>

Break ==
  /\ up /\ up' = FALSE
  /\ UNCHANGED <<written, arrived, pc, readVars, left, sent, wire, served>>

-----------------------------------------------------------------------------
(* readN(): recv() is asked for what is left, behind what has been read *)

StartRead(n) == buffer' = << >> /\ offset' = 0 /\ left' = n

\* Mutant: the buffer does not advance.
RecvInPlace(n) ==
  /\ taken' = taken + n
  /\ buffer' = SubSeq(buffer, 1, offset) \o Positions(taken, n)
  /\ left' = left - n
  /\ UNCHANGED offset

Recv(n) ==
  /\ taken' = taken + n
  /\ buffer' = SubSeq(buffer, 1, offset) \o Positions(taken, n)
  /\ left' = left - n
  /\ offset' = IF left' # 0 THEN offset + n ELSE offset

\* Mutant: recv() is asked for more than is left.
ReadBeyond ==
  /\ pc \in {"readSize", "readBody"} /\ left > 0
  /\ \E n \in 1 .. arrived - taken : Recv(n)
  /\ UNCHANGED <<written, arrived, up, pc, size_, sent, wire, served>>

ReadMore ==
  /\ pc \in {"readSize", "readBody"} /\ left > 0
  /\ \E n \in 1 .. left : n <= arrived - taken /\ Recv(n)
  /\ UNCHANGED <<written, arrived, up, pc, size_, sent, wire, served>>

\* Mutant: every failure is taken for WSAEWOULDBLOCK.
ReadRetries ==
  /\ pc \in {"readSize", "readBody"} /\ left > 0 /\ ~up
  /\ UNCHANGED vars

\* 0 or SOCKET_ERROR: readMessage() ends.
ReadFails ==
  /\ pc \in {"readSize", "readBody"} /\ left > 0 /\ ~up
  /\ pc' = "closed"
  /\ UNCHANGED <<written, arrived, up, readVars, left, sent, wire, served>>

\* readN() returns true.
SizeRead ==
  /\ pc = "readSize" /\ left = 0
  /\ \E n \in SizesIn(buffer) : size_' = n /\ StartRead(n)
  /\ pc' = "readBody"
  /\ UNCHANGED <<written, arrived, up, taken, sent, wire, served>>

\* Mutant: nothing read is taken for a connection that is closed.
BodyReadUnlessEmpty ==
  /\ pc = "readBody" /\ left = 0
  /\ pc' = IF size_ = 0 THEN "closed" ELSE "serve"
  /\ UNCHANGED <<written, arrived, up, readVars, left, sent, wire, served>>

BodyRead ==
  /\ pc = "readBody" /\ left = 0
  /\ pc' = "serve"
  /\ UNCHANGED <<written, arrived, up, readVars, left, sent, wire, served>>

-----------------------------------------------------------------------------
(* The keystroke, and sendN() *)

StartSend(n) == left' = n /\ sent' = 0

Serve ==
  /\ pc = "serve"
  /\ served' = Append(served, buffer)
  /\ wire' = << >>
  /\ pc' = "sendSize" /\ StartSend(SizeBytes)
  /\ UNCHANGED <<written, arrived, up, readVars>>

\* The argument of the call that runs.
Length == IF pc = "sendSize" THEN SizeBytes ELSE ResponseSize

\* Its position in the response.
From == IF pc = "sendSize" THEN 0 ELSE SizeBytes

\* A failure is only reported.
SendReturns ==
  IF pc = "sendSize" THEN pc' = "sendBody" /\ StartSend(ResponseSize) /\ UNCHANGED <<buffer, offset>>
  ELSE pc' = "readSize" /\ StartRead(SizeBytes) /\ UNCHANGED sent

\* Mutant: the loop ends after any send().
SendOnce ==
  /\ pc \in {"sendSize", "sendBody"} /\ up
  /\ \E n \in 1 .. left :
       wire' = wire \o Positions(From + Length - left, n) /\ SendReturns
  /\ UNCHANGED <<written, arrived, up, size_, taken, served>>

\* send() takes some of what is left.  The loop compares what the last call
\* took with the whole: after a part it asks again, even when nothing is left.
Send ==
  /\ pc \in {"sendSize", "sendBody"} /\ up
  /\ \E n \in (IF left = 0 THEN {0} ELSE 1 .. left) :
       /\ wire' = wire \o Positions(From + Length - left, n)
       /\ IF n = Length THEN SendReturns
          ELSE left' = left - n /\ sent' = n /\ UNCHANGED <<pc, buffer, offset>>
  /\ UNCHANGED <<written, arrived, up, size_, taken, served>>

SendFails ==
  /\ pc \in {"sendSize", "sendBody"} /\ ~up
  /\ SendReturns
  /\ UNCHANGED <<written, arrived, up, size_, taken, wire, served>>

Worker == ReadMore \/ ReadFails \/ SizeRead \/ BodyRead \/ Serve \/ Send \/ SendFails

Next == (\E n \in Size : Write(n)) \/ Arrive \/ Break \/ Worker

Spec == Init /\ [][Next]_vars

\* The worker's thread runs, and what was written arrives.
FairSpec == Spec /\ WF_vars(Worker) /\ WF_vars(Arrive)

-----------------------------------------------------------------------------
\* The requests served are the first of those written, whole and in order, for
\* every way recv() cuts them.
Channel == INSTANCE MessageChannel WITH
  sent <- [i \in 1 .. Len(written) |-> Body(written[i])],
  received <- served
ImplementsChannel == Channel!Spec

\* The client gets the bytes of a response each once and in order, and while
\* nothing fails the worker does not go on before it has given all of them.
ResponseWhole ==
  /\ \A i \in 1 .. Len(wire) : wire[i] = i
  /\ (up /\ pc \in {"readSize", "readBody", "serve"} /\ served # << >>) =>
       Len(wire) = SizeBytes + ResponseSize

\* sendN() has sent a part of its argument, and will ask for ever.
Spinning == pc \in {"sendSize", "sendBody"} /\ left < Length

\* Every request is served, unless the connection breaks or the worker spins.
WrittenIsServed ==
  \A i \in 1 .. MaxFrames : (Len(written) >= i) ~> (Len(served) >= i \/ ~up \/ Spinning)

\* A worker leaves a broken connection, even if it spins.
BrokenIsLeft == ~up ~> pc = "closed"
=============================================================================
