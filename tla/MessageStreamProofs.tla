------------------------ MODULE MessageStreamProofs ------------------------
(***************************************************************************)
(* Proofs that MessageStream cuts the bytes into the messages that were    *)
(* written, for frames of any number and size, in any pieces.              *)
(***************************************************************************)
EXTENDS MessageStream, TLAPS

USE SizeAssumption, NullAssumption

\* Where frame k begins, or will when it is written.
At(k) == IF k \in DOMAIN written THEN written[k].at ELSE Total

(***************************************************************************)
(* The frames lie one behind the other.                                    *)
(***************************************************************************)
Layout ==
  /\ At(1) = 0
  /\ \A i \in DOMAIN written : At(i + 1) = End(written[i])
  /\ \A i, j \in DOMAIN written : i < j => End(written[i]) <= written[j].at
  /\ \A i \in DOMAIN written : End(written[i]) <= Total
  /\ taken <= arrived /\ arrived <= Total

(***************************************************************************)
(* The reader stands at the start of a frame, or within the body of the    *)
(* one it is about to emit.                                                *)
(***************************************************************************)
Within(k) ==
  /\ k \in DOMAIN written
  /\ msgbuf.from = written[k].at + SizeBytes
  /\ msgbuf.len + remaining = written[k].size
  /\ taken = msgbuf.from + msgbuf.len
  /\ written[k].size > 0 => remaining > 0

Cut ==
  /\ Len(delivered) <= Len(written)
  /\ \A i \in DOMAIN delivered : delivered[i] = Body(written[i])
  /\ msgbuf = NULL /\ alive => taken = At(Len(delivered) + 1)
  /\ msgbuf # NULL => alive /\ Within(Len(delivered) + 1)
  /\ reading => alive

(***************************************************************************)
(* readyRead() leaves nothing that it could have gone on with.             *)
(***************************************************************************)
Drained ==
  alive /\ ~reading => \/ taken = arrived
                       \/ msgbuf = NULL /\ Available < SizeBytes

Framed == TypeOK /\ Layout /\ Cut /\ Drained

-----------------------------------------------------------------------------
\* The fields of a frame, and of a message, are numbers.
LEMMA FrameParts ==
  ASSUME NEW f \in Frame
  PROVE  /\ f.at \in Nat /\ f.size \in Nat /\ f.size \in Size
         /\ End(f) \in Nat /\ f.at + SizeBytes <= End(f) /\ f.at < End(f)
         /\ End(f) = f.at + SizeBytes + f.size
         /\ Body(f) = [from |-> f.at + SizeBytes, len |-> f.size]
         /\ Body(f) \in Message
<1>1. f.at \in Nat /\ f.size \in Size
  BY DEF Frame
<1>2. f.size \in Nat
  BY <1>1
<1> QED
  BY <1>1, <1>2 DEF End, Body, Message

\* What TypeOK says of the sequences and of msgbuf_.
LEMMA Parts ==
  ASSUME TypeOK
  PROVE  /\ Len(written) \in Nat /\ DOMAIN written = 1 .. Len(written)
         /\ \A i \in 1 .. Len(written) : written[i] \in Frame
         /\ Total \in Nat
         /\ Len(delivered) \in Nat /\ DOMAIN delivered = 1 .. Len(delivered)
         /\ msgbuf # NULL => msgbuf.from \in Nat /\ msgbuf.len \in Nat /\ msgbuf \in Message
<1>1. /\ Len(written) \in Nat /\ DOMAIN written = 1 .. Len(written)
      /\ \A i \in 1 .. Len(written) : written[i] \in Frame
      /\ Len(delivered) \in Nat /\ DOMAIN delivered = 1 .. Len(delivered)
  BY DEF TypeOK
<1>2. written # << >> => Len(written) \in 1 .. Len(written)
  BY DEF TypeOK
<1>3. Total \in Nat
  BY <1>1, <1>2, FrameParts DEF Total
<1>4. msgbuf # NULL => msgbuf.from \in Nat /\ msgbuf.len \in Nat /\ msgbuf \in Message
  BY DEF TypeOK, Message
<1> QED
  BY <1>1, <1>3, <1>4

\* Nothing has been written at the start, nor on a new connection.
LEMMA FramedInit == Init => Framed
<1> SUFFICES ASSUME Init PROVE Framed
  OBVIOUS
<1> USE DEF Init
<1>1. TypeOK
  <2>1. written \in Seq(Frame) /\ delivered \in Seq(Message)
    OBVIOUS
  <2>2. alive \in BOOLEAN /\ reading \in BOOLEAN
    OBVIOUS
  <2>3. arrived \in Nat /\ taken \in Nat /\ remaining \in Nat /\ msgbuf \in Message \cup {NULL}
    OBVIOUS
  <2> HIDE DEF Init
  <2> QED
    BY <2>1, <2>2, <2>3 DEF TypeOK
<1>2. Total = 0 /\ \A k : At(k) = 0
  BY DEF Total, At
<1>3. Layout /\ Cut /\ Drained
  BY <1>2 DEF Layout, Cut, Drained
<1> QED
  BY <1>1, <1>3 DEF Framed

\* A new frame begins where the last one ended, and moves no other.
LEMMA WriteLayout ==
  ASSUME TypeOK, Layout, NEW n \in Size, Write(n)
  PROVE  /\ written' \in Seq(Frame) /\ Len(written') = Len(written) + 1
         /\ \A i \in DOMAIN written : written'[i] = written[i]
         /\ written'[Len(written')] = [at |-> Total, size |-> n]
         /\ Total \in Nat /\ Total' = Total + SizeBytes + n
         /\ Layout'
         /\ \A i \in 1 .. Len(written) + 1 : At(i)' = At(i)
<1> DEFINE f == [at |-> Total, size |-> n]
<1>1. Total \in Nat
  BY Parts
<1>2. f \in Frame /\ written' = Append(written, f)
  BY <1>1 DEF Write, Frame
<1> HIDE DEF f
<1>3. /\ written' \in Seq(Frame) /\ Len(written') = Len(written) + 1
      /\ \A i \in 1 .. Len(written) : written'[i] = written[i]
      /\ written'[Len(written) + 1] = f
      /\ Len(written) \in Nat
  BY <1>2 DEF TypeOK
<1>4. DOMAIN written = 1 .. Len(written) /\ DOMAIN written' = 1 .. Len(written) + 1
  BY <1>3 DEF TypeOK
<1>5. f.at = Total /\ f.size = n /\ n \in Nat
  BY DEF f
<1>6. Total' = Total + SizeBytes + n
  <2>1. Total' = End(f)
    BY <1>3, <1>4 DEF Total
  <2> QED
    BY <2>1, <1>5 DEF End
<1>7. \A i \in 1 .. Len(written) + 1 : At(i)' = At(i)
  BY <1>3, <1>4, <1>5 DEF At
<1>8. \A i \in 1 .. Len(written) : /\ written[i].at \in Nat /\ written[i].size \in Nat
                                   /\ End(written[i]) \in Nat
  BY Parts, FrameParts
<1>9. Layout'
  <2>1. At(1)' = 0
    BY <1>3, <1>7 DEF Layout
  <2>2. \A i \in DOMAIN written' : At(i + 1)' = End(written'[i])
    <3>1. ASSUME NEW i \in 1 .. Len(written) PROVE At(i + 1)' = End(written'[i])
      BY <1>3, <1>4, <1>7 DEF Layout
    <3>2. \A j : j = Len(written) + 2 => At(j)' = Total'
      BY <1>3, <1>4 DEF At
    <3>3. End(written'[Len(written) + 1]) = Total'
      BY <1>3, <1>5, <1>6 DEF End
    <3>4. ASSUME NEW i \in DOMAIN written', i = Len(written) + 1
          PROVE  At(i + 1)' = End(written'[i])
      <4>1. i + 1 = Len(written) + 2
        BY <1>3, <3>4
      <4> QED
        BY <3>2, <3>3, <3>4, <4>1
    <3>5. \A i \in DOMAIN written' : i \in 1 .. Len(written) \/ i = Len(written) + 1
      BY <1>3, <1>4
    <3> QED
      BY <3>1, <3>4, <3>5
  <2>3. \A i, j \in DOMAIN written' : i < j => End(written'[i]) <= written'[j].at
    BY <1>3, <1>4, <1>5, <1>8 DEF Layout
  <2>4. \A i \in DOMAIN written' : End(written'[i]) <= Total'
    <3>1. ASSUME NEW i \in 1 .. Len(written) PROVE End(written'[i]) <= Total'
      BY <1>1, <1>3, <1>4, <1>5, <1>6, <1>8 DEF Layout
    <3>2. End(written'[Len(written) + 1]) = Total' /\ Total' \in Nat
      BY <1>1, <1>3, <1>5, <1>6 DEF End
    <3>3. \A i \in DOMAIN written' : i \in 1 .. Len(written) \/ i = Len(written) + 1
      BY <1>3, <1>4
    <3> QED
      BY <3>1, <3>2, <3>3
  <2>5. taken' <= arrived' /\ arrived' <= Total'
    BY <1>1, <1>5, <1>6 DEF Write, Layout, TypeOK
  <2> QED
    BY <2>1, <2>2, <2>3, <2>4, <2>5 DEF Layout
<1> QED
  BY <1>1, <1>3, <1>4, <1>6, <1>7, <1>9 DEF f

\* The bytes at the start of a frame say its size.
LEMMA SizeRead ==
  ASSUME Framed, ReadSize
  PROVE  LET k == Len(delivered) + 1
         IN  /\ k \in DOMAIN written /\ taken = written[k].at
             /\ SizesAt(taken) = {written[k].size}
<1> DEFINE k == Len(delivered) + 1
<1>1. taken = At(k) /\ k \in 1 .. Len(written) + 1 /\ k \in Nat
  BY DEF Framed, Cut, ReadSize, TypeOK
<1>2. taken < Total
  BY Parts DEF Framed, Layout, TypeOK, ReadSize, Available
<1>3. k \in DOMAIN written /\ taken = written[k].at
  BY <1>1, <1>2 DEF At, Framed, TypeOK
<1>4. \A i, j \in DOMAIN written : i < j => written[i].at < written[j].at
  <2>1. \A i \in DOMAIN written : /\ written[i].at \in Nat /\ End(written[i]) \in Nat
                                  /\ written[i].at < End(written[i])
    BY Parts, FrameParts DEF Framed
  <2> QED
    BY <2>1 DEF Framed, Layout
<1>5. \A i \in DOMAIN written : written[i].at = taken => i = k
  <2>1. \A i \in DOMAIN written : i \in Nat
    BY DEF Framed, TypeOK
  <2> QED
    BY <1>1, <1>3, <1>4, <2>1 DEF Framed, TypeOK
<1> QED
  BY <1>3, <1>5 DEF SizesAt

\* The part of the message that has been read, with n more bytes.
Grown(n) == [from |-> msgbuf.from, len |-> msgbuf.len + n]

\* What a read() of the body takes.
LEMMA BodyRead ==
  ASSUME Framed, ReadBody
  PROVE  \E n \in Nat :
           /\ n <= remaining /\ n <= Available /\ (remaining > 0 => n > 0)
           /\ taken' = taken + n /\ remaining' = remaining - n
           /\ IF n > 0 /\ remaining' = 0
                THEN /\ delivered' = Append(delivered, Grown(n))
                     /\ msgbuf' = NULL
                ELSE /\ msgbuf' = Grown(n)
                     /\ UNCHANGED delivered
<1> DEFINE n == Least(Least(remaining, MaxRead), Available)
<1>1. Available \in Nat \ {0}
  BY DEF Framed, TypeOK, Layout, Available, ReadBody
<1>2. n \in Nat /\ n <= remaining /\ n <= Available /\ (remaining > 0 => n > 0)
  BY <1>1 DEF Least, Framed, TypeOK
<1>3. [msgbuf EXCEPT !.len = @ + n] = Grown(n)
  BY DEF ReadBody, Framed, TypeOK, Message, Grown
<1> HIDE DEF n
<1> QED
  BY <1>2, <1>3 DEF ReadBody, n

\* Each step keeps the types, the cuts and what readyRead() leaves.
LEMMA FramedStep == Framed /\ [Next]_vars => Framed'
<1> SUFFICES ASSUME Framed, [Next]_vars PROVE Framed'
  OBVIOUS
<1>1. ASSUME NEW n \in Size, Write(n) PROVE Framed'
  <2>1. TypeOK' /\ Layout'
    BY <1>1, WriteLayout DEF Framed, TypeOK, Write
  <2>2. Cut'
    <3> DEFINE k == Len(delivered) + 1
    <3>1. /\ UNCHANGED <<delivered, msgbuf, remaining, taken, alive, reading>>
          /\ Len(delivered) \in Nat /\ DOMAIN delivered = 1 .. Len(delivered)
          /\ k \in 1 .. Len(written) + 1
          /\ DOMAIN written = 1 .. Len(written) /\ DOMAIN written' = 1 .. Len(written) + 1
      BY <1>1, WriteLayout DEF Write, Framed, Cut, TypeOK
    <3>2. At(k)' = At(k) /\ \A i \in DOMAIN written : written'[i] = written[i]
      BY <1>1, <3>1, WriteLayout DEF Framed
    <3>3. Within(k) => Within(k)'
      BY <3>1, <3>2 DEF Within
    <3> QED
      BY <1>1, <3>1, <3>2, <3>3, WriteLayout DEF Cut, Framed, TypeOK
  <2>3. Drained'
    BY <1>1 DEF Write, Framed, Drained, Available
  <2> QED
    BY <2>1, <2>2, <2>3 DEF Framed
<1>2. ASSUME NEW n \in 1 .. Total, Arrive(n) PROVE Framed'
  <2>1. TypeOK' /\ Layout'
    BY <1>2 DEF Arrive, Framed, TypeOK, Layout, At, Total
  <2>2. Cut'
    BY <1>2 DEF Arrive, Framed, Cut, At, Total, Within
  <2>3. Drained'
    BY <1>2 DEF Arrive, Drained
  <2> QED
    BY <2>1, <2>2, <2>3 DEF Framed
<1>3. CASE ReadSize
  <2> DEFINE k == Len(delivered) + 1
  <2>1. /\ k \in DOMAIN written /\ taken = written[k].at
        /\ remaining' = written[k].size /\ written[k] \in Frame
        /\ taken' = taken + SizeBytes /\ msgbuf' = [from |-> taken', len |-> 0]
        /\ UNCHANGED <<written, arrived, alive, reading, delivered>> /\ reading
    BY <1>3, SizeRead, Parts DEF ReadSize, Framed
  <2>2. taken' \in Nat /\ taken' <= arrived /\ msgbuf' \in Message
    BY <1>3, <2>1 DEF ReadSize, Available, Framed, TypeOK, Message
  <2>3. TypeOK' /\ Layout'
    BY <2>1, <2>2, FrameParts DEF Framed, TypeOK, Layout, At, Total
  <2>4. Within(k)'
    BY <2>1, <2>2, FrameParts DEF Within
  <2>5. Cut'
    BY <2>1, <2>2, <2>4 DEF Framed, Cut
  <2>6. Drained'
    BY <2>1 DEF Drained
  <2> QED
    BY <2>3, <2>5, <2>6 DEF Framed
<1>4. CASE ReadBody
  <2> DEFINE k == Len(delivered) + 1
  <2>1. PICK n \in Nat :
           /\ n <= remaining /\ n <= Available /\ (remaining > 0 => n > 0)
           /\ taken' = taken + n /\ remaining' = remaining - n
           /\ IF n > 0 /\ remaining' = 0
                THEN /\ delivered' = Append(delivered, Grown(n))
                     /\ msgbuf' = NULL
                ELSE /\ msgbuf' = Grown(n)
                     /\ UNCHANGED delivered
    BY <1>4, BodyRead
  <2>2. /\ msgbuf # NULL /\ alive /\ Within(k) /\ k \in 1 .. Len(written)
        /\ msgbuf.from \in Nat /\ msgbuf.len \in Nat
        /\ written[k] \in Frame
        /\ UNCHANGED <<written, arrived, alive, reading>> /\ reading
    BY <1>4, Parts DEF ReadBody, Framed, Cut, Within
  <2>3. taken \in Nat /\ arrived \in Nat /\ remaining \in Nat /\ taken + n <= arrived
    BY <2>1 DEF Framed, TypeOK, Available
  <2>8. written[k].at \in Nat /\ written[k].size \in Nat
    BY <2>2, FrameParts
  <2>9. /\ msgbuf.from = written[k].at + SizeBytes
        /\ msgbuf.len + remaining = written[k].size
        /\ taken = msgbuf.from + msgbuf.len
        /\ written[k].size > 0 => remaining > 0
    BY <2>2 DEF Within
  <2>10. /\ taken + remaining = written[k].at + SizeBytes + written[k].size
         /\ (msgbuf.len + n) + (remaining - n) = written[k].size
         /\ taken + n = msgbuf.from + (msgbuf.len + n)
    <3>1. PICK a \in Nat, s \in Nat, f \in Nat, l \in Nat :
            /\ a = written[k].at /\ s = written[k].size
            /\ f = msgbuf.from /\ l = msgbuf.len
      BY <2>2, <2>8
    <3>2. f = a + SizeBytes /\ l + remaining = s /\ taken = f + l
      BY <2>9, <3>1
    <3>3. /\ taken + remaining = a + SizeBytes + s
          /\ (l + n) + (remaining - n) = s
          /\ taken + n = f + (l + n)
      BY ONLY <2>3, <3>2, SizeAssumption, f \in Nat, a \in Nat, l \in Nat, s \in Nat, n \in Nat
    <3> QED
      BY <3>1, <3>3
  <2>4. UNCHANGED Total /\ \A i : At(i)' = At(i)
    BY <2>2 DEF At, Total
  <2>5. Layout'
    BY <2>1, <2>2, <2>3, <2>4 DEF Framed, Layout
  <2>6. CASE n > 0 /\ remaining' = 0
    <3>0. n = remaining
      BY <2>1, <2>3, <2>6
    <3>1. Grown(n) = Body(written[k])
      BY <2>9, <3>0 DEF Body, Grown
    <3>2. delivered' = Append(delivered, Body(written[k])) /\ msgbuf' = NULL
      BY <2>1, <2>6, <3>1
    <3>3. TypeOK'
      BY <2>1, <2>2, <2>3, <2>6, <3>2, FrameParts DEF Framed, TypeOK
    <3>4. /\ Len(delivered') = k /\ DOMAIN delivered' = 1 .. k
          /\ \A i \in 1 .. k : delivered'[i] = Body(written[i])
      BY <2>2, <3>2 DEF Framed, TypeOK, Cut
    <3>5. taken' = At(k)'
      <4>1. taken' = End(written[k])
        <5>1. taken + remaining = written[k].at + SizeBytes + written[k].size
          BY <2>1, <2>10
        <5> QED
          BY <2>1, <3>0, <5>1 DEF End
      <4>2. k \in DOMAIN written
        BY <2>2 DEF Within
      <4>3. At(k + 1) = End(written[k])
        BY <4>2 DEF Framed, Layout
      <4>4. \A j : j = k + 1 => At(j)' = End(written[k])
        BY <2>4, <4>3
      <4>5. Len(delivered') + 1 = k + 1
        BY <2>2, <3>4
      <4> QED
        BY <4>1, <4>4, <4>5
    <3>6. Cut'
      <4>1. /\ Len(delivered') <= Len(written')
            /\ \A i \in DOMAIN delivered' : delivered'[i] = Body(written'[i])
        BY <2>2, <3>4, Parts DEF Framed
      <4> QED
        BY <2>2, <3>2, <3>5, <4>1 DEF Cut
    <3> QED
      BY <2>2, <2>5, <3>3, <3>6 DEF Framed, Drained
  <2>7. CASE ~(n > 0 /\ remaining' = 0)
    <3>1. msgbuf' = Grown(n) /\ UNCHANGED delivered
      BY <2>1, <2>7
    <3>2. msgbuf' \in Message /\ msgbuf' # NULL
      BY <2>2, <3>1 DEF Message, Grown
    <3>3. TypeOK'
      <4>1. taken' \in Nat /\ remaining' \in Nat
        BY <2>1, <2>3
      <4> QED
        BY <2>2, <3>1, <3>2, <4>1 DEF Framed, TypeOK
    <3>4. Within(k)'
      <4>1. msgbuf'.from = msgbuf.from /\ msgbuf'.len = msgbuf.len + n
        BY <3>1 DEF Grown
      <4>2. remaining' > 0 \/ remaining = 0
        BY <2>1, <2>3, <2>7
      <4>3. taken' = taken + n /\ remaining' = remaining - n /\ UNCHANGED <<written, delivered>>
        BY <2>1, <2>2, <3>1
      <4>4. /\ msgbuf'.len + remaining' = written[k].size
            /\ taken' = msgbuf'.from + msgbuf'.len
            /\ msgbuf'.from = written[k].at + SizeBytes
        BY <2>9, <2>10, <4>1, <4>3
      <4>5. written[k].size > 0 => remaining' > 0
        BY <2>9, <4>2
      <4> QED
        BY <2>2, <4>3, <4>4, <4>5 DEF Within
    <3> QED
      BY <2>2, <2>5, <3>1, <3>2, <3>3, <3>4 DEF Framed, Cut, Drained
  <2> QED
    BY <2>6, <2>7
<1>5. CASE Return
  <2>1. Drained'
    <3>1. Available = 0 => taken = arrived
      BY DEF Available, Framed, TypeOK
    <3> QED
      BY <1>5, <3>1 DEF Return, deviceVars, Drained, Available
  <2> QED
    BY <1>5, <2>1 DEF Return, deviceVars, Framed, TypeOK, Layout, Cut, Within, At, Total
<1>6. CASE ReadFails
  BY <1>6 DEF ReadFails, Framed, TypeOK, Layout, Cut, Drained, At, Total
<1>7. CASE Reconnect
  BY <1>7 DEF Reconnect, Framed, TypeOK, Layout, Cut, Drained, At, Total
<1>8. CASE UNCHANGED vars
  BY <1>8 DEF vars, deviceVars, Framed, TypeOK, Layout, Cut, Within, Drained, At, Total, Available
<1> QED
  BY <1>1, <1>2, <1>3, <1>4, <1>5, <1>6, <1>7, <1>8 DEF Next, ReadyReadStep

(***************************************************************************)
(* The inductive invariant, from which the results below follow.           *)
(***************************************************************************)
THEOREM FramedAlways == Spec => []Framed
<1>1. Init => Framed
  BY FramedInit
<1>2. Framed /\ [Next]_vars => Framed'
  BY FramedStep
<1> QED
  BY <1>1, <1>2, PTL DEF Spec

(***************************************************************************)
(* Every variable keeps its type: `remaining_` never goes below zero.      *)
(***************************************************************************)
THEOREM StreamTypeCorrect == Spec => []TypeOK
<1>1. Framed => TypeOK
  BY DEF Framed
<1> QED
  BY <1>1, FramedAlways, PTL

(***************************************************************************)
(* When readyRead() has returned, no message that has arrived whole waits  *)
(* for more bytes.                                                         *)
(***************************************************************************)
THEOREM NothingEverLingers == Spec => []NothingLingers
<1>1. Framed => NothingLingers
  <2> SUFFICES ASSUME Framed, alive, ~reading, NEW i \in DOMAIN written,
                      End(written[i]) <= arrived, ~Emptied(i), i \notin DOMAIN delivered
               PROVE  FALSE
    BY DEF NothingLingers
  <2> DEFINE k == Len(delivered) + 1
  <2>1. /\ k \in DOMAIN written /\ k \in 1 .. i /\ written[k].size > 0
        /\ written[k] \in Frame /\ written[i] \in Frame /\ i \in Nat
    <3>1. /\ i \in 1 .. Len(written) /\ k \in 1 .. i
          /\ written[k] \in Frame /\ written[i] \in Frame
      BY Parts DEF Framed
    <3> QED
      BY <3>1, Parts, FrameParts DEF Framed, Emptied
  <2>2. End(written[k]) <= arrived
    <3>1. CASE k = i
      BY <3>1
    <3>2. CASE k < i
      <4>1. End(written[k]) <= written[i].at
        BY <2>1, <3>2 DEF Framed, Layout
      <4> QED
        BY <2>1, <4>1, FrameParts DEF Framed, TypeOK
    <3> QED
      BY <2>1, <3>1, <3>2 DEF Framed, TypeOK
  <2>3. CASE msgbuf = NULL
    BY <2>1, <2>2, <2>3, FrameParts DEF Framed, TypeOK, Cut, At, Drained, Available
  <2>4. CASE msgbuf # NULL
    <3>1. /\ msgbuf.from = written[k].at + SizeBytes
          /\ msgbuf.len + remaining = written[k].size
          /\ taken = msgbuf.from + msgbuf.len /\ remaining > 0
      BY <2>1, <2>4 DEF Framed, Cut, Within
    <3>2. /\ msgbuf.from \in Nat /\ msgbuf.len \in Nat /\ remaining \in Nat
          /\ End(written[k]) = written[k].at + SizeBytes + written[k].size
          /\ written[k].at \in Nat /\ written[k].size \in Nat /\ arrived \in Nat
      BY <2>1, <2>4, FrameParts, Parts DEF Framed, TypeOK
    <3>3. taken = arrived
      BY <2>4 DEF Framed, Drained
    <3> QED
      BY <2>2, <3>1, <3>2, <3>3
  <2> QED
    BY <2>3, <2>4
<1> QED
  BY <1>1, FramedAlways, PTL

(***************************************************************************)
(* Every step sends or receives one message of MessageChannel, begins it   *)
(* anew, or is a stutter.                                                  *)
(***************************************************************************)
LEMMA ChannelStep ==
  ASSUME Framed, Framed', [Next]_vars
  PROVE  [Channel!Next]_Channel!vars
<1> DEFINE sent == [i \in DOMAIN written |-> Body(written[i])]
<1>0. Len(sent) = Len(written)
  BY DEF Framed, TypeOK
<1>1. ASSUME NEW n \in Size, Write(n) PROVE Channel!Send
  <2>1. /\ Len(written') = Len(written) + 1 /\ UNCHANGED delivered
        /\ \A i \in DOMAIN written : written'[i] = written[i]
        /\ DOMAIN written = 1 .. Len(written) /\ DOMAIN written' = 1 .. Len(written')
        /\ Len(written) \in Nat
    BY <1>1, WriteLayout DEF Framed, TypeOK, Write
  <2>2. Len(sent') = Len(written')
    BY <2>1
  <2>3. \A i \in 1 .. Len(written) : sent'[i] = sent[i]
    BY <2>1 DEF Body
  <2> QED
    BY <1>0, <2>1, <2>2, <2>3 DEF Channel!Send
<1>2. CASE ReadBody
  <2>1. UNCHANGED written
    BY <1>2 DEF ReadBody
  <2>2. CASE UNCHANGED delivered
    BY <2>1, <2>2 DEF Channel!vars
  <2>3. CASE delivered' # delivered
    <3>1. PICK m : delivered' = Append(delivered, m)
      BY <1>2, <2>3, BodyRead
    <3>2. /\ Len(delivered) + 1 \in DOMAIN delivered'
          /\ m = delivered'[Len(delivered) + 1]
          /\ Len(delivered') = Len(delivered) + 1
      BY <3>1 DEF Framed, TypeOK
    <3>3. /\ Len(delivered) < Len(written) /\ Len(delivered) + 1 \in DOMAIN written
          /\ m = sent[Len(delivered) + 1]
      BY <2>1, <3>2 DEF Framed, Cut, TypeOK
    <3> QED
      BY <1>0, <2>1, <3>1, <3>3 DEF Channel!Receive, Channel!Next
  <2> QED
    BY <2>2, <2>3
<1>3. CASE Reconnect
  <2>1. written' = << >> /\ delivered' = << >>
    BY <1>3 DEF Reconnect
  <2>2. sent' = << >>
    BY <2>1
  <2> QED
    BY <2>1, <2>2 DEF Channel!Reconnect, Channel!Next
<1>4. CASE \/ \E n \in 1 .. Total : Arrive(n)
           \/ ReadSize \/ Return \/ ReadFails \/ UNCHANGED vars
  BY <1>4 DEF Arrive, ReadSize, Return, ReadFails, vars, deviceVars, Channel!vars
<1> QED
  BY <1>1, <1>2, <1>3, <1>4 DEF Next, ReadyReadStep, Channel!Next

(***************************************************************************)
(* The messages emitted are the first of those written, each whole, once   *)
(* and in order: MessageStream implements MessageChannel.                  *)
(***************************************************************************)
THEOREM StreamImplementsChannel == Spec => ImplementsChannel
<1>1. Init => Channel!Init
  BY DEF Init, Channel!Init
<1>2. Framed /\ Framed' /\ [Next]_vars => [Channel!Next]_Channel!vars
  BY ChannelStep
<1> QED
  BY <1>1, <1>2, FramedAlways, PTL DEF Spec, ImplementsChannel, Channel!Spec
=============================================================================
