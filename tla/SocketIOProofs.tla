--------------------------- MODULE SocketIOProofs ---------------------------
(***************************************************************************)
(* Proofs that a worker reads the requests that were written and writes    *)
(* whole responses, for requests of any number and size, and however       *)
(* recv() and send() cut them.                                             *)
(***************************************************************************)
EXTENDS SocketIO, TLAPS, SequenceTheorems

USE SizeAssumption

\* Where frame k begins, or will when it is written.
At(k) == IF k \in DOMAIN written THEN written[k].at ELSE Total

(***************************************************************************)
(* The frames lie one behind the other.                                    *)
(***************************************************************************)
Layout ==
  /\ At(1) = 0
  /\ \A i \in DOMAIN written : At(i + 1) = End(written[i])
  /\ \A i, j \in DOMAIN written : i < j => End(written[i]) <= written[j].at
  /\ \A i \in DOMAIN written : End(written[i]) <= Total
  /\ taken <= arrived /\ arrived <= Total

(***************************************************************************)
(* The worker reads, serves and answers the first request that has not     *)
(* been served: readN() has in its buffer what it has taken of the size,   *)
(* or of the body, and stands behind it as long as it is to read more.     *)
(***************************************************************************)
Current == Len(served) + 1
Asked == IF pc = "readSize" THEN SizeBytes ELSE size_
Base == IF pc = "readSize" THEN At(Current) ELSE At(Current) + SizeBytes

Reading ==
  pc \in {"readSize", "readBody"} =>
    /\ left <= Asked
    /\ taken = Base + (Asked - left)
    /\ buffer = Positions(Base, Asked - left)
    /\ left > 0 => offset = Asked - left
    /\ pc = "readBody" => Current \in DOMAIN written /\ size_ = written[Current].size

Cut ==
  /\ Len(served) <= Len(written)
  /\ \A i \in DOMAIN served : served[i] = Body(written[i])
  /\ Reading
  /\ pc = "serve" => /\ Current \in DOMAIN written
                     /\ buffer = Body(written[Current]) /\ taken = End(written[Current])
  /\ pc \in {"sendSize", "sendBody"} => taken = At(Current)

(***************************************************************************)
(* sendN() has given what is no longer left, as long as no call fails.     *)
(***************************************************************************)
Given ==
  /\ \A i \in 1 .. Len(wire) : wire[i] = i
  /\ pc \in {"sendSize", "sendBody"} =>
       /\ left <= Length
       /\ up => Len(wire) = From + Length - left
  /\ up /\ pc \in {"readSize", "readBody", "serve"} /\ served # << >> =>
       Len(wire) = SizeBytes + ResponseSize

Whole == TypeOK /\ Layout /\ Cut /\ Given

-----------------------------------------------------------------------------
\* The bytes from a position on, and those that follow them.
LEMMA PositionsSeq ==
  ASSUME NEW a \in Nat, NEW n \in Nat
  PROVE  /\ Positions(a, n) \in Seq(Nat) /\ Len(Positions(a, n)) = n
         /\ \A i \in 1 .. n : Positions(a, n)[i] = a + i
<1>1. Positions(a, n) \in [1 .. n -> Nat]
  BY DEF Positions
<1>2. Positions(a, n) \in Seq(Nat)
  BY <1>1
<1>3. Len(Positions(a, n)) = n
  BY <1>1, <1>2, LenProperties
<1> QED
  BY <1>2, <1>3 DEF Positions

LEMMA PositionsJoin ==
  ASSUME NEW a \in Nat, NEW m \in Nat, NEW n \in Nat
  PROVE  Positions(a, m) \o Positions(a + m, n) = Positions(a, m + n)
<1>1. /\ Positions(a, m) \in Seq(Nat) /\ Positions(a + m, n) \in Seq(Nat)
      /\ Positions(a, m + n) \in Seq(Nat)
      /\ Len(Positions(a, m)) = m /\ Len(Positions(a + m, n)) = n
      /\ Len(Positions(a, m + n)) = m + n
  <2>1. a + m \in Nat /\ m + n \in Nat
    OBVIOUS
  <2> QED
    BY <2>1, PositionsSeq
<1>2. /\ Positions(a, m) \o Positions(a + m, n) \in Seq(Nat)
      /\ Len(Positions(a, m) \o Positions(a + m, n)) = m + n
  BY <1>1, ConcatProperties
<1>3. ASSUME NEW i \in 1 .. m + n
      PROVE  (Positions(a, m) \o Positions(a + m, n))[i] = Positions(a, m + n)[i]
  <2>0. Positions(a, m + n)[i] = a + i
    BY DEF Positions
  <2>1. CASE i <= m
    <3>1. (Positions(a, m) \o Positions(a + m, n))[i] = Positions(a, m)[i]
      BY <1>1, <2>1, ConcatProperties
    <3> QED
      BY <2>0, <2>1, <3>1 DEF Positions
  <2>2. CASE ~(i <= m)
    <3>1. i - m \in 1 .. n /\ (a + m) + (i - m) = a + i
      BY <2>2
    <3>2. (Positions(a, m) \o Positions(a + m, n))[i] = Positions(a + m, n)[i - m]
      <4> DEFINE s == Positions(a, m)
                 t == Positions(a + m, n)
      <4>1. s \in Seq(Nat) /\ t \in Seq(Nat) /\ Len(s) = m /\ Len(t) = n
        BY <1>1
      <4> HIDE DEF s, t
      <4>2. i \in Len(s) + 1 .. Len(s) + Len(t)
        BY <2>2, <4>1
      <4>3. (s \o t)[i] = t[i - Len(s)]
        BY <4>1, <4>2, ConcatProperties
      <4> QED
        BY <4>1, <4>3 DEF s, t
    <3> QED
      BY <2>0, <3>1, <3>2 DEF Positions
  <2> QED
    BY <2>1, <2>2
<1> QED
  BY <1>1, <1>2, <1>3, SeqEqual

\* The fields of a frame are numbers.
LEMMA FrameParts ==
  ASSUME NEW f \in Frame
  PROVE  /\ f.at \in Nat /\ f.size \in Nat /\ f.size \in Size
         /\ End(f) \in Nat /\ f.at + SizeBytes <= End(f) /\ f.at < End(f)
         /\ End(f) = f.at + SizeBytes + f.size
         /\ Body(f) = Positions(f.at + SizeBytes, f.size) /\ Body(f) \in Seq(Nat)
<1>1. f.at \in Nat /\ f.size \in Size
  BY DEF Frame
<1>2. f.size \in Nat /\ f.at + SizeBytes \in Nat
  <2>1. f.size \in Nat /\ SizeBytes \in Nat
    BY <1>1
  <2> QED
    BY <1>1, <2>1
<1>3. Body(f) \in Seq(Nat)
  BY <1>2, PositionsSeq DEF Body
<1> QED
  BY <1>1, <1>2, <1>3 DEF End, Body

\* What TypeOK says of the sequences.
LEMMA Parts ==
  ASSUME TypeOK
  PROVE  /\ Len(written) \in Nat /\ DOMAIN written = 1 .. Len(written)
         /\ \A i \in 1 .. Len(written) : written[i] \in Frame
         /\ Total \in Nat
         /\ \A k : At(k) \in Nat
         /\ Len(served) \in Nat /\ DOMAIN served = 1 .. Len(served)
         /\ Current \in Nat
<1>1. /\ Len(written) \in Nat /\ DOMAIN written = 1 .. Len(written)
      /\ \A i \in 1 .. Len(written) : written[i] \in Frame
      /\ Len(served) \in Nat /\ DOMAIN served = 1 .. Len(served)
  BY DEF TypeOK
<1>2. written # << >> => Len(written) \in 1 .. Len(written)
  BY DEF TypeOK
<1>3. Total \in Nat
  BY <1>1, <1>2, FrameParts DEF Total
<1> QED
  BY <1>1, <1>3, FrameParts DEF At, Current

\* Nothing has been written or read at the start.
LEMMA WholeInit == Init => Whole
<1> SUFFICES ASSUME Init PROVE Whole
  OBVIOUS
<1>1. /\ Total = 0 /\ (\A k : At(k) = 0)
      /\ Len(served) = 0 /\ Len(wire) = 0 /\ Len(written) = 0 /\ DOMAIN served = {}
      /\ DOMAIN written = {}
  BY DEF Init, Total, At
<1>2. Positions(0, 0) = << >>
  <2>1. Positions(0, 0) \in Seq(Nat) /\ Len(Positions(0, 0)) = 0
    BY PositionsSeq
  <2> QED
    BY <2>1, EmptySeq
<1>3. TypeOK
  <2>1. written \in Seq(Frame) /\ buffer \in Seq(Nat) /\ wire \in Seq(Nat)
        /\ served \in Seq(Seq(Nat))
    BY DEF Init
  <2> QED
    BY <2>1 DEF Init, TypeOK, PC
<1>4. Layout
  BY <1>1 DEF Init, Layout
<1>5. Cut
  BY <1>1, <1>2 DEF Init, Cut, Reading, Asked, Base
<1>6. Given
  BY <1>1 DEF Init, Given
<1> QED
  BY <1>3, <1>4, <1>5, <1>6 DEF Whole

\* A new frame begins where the last one ended, and moves no other.
LEMMA WriteLayout ==
  ASSUME TypeOK, Layout, NEW n \in Size, Write(n)
  PROVE  /\ written' \in Seq(Frame) /\ Len(written') = Len(written) + 1
         /\ DOMAIN written' = 1 .. Len(written) + 1
         /\ \A i \in DOMAIN written : written'[i] = written[i]
         /\ Layout'
         /\ \A i \in 1 .. Len(written) + 1 : At(i)' = At(i)
<1> DEFINE f == [at |-> Total, size |-> n]
<1>1. Total \in Nat
  BY Parts
<1>2. f \in Frame /\ written' = Append(written, f)
  BY <1>1 DEF Write, Frame
<1> HIDE DEF f
<1>3. /\ written' \in Seq(Frame) /\ Len(written') = Len(written) + 1
      /\ \A i \in 1 .. Len(written) : written'[i] = written[i]
      /\ written'[Len(written) + 1] = f
      /\ Len(written) \in Nat
  BY <1>2 DEF TypeOK
<1>4. DOMAIN written = 1 .. Len(written) /\ DOMAIN written' = 1 .. Len(written) + 1
  BY <1>3 DEF TypeOK
<1>5. f.at = Total /\ f.size = n /\ n \in Nat
  BY DEF f
<1>6. Total' = Total + SizeBytes + n
  <2>1. Total' = End(f)
    BY <1>3, <1>4 DEF Total
  <2> QED
    BY <2>1, <1>5 DEF End
<1>7. \A i \in 1 .. Len(written) + 1 : At(i)' = At(i)
  BY <1>3, <1>4, <1>5 DEF At
<1>8. \A i \in 1 .. Len(written) : /\ written[i].at \in Nat /\ written[i].size \in Nat
                                   /\ End(written[i]) \in Nat
  BY Parts, FrameParts
<1>9. \A i \in DOMAIN written' : i \in 1 .. Len(written) \/ i = Len(written) + 1
  BY <1>3, <1>4
<1>10. End(written'[Len(written) + 1]) = Total' /\ Total' \in Nat
  BY <1>1, <1>3, <1>5, <1>6 DEF End
<1>11. Layout'
  <2>1. At(1)' = 0
    BY <1>3, <1>7 DEF Layout
  <2>2. \A i \in DOMAIN written' : At(i + 1)' = End(written'[i])
    <3>1. ASSUME NEW i \in 1 .. Len(written) PROVE At(i + 1)' = End(written'[i])
      BY <1>3, <1>4, <1>7 DEF Layout
    <3>2. \A j : j = Len(written) + 2 => At(j)' = Total'
      BY <1>3, <1>4 DEF At
    <3>3. Len(written) + 1 + 1 = Len(written) + 2
      BY <1>3
    <3> QED
      BY <1>9, <1>10, <3>1, <3>2, <3>3
  <2>3. \A i, j \in DOMAIN written' : i < j => End(written'[i]) <= written'[j].at
    BY <1>3, <1>4, <1>5, <1>8 DEF Layout
  <2>4. \A i \in DOMAIN written' : End(written'[i]) <= Total'
    <3>1. ASSUME NEW i \in 1 .. Len(written) PROVE End(written'[i]) <= Total'
      BY <1>1, <1>3, <1>4, <1>5, <1>6, <1>8 DEF Layout
    <3> QED
      BY <1>9, <1>10, <3>1
  <2>5. taken' <= arrived' /\ arrived' <= Total'
    BY <1>1, <1>5, <1>6 DEF Write, readVars, Layout, TypeOK
  <2> QED
    BY <2>1, <2>2, <2>3, <2>4, <2>5 DEF Layout
<1> QED
  BY <1>3, <1>4, <1>7, <1>11

\* Steps that write no request leave the frames where they are.
LEMMA LayoutIdle ==
  ASSUME Layout, UNCHANGED written, taken' <= arrived', arrived' <= Total
  PROVE  Layout'
BY DEF Layout, At, Total

\* When readN() has read a size, it is that of the current request.
LEMMA SizeIsRead ==
  ASSUME Whole, pc = "readSize", left = 0
  PROVE  /\ Current \in DOMAIN written
         /\ SizesIn(buffer) = {written[Current].size}
<1>1. taken = At(Current) + SizeBytes /\ buffer = Positions(At(Current), SizeBytes)
  <2>1. At(Current) \in Nat
    BY Parts DEF Whole
  <2> QED
    BY <2>1 DEF Whole, Cut, Reading, Asked, Base
<1>2. Current \in DOMAIN written
  <2> SUFFICES ASSUME Current \notin DOMAIN written PROVE FALSE
    OBVIOUS
  <2>1. At(Current) = Total /\ Total \in Nat
    BY Parts DEF At, Whole
  <2>2. taken \in Nat /\ arrived \in Nat /\ taken <= arrived /\ arrived <= Total
    BY DEF Whole, TypeOK, Layout
  <2> QED
    BY <1>1, <2>1, <2>2
<1>3. At(Current) = written[Current].at
  BY <1>2 DEF At
<1>4. ASSUME NEW i \in 1 .. Len(written), buffer = Positions(written[i].at, SizeBytes)
      PROVE  i = Current
  <2>1. DOMAIN written = 1 .. Len(written) /\ Len(written) \in Nat
    BY Parts DEF Whole
  <2>2. written[i] \in Frame /\ written[Current] \in Frame
    BY <1>2, <2>1, Parts DEF Whole
  <2>3. /\ written[i].at \in Nat /\ written[Current].at \in Nat
        /\ End(written[i]) \in Nat /\ End(written[Current]) \in Nat
        /\ written[i].at < End(written[i]) /\ written[Current].at < End(written[Current])
    BY <2>2, FrameParts
  <2>4. buffer[1] = written[i].at + 1 /\ buffer[1] = written[Current].at + 1
    <3>1. 1 \in 1 .. SizeBytes
      OBVIOUS
    <3>2. /\ Positions(written[i].at, SizeBytes)[1] = written[i].at + 1
          /\ Positions(written[Current].at, SizeBytes)[1] = written[Current].at + 1
      BY <3>1 DEF Positions
    <3> QED
      BY <1>1, <1>3, <1>4, <3>2
  <2>5. /\ i < Current => End(written[i]) <= written[Current].at
        /\ Current < i => End(written[Current]) <= written[i].at
    BY <1>2, <2>1 DEF Whole, Layout
  <2>6. i \in Nat /\ Current \in Nat
    BY <1>2, <2>1
  <2> QED
    BY <2>3, <2>4, <2>5, <2>6
<1>5. {i \in 1 .. Len(written) : buffer = Positions(written[i].at, SizeBytes)} = {Current}
  <2>1. Current \in 1 .. Len(written)
    BY <1>2, Parts DEF Whole
  <2> QED
    BY <1>1, <1>3, <1>4, <2>1
<1> HIDE DEF Current
<1>6. SizesIn(buffer) = {written[Current].size}
  BY <1>5 DEF SizesIn
<1> QED
  BY <1>2, <1>6

-----------------------------------------------------------------------------
\* A request that is written lies behind all that readN() has in hand.
LEMMA WriteKeeps ==
  ASSUME Whole, NEW n \in Size, Write(n)
  PROVE  Whole'
<1>1. /\ written' \in Seq(Frame) /\ Len(written') = Len(written) + 1
      /\ DOMAIN written' = 1 .. Len(written) + 1
      /\ \A i \in DOMAIN written : written'[i] = written[i]
      /\ Layout'
      /\ \A i \in 1 .. Len(written) + 1 : At(i)' = At(i)
  BY WriteLayout DEF Whole
<1>2. UNCHANGED <<arrived, up, pc, size_, taken, buffer, offset, left, sent, wire, served>>
  BY DEF Write, readVars
<1>3. TypeOK'
  BY <1>1, <1>2 DEF Whole, TypeOK
<1>4. DOMAIN written = 1 .. Len(written) /\ DOMAIN served = 1 .. Len(served)
      /\ Len(written) \in Nat /\ Len(served) \in Nat
  BY Parts DEF Whole
<1>5. Len(served) <= Len(written)
  BY DEF Whole, Cut
<1>6. Current \in 1 .. Len(written) + 1 /\ Current' = Current
  BY <1>2, <1>4, <1>5 DEF Current
<1>7. At(Current)' = At(Current)
  BY <1>1, <1>6
<1>8. Base' = Base /\ Asked' = Asked
  BY <1>2, <1>7 DEF Base, Asked
<1>9. Current \in DOMAIN written =>
        Current' \in DOMAIN written' /\ written'[Current'] = written[Current]
  BY <1>1, <1>4, <1>6
<1>10. Cut'
  <2>1. Len(served') <= Len(written')
    BY <1>1, <1>2, <1>4, <1>5
  <2>2. \A i \in DOMAIN served' : served'[i] = Body(written'[i])
    BY <1>1, <1>2, <1>4, <1>5 DEF Whole, Cut
  <2>3. Reading'
    BY <1>2, <1>8, <1>9 DEF Whole, Cut, Reading
  <2>4. pc' = "serve" => /\ Current' \in DOMAIN written'
                         /\ buffer' = Body(written'[Current'])
                         /\ taken' = End(written'[Current'])
    BY <1>2, <1>9 DEF Whole, Cut
  <2>5. pc' \in {"sendSize", "sendBody"} => taken' = At(Current)'
    BY <1>2, <1>7 DEF Whole, Cut
  <2> QED
    BY <1>6, <2>1, <2>2, <2>3, <2>4, <2>5 DEF Cut
<1>11. Given'
  BY <1>2 DEF Whole, Given, Length, From
<1> QED
  BY <1>1, <1>3, <1>10, <1>11 DEF Whole

\* What has come does not matter to what has been read.
LEMMA CutIdle ==
  ASSUME Cut, UNCHANGED <<written, pc, size_, taken, buffer, offset, left, served>>
  PROVE  Cut'
BY DEF Cut, Reading, Asked, Base, At, Current, Total

LEMMA ArriveKeeps ==
  ASSUME Whole, Arrive
  PROVE  Whole'
<1>1. /\ UNCHANGED <<written, up, pc, size_, taken, buffer, offset, left, sent, wire, served>>
      /\ arrived' \in arrived + 1 .. Total
  BY DEF Arrive, readVars
<1>2. Total \in Nat /\ arrived \in Nat /\ taken \in Nat /\ taken <= arrived
  BY Parts DEF Whole, TypeOK
<1>3. arrived' \in Nat /\ taken' <= arrived' /\ arrived' <= Total
  BY <1>1, <1>2
<1>4. TypeOK'
  BY <1>1, <1>3 DEF Whole, TypeOK
<1>5. Layout'
  BY <1>1, <1>3, LayoutIdle DEF Whole
<1>6. Cut'
  BY <1>1, CutIdle DEF Whole
<1>7. Given'
  BY <1>1 DEF Whole, Given, Length, From
<1> QED
  BY <1>4, <1>5, <1>6, <1>7 DEF Whole

LEMMA BreakKeeps ==
  ASSUME Whole, Break
  PROVE  Whole'
<1>1. /\ UNCHANGED <<written, arrived, pc, size_, taken, buffer, offset, left, sent, wire, served>>
      /\ up' = FALSE
  BY DEF Break, readVars
<1>2. TypeOK'
  BY <1>1 DEF Whole, TypeOK
<1>3. Layout'
  BY <1>1, LayoutIdle DEF Whole, Layout
<1>4. Cut'
  BY <1>1, CutIdle DEF Whole
<1>5. Given'
  BY <1>1 DEF Whole, Given, Length, From
<1> QED
  BY <1>2, <1>3, <1>4, <1>5 DEF Whole

-----------------------------------------------------------------------------
\* recv() goes on behind what readN() has.
LEMMA ReadKeeps ==
  ASSUME Whole, ReadMore
  PROVE  Whole'
<1>1. PICK n \in 1 .. left : n <= arrived - taken /\ Recv(n)
  BY DEF ReadMore
<1>2. /\ UNCHANGED <<written, arrived, up, pc, size_, sent, wire, served>>
      /\ pc \in {"readSize", "readBody"} /\ left > 0
  BY DEF ReadMore
<1>3. /\ taken' = taken + n /\ left' = left - n
      /\ buffer' = SubSeq(buffer, 1, offset) \o Positions(taken, n)
      /\ offset' = IF left' # 0 THEN offset + n ELSE offset
  BY <1>1 DEF Recv
<1>4. /\ left \in Nat /\ n \in Nat /\ n <= left /\ taken \in Nat /\ arrived \in Nat
      /\ offset \in Nat /\ buffer \in Seq(Nat) /\ size_ \in Nat
  BY DEF Whole, TypeOK
<1>5. Asked \in Nat /\ Base \in Nat
  <2>1. At(Current) \in Nat
    BY Parts DEF Whole
  <2> QED
    BY <1>4, <2>1 DEF Asked, Base
<1>6. /\ left <= Asked /\ taken = Base + (Asked - left)
      /\ buffer = Positions(Base, Asked - left) /\ offset = Asked - left
      /\ pc = "readBody" => Current \in DOMAIN written /\ size_ = written[Current].size
  BY <1>2 DEF Whole, Cut, Reading
<1>7. Asked - left \in Nat
  BY <1>4, <1>5, <1>6
<1>8. SubSeq(buffer, 1, offset) = buffer
  <2>1. Len(buffer) = offset
    BY <1>5, <1>6, <1>7, PositionsSeq
  <2> QED
    BY <1>4, <2>1, SubSeqFull
<1>9. buffer' = Positions(Base, Asked - left')
  <2>1. Asked - left' = (Asked - left) + n
    BY <1>3, <1>4, <1>5
  <2> QED
    <3>1. Positions(Base, Asked - left) \o Positions(Base + (Asked - left), n)
            = Positions(Base, (Asked - left) + n)
      BY <1>4, <1>5, <1>7, PositionsJoin
    <3> QED
      BY <1>3, <1>6, <1>8, <2>1, <3>1
<1>10. /\ left' \in Nat /\ left' <= Asked /\ taken' \in Nat /\ taken' <= arrived'
       /\ taken' = Base + (Asked - left')
       /\ offset' \in Nat /\ (left' > 0 => offset' = Asked - left')
  BY <1>1, <1>2, <1>3, <1>4, <1>5, <1>6, <1>7
<1>11. Asked' = Asked /\ Base' = Base /\ Current' = Current
  BY <1>2 DEF Asked, Base, Current, At, Total
<1>12. buffer' \in Seq(Nat)
  <2>1. Asked - left' = (Asked - left) + n
    BY <1>3, <1>4, <1>5
  <2>2. Asked - left' \in Nat
    BY <1>4, <1>7, <2>1
  <2> QED
    BY <1>5, <1>9, <2>2, PositionsSeq
<1>13. TypeOK'
  BY <1>2, <1>10, <1>12 DEF Whole, TypeOK
<1>14. Layout'
  BY <1>2, <1>10, LayoutIdle DEF Whole, Layout
<1>15. Reading'
  BY <1>2, <1>6, <1>9, <1>10, <1>11 DEF Reading
<1>16. Cut'
  BY <1>2, <1>15 DEF Whole, Cut
<1>17. Given'
  BY <1>2 DEF Whole, Given, Length, From
<1> QED
  BY <1>13, <1>14, <1>16, <1>17 DEF Whole

LEMMA ReadFailsKeeps ==
  ASSUME Whole, ReadFails
  PROVE  Whole'
<1>1. /\ UNCHANGED <<written, arrived, up, size_, taken, buffer, offset, left, sent, wire, served>>
      /\ pc' = "closed"
  BY DEF ReadFails, readVars
<1>2. TypeOK'
  BY <1>1 DEF Whole, TypeOK, PC
<1>3. Layout'
  BY <1>1, LayoutIdle DEF Whole, Layout
<1>4. Cut'
  BY <1>1 DEF Whole, Cut, Reading
<1>5. Given'
  BY <1>1 DEF Whole, Given
<1> QED
  BY <1>2, <1>3, <1>4, <1>5 DEF Whole

\* The size that was read begins the reading of the body.
LEMMA SizeReadKeeps ==
  ASSUME Whole, SizeRead
  PROVE  Whole'
<1>1. /\ UNCHANGED <<written, arrived, up, taken, sent, wire, served>>
      /\ pc = "readSize" /\ left = 0 /\ pc' = "readBody"
  BY DEF SizeRead
<1>2. Current \in DOMAIN written /\ SizesIn(buffer) = {written[Current].size}
  BY <1>1, SizeIsRead
<1>3. /\ size_' = written[Current].size /\ left' = size_'
      /\ buffer' = << >> /\ offset' = 0
  BY <1>2 DEF SizeRead, StartRead
<1>4. At(Current) \in Nat /\ size_' \in Nat
  BY <1>2, <1>3, Parts, FrameParts DEF Whole
<1>5. taken = At(Current) + SizeBytes
  BY <1>1, <1>4 DEF Whole, Cut, Reading, Asked, Base
<1>6. Current' = Current /\ At(Current)' = At(Current)
  BY <1>1 DEF Current, At, Total
<1>7. Asked' = size_' /\ Base' = At(Current) + SizeBytes
  BY <1>1, <1>6 DEF Asked, Base
<1>8. Positions(Base', 0) = << >>
  <2>1. Base' \in Nat /\ 0 \in Nat
    BY <1>4, <1>7
  <2>2. Positions(Base', 0) \in Seq(Nat) /\ Len(Positions(Base', 0)) = 0
    BY <2>1, PositionsSeq
  <2> QED
    BY <2>2, EmptySeq
<1>9. Asked' - left' = 0 /\ Base' + 0 = taken'
  BY <1>1, <1>3, <1>4, <1>5, <1>7
<1>10. TypeOK'
  BY <1>1, <1>3, <1>4 DEF Whole, TypeOK, PC
<1>11. Layout'
  BY <1>1, LayoutIdle DEF Whole, Layout
<1>12. Reading'
  <2>1. left' <= Asked' /\ taken' = Base' + (Asked' - left')
    BY <1>3, <1>4, <1>7, <1>9
  <2>2. buffer' = Positions(Base', Asked' - left')
    BY <1>3, <1>8, <1>9
  <2>3. left' > 0 => offset' = Asked' - left'
    BY <1>3, <1>9
  <2>4. Current' \in DOMAIN written' /\ size_' = written'[Current'].size
    BY <1>1, <1>2, <1>3, <1>6
  <2> QED
    BY <2>1, <2>2, <2>3, <2>4 DEF Reading
<1>13. Cut'
  BY <1>1, <1>12 DEF Whole, Cut
<1>14. Given'
  BY <1>1 DEF Whole, Given
<1> QED
  BY <1>10, <1>11, <1>13, <1>14 DEF Whole

LEMMA BodyReadKeeps ==
  ASSUME Whole, BodyRead
  PROVE  Whole'
<1>1. /\ UNCHANGED <<written, arrived, up, size_, taken, buffer, offset, left, sent, wire, served>>
      /\ pc = "readBody" /\ left = 0 /\ pc' = "serve"
  BY DEF BodyRead, readVars
<1>2. Current \in DOMAIN written /\ size_ = written[Current].size
  BY <1>1 DEF Whole, Cut, Reading
<1>3. At(Current) = written[Current].at /\ written[Current] \in Frame
  BY <1>2, Parts DEF At, Whole
<1>4. /\ written[Current].at \in Nat /\ size_ \in Nat
      /\ End(written[Current]) = written[Current].at + SizeBytes + size_
      /\ Body(written[Current]) = Positions(written[Current].at + SizeBytes, size_)
  BY <1>2, <1>3, FrameParts
<1>5. buffer = Body(written[Current]) /\ taken = End(written[Current])
  <2>1. Asked = size_ /\ Base = written[Current].at + SizeBytes /\ Asked - left = size_
    BY <1>1, <1>3, <1>4 DEF Asked, Base
  <2>2. buffer = Positions(Base, Asked - left) /\ taken = Base + (Asked - left)
    BY <1>1 DEF Whole, Cut, Reading
  <2> QED
    BY <1>4, <2>1, <2>2
<1>6. Current' = Current /\ written' = written
  BY <1>1 DEF Current
<1>7. TypeOK'
  BY <1>1 DEF Whole, TypeOK, PC
<1>8. Layout'
  BY <1>1, LayoutIdle DEF Whole, Layout
<1>9. Cut'
  BY <1>1, <1>2, <1>5, <1>6 DEF Whole, Cut, Reading
<1>10. Given'
  BY <1>1 DEF Whole, Given
<1> QED
  BY <1>7, <1>8, <1>9, <1>10 DEF Whole

-----------------------------------------------------------------------------
\* The request served is the next of those written.
LEMMA ServeKeeps ==
  ASSUME Whole, Serve
  PROVE  Whole'
<1>1. /\ UNCHANGED <<written, arrived, up, size_, taken, buffer, offset>>
      /\ pc = "serve" /\ pc' = "sendSize" /\ left' = SizeBytes /\ sent' = 0
      /\ wire' = << >> /\ served' = Append(served, buffer)
  BY DEF Serve, StartSend, readVars
<1>2. /\ Current \in DOMAIN written /\ buffer = Body(written[Current])
      /\ taken = End(written[Current])
  BY <1>1 DEF Whole, Cut
<1>3. buffer \in Seq(Nat) /\ served \in Seq(Seq(Nat))
  BY DEF Whole, TypeOK
<1>4. /\ served' \in Seq(Seq(Nat)) /\ Len(served') = Current
      /\ DOMAIN served' = 1 .. Current
      /\ \A i \in 1 .. Len(served) : served'[i] = served[i]
      /\ served'[Current] = buffer
  BY <1>1, <1>3 DEF Current
<1>5. DOMAIN written = 1 .. Len(written) /\ DOMAIN served = 1 .. Len(served)
      /\ Len(written) \in Nat /\ Len(served) \in Nat
  BY Parts DEF Whole
<1>6. At(Current)' = End(written[Current])
  <2>1. Current' = Current + 1
    BY <1>4 DEF Current
  <2>2. At(Current + 1) = End(written[Current])
    BY <1>2 DEF Whole, Layout
  <2>3. At(Current)' = At(Current + 1)
    BY <1>1, <2>1 DEF At, Total
  <2> QED
    BY <2>2, <2>3
<1>7. TypeOK'
  BY <1>1, <1>4 DEF Whole, TypeOK, PC
<1>8. Layout'
  BY <1>1, LayoutIdle DEF Whole, Layout
<1>9. Cut'
  <2>1. Len(served') <= Len(written')
    BY <1>1, <1>2, <1>4, <1>5
  <2>2. \A i \in DOMAIN served' : served'[i] = Body(written'[i])
    <3>1. \A i \in 1 .. Current : i \in 1 .. Len(served) \/ i = Current
      BY <1>5 DEF Current
    <3> QED
      BY <1>1, <1>2, <1>4, <1>5, <3>1 DEF Whole, Cut
  <2>3. taken' = At(Current)'
    BY <1>1, <1>2, <1>6
  <2> QED
    BY <1>1, <2>1, <2>2, <2>3 DEF Cut, Reading
<1>10. Given'
  <2>1. Len(wire') = 0 /\ Length' = SizeBytes /\ From' = 0
    BY <1>1 DEF Length, From
  <2> QED
    BY <1>1, <2>1 DEF Given
<1> QED
  BY <1>7, <1>8, <1>9, <1>10 DEF Whole

-----------------------------------------------------------------------------
\* When sendN() returns from the size the body is next, and then a new request.
LEMMA ReturnKeeps ==
  ASSUME Whole, pc \in {"sendSize", "sendBody"}, SendReturns,
         UNCHANGED <<written, arrived, up, size_, taken, served>>,
         wire' \in Seq(Nat), \A i \in 1 .. Len(wire') : wire'[i] = i,
         up => Len(wire') = From + Length
  PROVE  Whole'
<1>1. CASE pc = "sendSize"
  <2>1. pc' = "sendBody" /\ left' = ResponseSize /\ sent' = 0 /\ UNCHANGED <<buffer, offset>>
    BY <1>1 DEF SendReturns, StartSend
  <2>2. TypeOK'
    BY <2>1 DEF Whole, TypeOK, PC
  <2>3. Layout'
    BY LayoutIdle DEF Whole, Layout
  <2>4. Cut'
    <3>1. At(Current)' = At(Current)
      BY DEF At, Current, Total
    <3> QED
      BY <2>1, <3>1 DEF Whole, Cut, Reading
  <2>5. Given'
    <3>1. Length' = ResponseSize /\ From' = SizeBytes /\ From = 0 /\ Length = SizeBytes
      BY <1>1, <2>1 DEF Length, From
    <3>2. up' => Len(wire') = From' + Length' - left'
      BY <2>1, <3>1
    <3> QED
      BY <2>1, <3>1, <3>2 DEF Given
  <2> QED
    BY <2>2, <2>3, <2>4, <2>5 DEF Whole
<1>2. CASE pc = "sendBody"
  <2>1. /\ pc' = "readSize" /\ left' = SizeBytes /\ buffer' = << >> /\ offset' = 0
        /\ sent' = sent
    BY <1>2 DEF SendReturns, StartRead
  <2>2. TypeOK'
    BY <2>1 DEF Whole, TypeOK, PC
  <2>3. Layout'
    BY LayoutIdle DEF Whole, Layout
  <2>4. Cut'
    <3>1. At(Current)' = At(Current) /\ At(Current) \in Nat /\ taken = At(Current)
      BY <1>2, Parts DEF At, Current, Total, Whole, Cut
    <3>2. Base' = At(Current) /\ Asked' = SizeBytes
      BY <2>1, <3>1 DEF Base, Asked
    <3>3. Positions(At(Current), 0) = << >>
      <4>1. Positions(At(Current), 0) \in Seq(Nat) /\ Len(Positions(At(Current), 0)) = 0
        BY <3>1, PositionsSeq
      <4> QED
        BY <4>1, EmptySeq
    <3>4. Reading'
      <4>1. Asked' - left' = 0 /\ At(Current) + 0 = taken'
        BY <2>1, <3>1, <3>2
      <4> QED
        BY <2>1, <3>2, <3>3, <4>1 DEF Reading
    <3> QED
      BY <2>1, <3>4 DEF Whole, Cut
  <2>5. Given'
    <3>1. From = SizeBytes /\ Length = ResponseSize
      BY <1>2 DEF Length, From
    <3> QED
      BY <2>1, <3>1 DEF Given
  <2> QED
    BY <2>2, <2>3, <2>4, <2>5 DEF Whole
<1> QED
  BY <1>1, <1>2

\* send() takes what follows the bytes it has taken.
LEMMA SendKeeps ==
  ASSUME Whole, Send
  PROVE  Whole'
<1>1. /\ UNCHANGED <<written, arrived, up, size_, taken, served>>
      /\ pc \in {"sendSize", "sendBody"} /\ up
  BY DEF Send
<1>2. PICK n \in (IF left = 0 THEN {0} ELSE 1 .. left) :
        /\ wire' = wire \o Positions(From + Length - left, n)
        /\ IF n = Length THEN SendReturns
           ELSE left' = left - n /\ sent' = n /\ UNCHANGED <<pc, buffer, offset>>
  BY DEF Send
<1>3. left \in Nat /\ n \in Nat /\ n <= left
  BY DEF Whole, TypeOK
<1>4. Length \in Nat \ {0} /\ From \in Nat /\ left <= Length
  BY <1>1 DEF Length, From, Whole, Given
<1>5. Len(wire) = From + Length - left /\ wire \in Seq(Nat)
      /\ \A i \in 1 .. Len(wire) : wire[i] = i
  BY <1>1 DEF Whole, Given, TypeOK
<1>6. From + Length - left \in Nat
  BY <1>3, <1>4
<1>7. /\ wire' \in Seq(Nat) /\ Len(wire') = Len(wire) + n
      /\ \A i \in 1 .. Len(wire') : wire'[i] = i
  <2> DEFINE new == Positions(Len(wire), n)
  <2>1. new \in Seq(Nat) /\ Len(new) = n /\ \A i \in 1 .. n : new[i] = Len(wire) + i
    <3>1. Len(wire) \in Nat
      BY <1>5
    <3> QED
      BY <1>3, <3>1, PositionsSeq
  <2>2. wire' = wire \o new
    BY <1>2, <1>5
  <2> HIDE DEF new
  <2>3. wire' \in Seq(Nat) /\ Len(wire') = Len(wire) + n
    BY <1>5, <2>1, <2>2, ConcatProperties
  <2>4. ASSUME NEW i \in 1 .. Len(wire') PROVE wire'[i] = i
    <3>1. CASE i <= Len(wire)
      <4>1. wire'[i] = wire[i] /\ i \in 1 .. Len(wire)
        BY <1>5, <2>1, <2>2, <2>3, <3>1, ConcatProperties
      <4> QED
        BY <1>5, <4>1
    <3>2. CASE ~(i <= Len(wire))
      <4>1. Len(wire) \in Nat
        BY <1>5
      <4>2. i \in Len(wire) + 1 .. Len(wire) + Len(new)
        BY <1>3, <2>1, <2>3, <3>2, <4>1
      <4>3. wire'[i] = new[i - Len(wire)]
        BY <1>5, <2>1, <2>2, <4>2, ConcatProperties
      <4>4. i - Len(wire) \in 1 .. n /\ Len(wire) + (i - Len(wire)) = i
        BY <1>3, <2>1, <4>1, <4>2
      <4> QED
        BY <2>1, <4>3, <4>4
    <3> QED
      BY <3>1, <3>2
  <2> QED
    BY <2>3, <2>4
<1>8. CASE n = Length
  <2>1. left = n
    BY <1>3, <1>4, <1>8
  <2>2. Len(wire') = From + Length
    BY <1>3, <1>4, <1>5, <1>7, <1>8, <2>1
  <2> QED
    BY <1>1, <1>2, <1>7, <1>8, <2>2, ReturnKeeps
<1>9. CASE n # Length
  <2>1. left' = left - n /\ sent' = n /\ UNCHANGED <<pc, buffer, offset>>
    BY <1>2, <1>9
  <2>2. left' \in Nat /\ left' <= Length /\ Len(wire') = From + Length - left'
    BY <1>3, <1>4, <1>5, <1>7, <2>1
  <2>3. TypeOK'
    BY <1>1, <1>3, <1>7, <2>1, <2>2 DEF Whole, TypeOK
  <2>4. Layout'
    BY <1>1, LayoutIdle DEF Whole, Layout
  <2>5. Cut'
    <3>1. At(Current)' = At(Current)
      BY <1>1 DEF At, Current, Total
    <3> QED
      BY <1>1, <2>1, <3>1 DEF Whole, Cut, Reading
  <2>6. Given'
    <3>1. Length' = Length /\ From' = From
      BY <2>1 DEF Length, From
    <3> QED
      BY <1>1, <1>7, <2>1, <2>2, <3>1 DEF Given
  <2> QED
    BY <2>3, <2>4, <2>5, <2>6 DEF Whole
<1> QED
  BY <1>8, <1>9

LEMMA SendFailsKeeps ==
  ASSUME Whole, SendFails
  PROVE  Whole'
<1>1. /\ UNCHANGED <<written, arrived, up, size_, taken, wire, served>>
      /\ pc \in {"sendSize", "sendBody"} /\ ~up /\ SendReturns
  BY DEF SendFails
<1>2. wire' \in Seq(Nat) /\ \A i \in 1 .. Len(wire') : wire'[i] = i
  BY <1>1 DEF Whole, TypeOK, Given
<1> QED
  BY <1>1, <1>2, ReturnKeeps

LEMMA WholeStep ==
  ASSUME Whole, [Next]_vars
  PROVE  Whole'
<1>1. ASSUME NEW n \in Size, Write(n) PROVE Whole'
  BY <1>1, WriteKeeps
<1>2. CASE Arrive \/ Break
  BY <1>2, ArriveKeeps, BreakKeeps
<1>3. CASE Worker
  BY <1>3, ReadKeeps, ReadFailsKeeps, SizeReadKeeps, BodyReadKeeps, ServeKeeps, SendKeeps,
     SendFailsKeeps DEF Worker
<1>4. CASE UNCHANGED vars
  <2>1. UNCHANGED <<written, arrived, up, pc, size_, taken, buffer, offset, left, sent, wire,
                    served>>
    BY <1>4 DEF vars, readVars
  <2>2. TypeOK'
    BY <2>1 DEF Whole, TypeOK
  <2>3. Layout' /\ Cut'
    BY <2>1, LayoutIdle, CutIdle DEF Whole, Layout
  <2>4. Given'
    BY <2>1 DEF Whole, Given, Length, From
  <2> QED
    BY <2>2, <2>3, <2>4 DEF Whole
<1> QED
  BY <1>1, <1>2, <1>3, <1>4 DEF Next

LEMMA WholeAlways == Spec => []Whole
<1>1. Whole /\ [Next]_vars => Whole'
  BY WholeStep
<1> QED
  BY <1>1, WholeInit, PTL DEF Spec

(***************************************************************************)
(* Every variable of the worker and of its connection keeps its type;      *)
(* recv() never returns more than has come.                                *)
(***************************************************************************)
THEOREM IOTypeCorrect == Spec => []TypeOK
<1>1. Whole => TypeOK
  BY DEF Whole
<1> QED
  BY <1>1, WholeAlways, PTL

(***************************************************************************)
(* However send() cuts a response, the client gets its bytes each once and *)
(* in order, and the worker goes on only when it has given all of them, or *)
(* the connection has failed.                                              *)
(***************************************************************************)
THEOREM ResponsesStayWhole == Spec => []ResponseWhole
<1>1. Whole => ResponseWhole
  BY DEF Whole, Given, ResponseWhole
<1> QED
  BY <1>1, WholeAlways, PTL

-----------------------------------------------------------------------------
\* The bodies of the requests written, which are what the channel carries.
LEMMA Bodies ==
  ASSUME NEW s \in Seq(Frame)
  PROVE  LET bodies == [i \in 1 .. Len(s) |-> Body(s[i])] IN
           /\ Len(bodies) = Len(s)
           /\ \A i \in 1 .. Len(s) : bodies[i] = Body(s[i])
<1> DEFINE bodies == [i \in 1 .. Len(s) |-> Body(s[i])]
<1>1. Len(s) \in Nat /\ bodies \in [1 .. Len(s) -> Seq(Nat)]
  BY FrameParts
<1>2. bodies \in Seq(Seq(Nat))
  BY <1>1
<1>3. Len(bodies) = Len(s)
  BY <1>1, <1>2, LenProperties
<1> QED
  BY <1>3

LEMMA ChannelStep ==
  ASSUME Whole, Whole', [Next]_vars
  PROVE  [Channel!Next]_Channel!vars
<1>1. written \in Seq(Frame) /\ written' \in Seq(Frame)
  BY DEF Whole, TypeOK
<1>2. ASSUME NEW n \in Size, Write(n) PROVE Channel!Send
  <2>1. Len(written') = Len(written) + 1 /\ \A i \in DOMAIN written : written'[i] = written[i]
    BY <1>2, WriteLayout DEF Whole
  <2>2. served' = served
    BY <1>2 DEF Write
  <2>3. DOMAIN written = 1 .. Len(written) /\ Len(written) \in Nat
    BY <1>1
  <2>4. /\ Len([i \in 1 .. Len(written) |-> Body(written[i])]) = Len(written)
        /\ Len([i \in 1 .. Len(written') |-> Body(written'[i])]) = Len(written')
    BY <1>1, Bodies
  <2>5. \A i \in 1 .. Len(written) :
          [j \in 1 .. Len(written') |-> Body(written'[j])][i]
            = [j \in 1 .. Len(written) |-> Body(written[j])][i]
    BY <2>1, <2>3
  <2> QED
    BY <2>1, <2>2, <2>4, <2>5 DEF Channel!Send
<1>3. CASE Serve
  <2>1. /\ written' = written /\ served' = Append(served, buffer)
        /\ Current \in DOMAIN written /\ buffer = Body(written[Current])
    BY <1>3 DEF Serve, Whole, Cut
  <2>2. Current \in 1 .. Len(written) /\ Len(served) < Len(written)
    BY <1>1, <2>1, Parts DEF Current, Whole
  <2>3. Len([i \in 1 .. Len(written) |-> Body(written[i])]) = Len(written)
    BY <1>1, Bodies
  <2>4. [i \in 1 .. Len(written) |-> Body(written[i])][Len(served) + 1] = buffer
    BY <2>1, <2>2 DEF Current
  <2>5. Channel!Receive
    BY <2>1, <2>2, <2>3, <2>4 DEF Channel!Receive
  <2> QED
    BY <2>5 DEF Channel!Next
<1>4. CASE UNCHANGED <<written, served>>
  BY <1>4 DEF Channel!vars
<1>5. CASE Arrive \/ Break
  BY <1>4, <1>5 DEF Arrive, Break
<1>6. CASE ReadMore \/ ReadFails \/ SizeRead \/ BodyRead \/ Send \/ SendFails
  BY <1>4, <1>6 DEF ReadMore, ReadFails, SizeRead, BodyRead, Send, SendFails
<1>7. CASE UNCHANGED vars
  BY <1>4, <1>7 DEF vars
<1> QED
  BY <1>2, <1>3, <1>5, <1>6, <1>7 DEF Next, Worker, Channel!Next

(***************************************************************************)
(* However recv() cuts what the client writes, the requests served are the *)
(* first of those written, whole and in order: a worker implements a       *)
(* channel of messages, which Write() sends and Serve receives.            *)
(***************************************************************************)
THEOREM IOImplementsChannel == Spec => ImplementsChannel
<1>1. Init => Channel!Init
  BY DEF Init, Channel!Init
<1>2. Whole /\ Whole' /\ [Next]_vars => [Channel!Next]_Channel!vars
  BY ChannelStep
<1> QED
  BY <1>1, <1>2, WholeAlways, PTL DEF Spec, ImplementsChannel, Channel!Spec
=============================================================================
