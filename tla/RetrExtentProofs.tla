-------------------------- MODULE RetrExtentProofs --------------------------
(***************************************************************************)
(* The download loop implements ReliableCopy, for every file size, buffer  *)
(* size and restart point.                                                 *)
(***************************************************************************)
EXTENDS RetrExtent, SequenceLemmas

USE RetrAssumption DEF args, file, result, Offsets

\* What buffer and wire contain: consecutive offsets, the buffer ending at the
\* descriptor, the wire starting at the restart point.
ContentInv ==
    /\ \A i \in 1..Len(buffer) : buffer[i] = fpos - Len(buffer) + i - 1
    /\ \A i \in 1..Len(wire) : wire[i] = start + i - 1

\* Where the loop is within the extent.
RangeInv ==
    /\ pc \in {"read", "send"} => start <= extent /\ fpos <= extent /\ buffer_size > 0
    /\ pc = "entry" => wire = << >> /\ fpos = start /\ buffer = << >>
    /\ pc = "read" => position = Len(buffer)
    /\ pc = "returned" /\ stage # "range" => start <= extent /\ fpos <= extent
    /\ pc = "returned" /\ stage = "range" => wire = << >>
    /\ pc = "returned" /\ stage = "complete" => fpos = extent /\ position = Len(buffer)

Inv == TypeOK /\ ExactProgress /\ ContentInv /\ RangeInv

\* The invariant holds when the loop is called.
LEMMA InitInv == Init => Inv
  BY EmptySeq DEF Init, Inv, TypeOK, Stages, ExactProgress, ContentInv, RangeInv

\* A successful read: the buffer is the run of bytes the descriptor moved over.
LEMMA ReadInv == Inv /\ ReadSome => Inv'
<1> SUFFICES ASSUME Inv, ReadSome PROVE Inv'
    OBVIOUS
<1> USE DEF Inv, TypeOK, Stages
<1>1. PICK n \in ReadResults :
        /\ ~BadRead(n)
        /\ buffer' = [i \in 1..n |-> fpos - 1 + i]
        /\ fpos' = fpos + n
        /\ bytes_read' = bytes_read + n
        /\ remaining' = remaining - n
  BY DEF ReadSome
<1>2. pc = "read" /\ remaining > 0 /\ position' = 0 /\ pc' = "send"
      /\ UNCHANGED <<buffer_size, start, extent, size, bytes_sent, stage, code, net_errno, wire>>
  BY DEF ReadSome
<1>3. n \in 1..Requested /\ fpos + n <= size /\ Requested \in Nat
      /\ Requested <= remaining /\ Requested <= buffer_size
  BY <1>1 DEF ReadResults, BadRead, Requested
<1>4. buffer' \in Seq(0..MaxOffset) /\ Len(buffer') = n
  <2>1. \A i \in 1..n : (fpos - 1) + i \in 0..MaxOffset
    BY <1>3
  <2> QED
    BY <1>1, <1>3, <2>1, RunOfNumbers
<1>5. remaining = extent - fpos /\ start <= extent /\ position = Len(buffer)
      /\ bytes_read = fpos - start /\ bytes_sent = Len(wire)
      /\ bytes_read - bytes_sent = Len(buffer) - position
  BY <1>2 DEF ExactProgress, RangeInv
<1>6. TypeOK'
  <2>1. /\ remaining' \in 0..MaxOffset /\ fpos' \in 0..MaxOffset
        /\ bytes_read' \in 0..MaxOffset
    <3>1. /\ remaining \in 0..MaxOffset /\ fpos \in 0..MaxOffset /\ size \in 0..MaxOffset
          /\ start \in 0..MaxOffset /\ bytes_read \in 0..MaxOffset /\ MaxOffset \in Nat
      OBVIOUS
    <3>2. n \in Nat /\ n <= remaining /\ fpos + n <= size
      BY ONLY <1>3, <3>1
    <3>3. remaining' = remaining - n /\ fpos' = fpos + n /\ bytes_read' = bytes_read + n
      BY ONLY <1>1
    <3>4. bytes_read = fpos - start
      BY ONLY <1>5
    <3> QED
      BY ONLY <3>1, <3>2, <3>3, <3>4
  <2>2. Len(buffer') <= buffer_size' /\ position' \in 0..Len(buffer')
    BY <1>2, <1>3, <1>4
  <2> QED
    BY <1>2, <1>4, <2>1, <2>2
<1>7. ExactProgress'
  BY <1>1, <1>2, <1>3, <1>4, <1>5, LenProperties DEF ExactProgress
<1>8. ContentInv'
  BY <1>1, <1>2, <1>3, <1>4 DEF ContentInv
<1>9. RangeInv'
  <2>1. fpos \in Nat /\ extent \in Nat /\ remaining \in Nat
    OBVIOUS
  <2>2. fpos' <= extent
    BY ONLY <1>1, <1>3, <1>5, <2>1
  <2> QED
    BY <1>2, <1>3, <1>5, <2>2 DEF RangeInv
<1> QED
  BY <1>6, <1>7, <1>8, <1>9

\* One successful send appends the next k >= 1 bytes of the buffer to the wire.
Sent(k) ==
    /\ position + k <= Len(buffer)
    /\ position' = position + k /\ bytes_sent' = bytes_sent + k
    /\ wire' \in Seq(Offsets)
    /\ Len(wire') = Len(wire) + k
    /\ \A i \in 1..Len(wire) : wire'[i] = wire[i]
    /\ \A i \in 1..k : wire'[Len(wire) + i] = buffer[position + i]

\* SendSome is such a send.
LEMMA SendAppends == Inv /\ SendSome => \E k \in Nat \ {0} : Sent(k)
<1> SUFFICES ASSUME Inv, SendSome PROVE \E k \in Nat \ {0} : Sent(k)
    OBVIOUS
<1> USE DEF Inv, TypeOK
<1>1. PICK k \in SendResults :
        /\ ~BadSend(k)
        /\ wire' = wire \o SubSeq(buffer, position + 1, position + k)
        /\ position' = position + k
        /\ bytes_sent' = bytes_sent + k
  BY DEF SendSome
<1>2. wire \in Seq(Offsets) /\ buffer \in Seq(Offsets)
  OBVIOUS
<1>3. Len(buffer) \in Nat /\ Len(wire) \in Nat
  BY LenProperties
<1>4. k \in Nat \ {0} /\ position \in Nat /\ position + k <= Len(buffer)
  BY <1>1, <1>3 DEF SendResults, BadSend, Pending
<1> DEFINE m == position + 1
           n == position + k
<1>5. m \in Nat /\ n \in Nat /\ 1 <= m /\ m <= n /\ n <= Len(buffer) /\ n - m + 1 = k
  BY ONLY <1>4, <1>3
<1>6. wire' = wire \o SubSeq(buffer, m, n)
  BY <1>1
<1>7. ASSUME NEW i \in 1..k PROVE position + i \in m..n /\ (position + i) - m + 1 = i
  BY ONLY <1>4, <1>7
<1> HIDE DEF m, n, Offsets
<1>8. Longer(Offsets, wire', wire, buffer, m, n)
  <2>1. SliceAppended(Offsets, wire', wire, buffer, m, n)
    BY ONLY <1>2, <1>5, <1>6 DEF SliceAppended
  <2> QED
    BY ONLY <2>1, AppendSlice
<1>9. Sent(k)
  BY ONLY <1>1, <1>4, <1>5, <1>7, <1>8 DEF Sent, Longer
<1> QED
  BY <1>4, <1>9

\* A successful send: what it adds to the wire continues what is there.
LEMMA SendInv == Inv /\ SendSome => Inv'
<1> SUFFICES ASSUME Inv, SendSome PROVE Inv'
    OBVIOUS
<1>1. PICK k \in Nat \ {0} : Sent(k)
  BY SendAppends
<1> USE DEF Inv, TypeOK, Stages
<1>2. pc = "send" /\ pc' = "send"
      /\ UNCHANGED <<buffer_size, start, extent, size, fpos, remaining, buffer, bytes_read,
                     stage, code, net_errno>>
  BY DEF SendSome
<1>3. Len(buffer) \in Nat /\ Len(wire) \in Nat
  BY LenProperties
<1>4. k \in Nat \ {0} /\ position \in Nat /\ position + k <= Len(buffer)
      /\ position' = position + k /\ bytes_sent' = bytes_sent + k
  BY <1>1 DEF Sent
<1>6. /\ wire' \in Seq(Offsets)
      /\ Len(wire') = Len(wire) + k
      /\ \A i \in 1..Len(wire) : wire'[i] = wire[i]
      /\ \A i \in 1..k : wire'[Len(wire) + i] = buffer[position + i]
  BY <1>1 DEF Sent
<1>8. bytes_read = fpos - start /\ bytes_sent = Len(wire)
      /\ bytes_read - bytes_sent = Len(buffer) - position
      /\ remaining = extent - fpos /\ start <= extent /\ fpos <= extent
  BY <1>2 DEF ExactProgress, RangeInv
<1>9. TypeOK'
  BY <1>2, <1>3, <1>4, <1>6, <1>8
<1>10. ExactProgress'
  BY <1>2, <1>3, <1>4, <1>6, <1>8 DEF ExactProgress
<1>11. ContentInv'
  <2>1. ASSUME NEW i \in 1..Len(wire') PROVE wire'[i] = start + i - 1
    <3>1. CASE i \in 1..Len(wire)
      BY <1>6, <3>1 DEF ContentInv
    <3>2. CASE i \notin 1..Len(wire)
      <4>1. PICK j \in 1..k : i = Len(wire) + j
        <5>1. i - Len(wire) \in 1..k /\ i = Len(wire) + (i - Len(wire))
          BY <1>3, <1>4, <1>6, <3>2
        <5> QED
          BY <5>1
      <4>2. wire'[i] = buffer[position + j] /\ position + j \in 1..Len(buffer)
        BY ONLY <1>3, <1>4, <1>6, <4>1
      <4>3. buffer[position + j] = fpos - Len(buffer) + (position + j) - 1
        BY <4>2 DEF ContentInv
      <4>4. fpos \in Int /\ start \in Int /\ bytes_read \in Int
        OBVIOUS
      <4>5. fpos - Len(buffer) + (position + j) - 1 = start + (Len(wire) + j) - 1
        <5>1. fpos - start - Len(wire) = Len(buffer) - position
          BY ONLY <1>8
        <5>2. j \in Int
          OBVIOUS
        <5> QED
          BY ONLY <1>3, <1>4, <4>4, <5>1, <5>2
      <4> QED
        BY ONLY <4>1, <4>2, <4>3, <4>5
    <3> QED
      BY <3>1, <3>2
  <2> QED
    BY <1>2, <2>1 DEF ContentInv
<1>12. RangeInv'
  BY <1>2, <1>4, <1>6, <1>8 DEF RangeInv
<1> QED
  BY <1>9, <1>10, <1>11, <1>12

\* Every step of the loop and of the file keeps the invariant.
LEMMA NextInv == Inv /\ [Next]_vars => Inv'
<1> SUFFICES ASSUME Inv, [Next]_vars PROVE Inv'
    OBVIOUS
<1>0. Len(buffer) \in Nat /\ Len(wire) \in Nat
  BY LenProperties DEF Inv, TypeOK
<1> USE DEF Inv, TypeOK, Stages, ExactProgress, ContentInv, RangeInv
<1>1. CASE Enter
  BY <1>0, <1>1, EmptySeq DEF Enter, BadArgs, Return
<1>2. CASE ReadFails
  <2>1. PICK r \in ReadResults :
           BadRead(r) /\ Return(IF r = 0 THEN "early-eof" ELSE "read", r, 0)
    BY <1>2 DEF ReadFails
  <2>2. Requested \in Nat
    BY DEF Requested
  <2>3. r \in Int
    BY <2>1, <2>2 DEF ReadResults
  <2>4. /\ pc = "read" /\ pc' = "returned" /\ stage' \in {"early-eof", "read"}
        /\ code' = r /\ net_errno' = 0
        /\ UNCHANGED <<buffer_size, start, extent, size, fpos, remaining, buffer, position,
                       bytes_read, bytes_sent, wire>>
    BY <1>2, <2>1 DEF ReadFails, Return
  <2>5. bytes_sent = bytes_read
    <3>1. bytes_read \in Nat /\ bytes_sent \in Nat
      OBVIOUS
    <3>2. position = Len(buffer) /\ bytes_read - bytes_sent = Len(buffer) - position
      BY <2>4
    <3> QED
      BY ONLY <1>0, <3>1, <3>2
  <2>6. TypeOK'
    BY <2>3, <2>4
  <2>7. ExactProgress'
    BY <2>4, <2>5
  <2>8. ContentInv' /\ RangeInv'
    BY <2>4
  <2> QED
    BY ONLY <2>6, <2>7, <2>8 DEF Inv
<1>3. CASE ReadSome
  BY <1>3, ReadInv
<1>4. CASE ReadDone
  BY <1>0, <1>4 DEF ReadDone, Return
<1>5. CASE SendFails
  BY <1>0, <1>5 DEF SendFails, SendResults, BadSend, Pending, Return
<1>6. CASE SendSome
  BY <1>6, SendInv
<1>7. CASE SendDone
  BY <1>0, <1>7 DEF SendDone, Pending
<1>8. CASE Resize
  BY <1>8 DEF Resize
<1>9. CASE UNCHANGED vars
  BY <1>9 DEF vars
<1> QED
  BY <1>1, <1>2, <1>3, <1>4, <1>5, <1>6, <1>7, <1>8, <1>9 DEF Next, Loop

\* The invariant behind the results below holds for every file size, buffer
\* size and split of reads and sends.
THEOREM Invariance == Spec => []Inv
<1>1. Init => Inv
  BY InitInv
<1>2. Inv /\ [Next]_vars => Inv'
  BY NextInv
<1> QED
  BY <1>1, <1>2, PTL DEF Spec

\* The counters reported in a 426 reply are exact (README RETR_ERRORS).
THEOREM ProgressIsExact == Spec => []ExactProgress
<1>1. Inv => ExactProgress
  BY DEF Inv
<1> QED
  BY <1>1, Invariance, PTL

\* The loop's variables stay in their ranges, positions within the buffer.
THEOREM TypeCorrect == Spec => []TypeOK
<1>1. Inv => TypeOK
  BY DEF Inv
<1> QED
  BY <1>1, Invariance, PTL

\* early-eof is reported only of a file that ends before the extent: the read
\* that returns 0 is made with bytes remaining, and nothing moves after it.
THEOREM EarlyEofIsReal == Spec => []EarlyEofIsTruncation
<1>1. Init => EarlyEofIsTruncation
  BY DEF Init, EarlyEofIsTruncation
<1>2. Inv /\ EarlyEofIsTruncation /\ [Next]_vars => EarlyEofIsTruncation'
  <2> SUFFICES ASSUME Inv, EarlyEofIsTruncation, [Next]_vars PROVE EarlyEofIsTruncation'
      OBVIOUS
  <2>1. CASE ReadFails
    <3>1. remaining = extent - fpos /\ remaining > 0 /\ Requested \in Nat
      BY <2>1 DEF ReadFails, Inv, TypeOK, ExactProgress, Requested
    <3>2. PICK n \in ReadResults : BadRead(n) /\ Return(IF n = 0 THEN "early-eof" ELSE "read", n, 0)
      BY <2>1 DEF ReadFails
    <3>3. n = 0 => size <= fpos
      BY <3>1, <3>2 DEF ReadResults, Inv, TypeOK
    <3>4. UNCHANGED <<size, fpos, extent>> /\ (stage' = "early-eof" => n = 0)
      BY <2>1, <3>2 DEF ReadFails, Return
    <3> QED
      BY <3>1, <3>3, <3>4 DEF EarlyEofIsTruncation, Inv, TypeOK
  <2>2. CASE Enter
    BY <2>2 DEF Enter, Return, EarlyEofIsTruncation
  <2>3. CASE ReadSome
    BY <2>3 DEF ReadSome, EarlyEofIsTruncation
  <2>4. CASE ReadDone
    BY <2>4 DEF ReadDone, Return, EarlyEofIsTruncation
  <2>5. CASE SendFails
    BY <2>5 DEF SendFails, Return, EarlyEofIsTruncation
  <2>6. CASE SendSome
    BY <2>6 DEF SendSome, EarlyEofIsTruncation
  <2>7. CASE SendDone
    BY <2>7 DEF SendDone, EarlyEofIsTruncation
  <2>8. CASE Resize
    BY <2>8 DEF Resize, EarlyEofIsTruncation
  <2>9. CASE UNCHANGED vars
    BY <2>9 DEF vars, EarlyEofIsTruncation
  <2> QED
    BY <2>1, <2>2, <2>3, <2>4, <2>5, <2>6, <2>7, <2>8, <2>9 DEF Next, Loop
<1> QED
  BY <1>1, <1>2, Invariance, PTL DEF Spec

\* The bytes of the extent, in order.
Extent == [i \in 1..(IF start <= extent THEN extent - start ELSE 0) |-> start - 1 + i]

\* The extent is a sequence of offsets, of the length the loop computes.
LEMMA ExtentIsSequence == TypeOK => Extent \in Seq(Offsets)
                                    /\ Len(Extent) = IF start <= extent THEN extent - start ELSE 0
<1> SUFFICES ASSUME TypeOK PROVE Extent \in Seq(Offsets)
                       /\ Len(Extent) = IF start <= extent THEN extent - start ELSE 0
    OBVIOUS
<1> DEFINE n == IF start <= extent THEN extent - start ELSE 0
           a == start - 1
<1>1. a \in Int /\ n \in Nat /\ \A i \in 1..n : a + i \in Offsets
  BY DEF TypeOK
<1>2. Extent = [i \in 1..n |-> a + i]
  BY DEF Extent
<1> HIDE DEF n, a, Offsets
<1>3. [i \in 1..n |-> a + i] \in Seq(Offsets) /\ Len([i \in 1..n |-> a + i]) = n
  BY ONLY <1>1, RunOfNumbers
<1> QED
  BY <1>2, <1>3 DEF n

\* What is on the wire is always a prefix of the extent, and all of it once the
\* loop has returned "complete".
WireOK == /\ Copy!Prefix(wire, Extent)
          /\ pc = "returned" /\ stage = "complete" => wire = Extent

\* The invariant gives the prefix property in every state.
LEMMA WireIsPrefix == Inv => WireOK
<1> SUFFICES ASSUME Inv PROVE WireOK
    OBVIOUS
<1> USE DEF Inv
<1>1. Len(wire) \in Nat /\ Len(buffer) \in Nat /\ wire \in [1..Len(wire) -> Offsets]
  <2>1. wire \in Seq(Offsets) /\ buffer \in Seq(Offsets)
    BY DEF TypeOK
  <2> HIDE DEF Offsets
  <2> QED
    BY <2>1, LenProperties
<1>2. Extent \in Seq(Offsets) /\ Len(Extent) = IF start <= extent THEN extent - start ELSE 0
  BY ExtentIsSequence
<1>3. Len(wire) <= Len(Extent)
  <2>1. CASE wire = << >>
    BY <1>2, <2>1 DEF TypeOK
  <2>2. CASE wire # << >>
    <3>1. start <= extent /\ fpos <= extent
      BY <2>2 DEF TypeOK, RangeInv
    <3>2. Len(wire) <= fpos - start
      BY <1>1 DEF TypeOK, ExactProgress
    <3> QED
      BY <1>1, <1>2, <3>1, <3>2 DEF TypeOK
  <2> QED
    BY <2>1, <2>2
<1>4. \A i \in 1..Len(wire) : wire[i] = Extent[i]
  BY <1>1, <1>2, <1>3 DEF TypeOK, ContentInv, Extent
<1>5. ASSUME pc = "returned", stage = "complete" PROVE wire = Extent
  <2>1. start <= extent /\ fpos = extent /\ position = Len(buffer)
    BY <1>5 DEF RangeInv
  <2>2. Len(wire) = extent - start
    BY <1>1, <2>1 DEF TypeOK, ExactProgress
  <2> QED
    BY <1>1, <1>4, <2>1, <2>2 DEF Extent
<1> QED
  BY <1>3, <1>4, <1>5 DEF Copy!Prefix, WireOK

\* The same in the next state.
LEMMA WireIsPrefixNext == Inv' => WireOK'
  BY WireIsPrefix, PTL

\* A completed download is exactly the extent (README RETR_EXTENT).
THEOREM DownloadIsExact == Spec => []ExactExtent
<1>1. Inv => ExactExtent
  BY WireIsPrefix DEF Inv, TypeOK, RangeInv, ExactExtent, Extent, WireOK
<1> QED
  BY <1>1, Invariance, PTL

\* The loop starts where ReliableCopy does.
LEMMA InitRefines == Init => Copy!CopyInit
<1> SUFFICES ASSUME Init PROVE Copy!CopyInit
    OBVIOUS
<1>1. Extent \in Seq(Offsets)
  BY InitInv, ExtentIsSequence DEF Inv
<1> QED
  BY <1>1 DEF Init, Copy!CopyInit, Extent

\* Every step of the loop is a step of ReliableCopy or leaves it alone.
LEMMA StepRefines == Inv /\ Inv' /\ [Next]_vars => [Copy!CopyNext]_(Copy!copyVars)
<1> SUFFICES ASSUME Inv, Inv', [Next]_vars PROVE [Copy!CopyNext]_(Copy!copyVars)
    OBVIOUS
<1> USE DEF Copy!CopyNext, Copy!copyVars
<1>1. CASE Enter
  BY <1>1 DEF Enter, BadArgs, Return, Copy!Fail
<1>2. CASE ReadFails
  BY <1>2 DEF ReadFails, ReadResults, BadRead, Return, Copy!Fail
<1>3. CASE ReadSome
  BY <1>3 DEF ReadSome
<1>4. CASE ReadDone
  <2>1. wire' = Extent'
    BY <1>4, WireIsPrefixNext DEF ReadDone, Return, WireOK
  <2> QED
    BY <1>4, <2>1 DEF ReadDone, Return, Copy!Complete, Extent
<1>5. CASE SendFails
  BY <1>5 DEF SendFails, Return, Copy!Fail
<1>6. CASE SendSome
  <2>1. Copy!Prefix(wire', Extent')
    BY WireIsPrefixNext DEF WireOK
  <2>2. PICK k \in Nat \ {0} : Sent(k)
    BY <1>6, SendAppends
  <2>3. Len(wire) \in Nat
    BY LenProperties DEF Inv, TypeOK
  <2>4. wire' \in Seq(Offsets) /\ Len(wire') > Len(wire) /\ Copy!Prefix(wire, wire')
    BY <2>2, <2>3 DEF Sent, Copy!Prefix
  <2>5. pc = "send" /\ UNCHANGED <<start, extent, pc, stage>>
    BY <1>6 DEF SendSome
  <2> HIDE DEF Offsets
  <2> QED
    BY <2>1, <2>4, <2>5 DEF Copy!Deliver, Extent
<1>7. CASE SendDone
  BY <1>7 DEF SendDone
<1>8. CASE Resize
  BY <1>8 DEF Resize
<1>9. CASE UNCHANGED vars
  BY <1>9 DEF vars
<1> QED
  BY <1>1, <1>2, <1>3, <1>4, <1>5, <1>6, <1>7, <1>8, <1>9 DEF Next, Loop

\* The download loop implements ReliableCopy.
THEOREM Refinement == Spec => RefinesCopy
<1>1. Init => Copy!CopyInit
  BY InitRefines
<1>2. Inv /\ Inv' /\ [Next]_vars => [Copy!CopyNext]_(Copy!copyVars)
  BY StepRefines
<1> QED
  BY <1>1, <1>2, Invariance, PTL DEF Spec, RefinesCopy, Copy!CopySpec
=============================================================================
