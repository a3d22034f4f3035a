------------------------- MODULE StoreStreamProofs -------------------------
(***************************************************************************)
(* The upload loop implements ReliableCopy, for every stream, buffer size  *)
(* and split of receives and writes.                                       *)
(***************************************************************************)
EXTENDS StoreStream, SequenceLemmas

USE StoreAssumption DEF peer, result, Counts, Indices

\* What buffer and file contain: consecutive bytes of the stream, the buffer
\* ending at the last byte received, the file starting at the first.
ContentInv ==
    /\ \A i \in 1..Len(buffer) : buffer[i] = consumed - Len(buffer) + i
    /\ \A i \in 1..Len(file) : file[i] = i

\* Only a stream that ended and was received to its end is reported complete.
EndInv ==
    /\ pc = "entry" => consumed = 0 /\ buffer = << >> /\ file = << >>
    /\ pc = "receive" => position = Len(buffer)
    /\ pc = "returned" /\ stage = "complete" =>
          closed /\ consumed = produced /\ position = Len(buffer)

Inv == TypeOK /\ ExactProgress /\ ContentInv /\ EndInv

\* The invariant holds when the loop is called.
LEMMA InitInv == Init => Inv
<1> SUFFICES ASSUME Init PROVE Inv
    OBVIOUS
<1>1. Len(<< >>) = 0 /\ << >> \in Seq(Indices)
  BY EmptySeq
<1>2. TypeOK
  <2>1. closed \in BOOLEAN
    BY Zenon DEF Init
  <2> QED
    BY <1>1, <2>1 DEF Init, TypeOK, Stages
<1>3. ExactProgress /\ ContentInv /\ EndInv
  BY <1>1 DEF Init, ExactProgress, ContentInv, EndInv
<1> QED
  BY <1>2, <1>3 DEF Inv

\* A successful receive: the buffer is the next run of bytes of the stream.
LEMMA ReceiveInv == Inv /\ ReceiveSome => Inv'
<1> SUFFICES ASSUME Inv, ReceiveSome PROVE Inv'
    OBVIOUS
<1> USE DEF Inv, TypeOK, Stages
<1>1. PICK n \in ReceiveResults :
        /\ n # 0 /\ ~BadReceive(n)
        /\ buffer' = [i \in 1..n |-> consumed + i]
        /\ consumed' = consumed + n
        /\ bytes_received' = bytes_received + n
  BY DEF ReceiveSome
<1>2. pc = "receive" /\ position' = 0 /\ pc' = "write"
      /\ UNCHANGED <<buffer_size, produced, closed, bytes_written, stage, code, net_errno, file>>
  BY DEF ReceiveSome
<1>3. n \in 1..buffer_size /\ consumed + n <= produced
  BY <1>1 DEF ReceiveResults, BadReceive
<1>4. buffer' \in Seq(Indices) /\ Len(buffer') = n
  <2>1. \A i \in 1..n : consumed + i \in Indices
    BY <1>3
  <2>2. consumed \in Int /\ n \in Nat
    BY <1>3
  <2> HIDE DEF Indices
  <2> QED
    BY ONLY <1>1, <2>1, <2>2, RunOfNumbers
<1>5. position = Len(buffer) /\ bytes_received = consumed /\ bytes_written = Len(file)
      /\ bytes_received = bytes_written
  BY <1>2 DEF ExactProgress, EndInv
<1>6. TypeOK'
  <2>1. consumed' \in 0..produced' /\ bytes_received' \in Counts
    BY <1>1, <1>2, <1>3, <1>5
  <2>2. Len(buffer') <= buffer_size' /\ position' \in 0..Len(buffer')
    BY <1>2, <1>3, <1>4
  <2> QED
    BY <1>2, <1>4, <2>1, <2>2
<1>7. ExactProgress'
  BY <1>1, <1>2, <1>3, <1>4, <1>5, LenProperties DEF ExactProgress
<1>8. ContentInv'
  BY <1>1, <1>2, <1>3, <1>4 DEF ContentInv
<1>9. EndInv'
  BY <1>2 DEF EndInv
<1> QED
  BY <1>6, <1>7, <1>8, <1>9

\* One successful write appends the next k >= 1 bytes of the buffer to the file.
Written(k) ==
    /\ position + k <= Len(buffer)
    /\ position' = position + k /\ bytes_written' = bytes_written + k
    /\ file' \in Seq(Indices)
    /\ Len(file') = Len(file) + k
    /\ \A i \in 1..Len(file) : file'[i] = file[i]
    /\ \A i \in 1..k : file'[Len(file) + i] = buffer[position + i]

\* WriteSome is such a write.
LEMMA WriteAppends == Inv /\ WriteSome => \E k \in Nat \ {0} : Written(k)
<1> SUFFICES ASSUME Inv, WriteSome PROVE \E k \in Nat \ {0} : Written(k)
    OBVIOUS
<1> USE DEF Inv, TypeOK
<1>1. PICK k \in WriteResults :
        /\ ~BadWrite(k)
        /\ file' = file \o SubSeq(buffer, position + 1, position + k)
        /\ position' = position + k
        /\ bytes_written' = bytes_written + k
  BY DEF WriteSome
<1>2. file \in Seq(Indices) /\ buffer \in Seq(Indices)
  OBVIOUS
<1>3. Len(buffer) \in Nat /\ Len(file) \in Nat
  BY LenProperties
<1>4. k \in Nat \ {0} /\ position \in Nat /\ position + k <= Len(buffer)
  BY <1>1, <1>3 DEF WriteResults, BadWrite, Pending
<1> DEFINE m == position + 1
           n == position + k
<1>5. m \in Nat /\ n \in Nat /\ 1 <= m /\ m <= n /\ n <= Len(buffer) /\ n - m + 1 = k
  BY ONLY <1>4, <1>3
<1>6. file' = file \o SubSeq(buffer, m, n)
  BY <1>1
<1>7. ASSUME NEW i \in 1..k PROVE position + i \in m..n /\ (position + i) - m + 1 = i
  BY ONLY <1>4, <1>7
<1> HIDE DEF m, n, Indices
<1>8. Longer(Indices, file', file, buffer, m, n)
  <2>1. SliceAppended(Indices, file', file, buffer, m, n)
    BY ONLY <1>2, <1>5, <1>6 DEF SliceAppended
  <2> QED
    BY ONLY <2>1, AppendSlice
<1>9. Written(k)
  BY ONLY <1>1, <1>4, <1>5, <1>7, <1>8 DEF Written, Longer
<1> QED
  BY <1>4, <1>9

\* A successful write: what it adds to the file continues what is there.
LEMMA WriteInv == Inv /\ WriteSome => Inv'
<1> SUFFICES ASSUME Inv, WriteSome PROVE Inv'
    OBVIOUS
<1>1. PICK k \in Nat \ {0} : Written(k)
  BY WriteAppends
<1> USE DEF Inv, TypeOK, Stages
<1>2. pc = "write" /\ pc' = "write"
      /\ UNCHANGED <<buffer_size, produced, closed, consumed, buffer, bytes_received,
                     stage, code, net_errno>>
  BY DEF WriteSome
<1>3. Len(buffer) \in Nat /\ Len(file) \in Nat
  BY LenProperties
<1>4. k \in Nat \ {0} /\ position \in Nat /\ position + k <= Len(buffer)
      /\ position' = position + k /\ bytes_written' = bytes_written + k
  BY <1>1 DEF Written
<1>5. /\ file' \in Seq(Indices)
      /\ Len(file') = Len(file) + k
      /\ \A i \in 1..Len(file) : file'[i] = file[i]
      /\ \A i \in 1..k : file'[Len(file) + i] = buffer[position + i]
  BY <1>1 DEF Written
<1>6. bytes_received = consumed /\ bytes_written = Len(file)
      /\ bytes_received - bytes_written = Len(buffer) - position
  BY <1>2 DEF ExactProgress
<1>7. TypeOK'
  BY <1>2, <1>3, <1>4, <1>5, <1>6
<1>8. ExactProgress'
  BY <1>2, <1>3, <1>4, <1>5, <1>6 DEF ExactProgress
<1>9. ContentInv'
  <2>1. ASSUME NEW i \in 1..Len(file') PROVE file'[i] = i
    <3>1. CASE i \in 1..Len(file)
      BY <1>5, <3>1 DEF ContentInv
    <3>2. CASE i \notin 1..Len(file)
      <4>1. PICK j \in 1..k : i = Len(file) + j
        <5>1. i - Len(file) \in 1..k /\ i = Len(file) + (i - Len(file))
          BY <1>3, <1>4, <1>5, <3>2
        <5> QED
          BY <5>1
      <4>2. file'[i] = buffer[position + j] /\ position + j \in 1..Len(buffer)
        BY ONLY <1>3, <1>4, <1>5, <4>1
      <4>3. buffer[position + j] = consumed - Len(buffer) + (position + j)
        BY <4>2 DEF ContentInv
      <4>4. consumed \in Int /\ j \in Int
        OBVIOUS
      <4>5. consumed - Len(buffer) + (position + j) = Len(file) + j
        BY ONLY <1>3, <1>4, <1>6, <4>4
      <4> QED
        BY ONLY <4>1, <4>2, <4>3, <4>5
    <3> QED
      BY <3>1, <3>2
  <2> QED
    BY <1>2, <2>1 DEF ContentInv
<1>10. EndInv'
  BY <1>2 DEF EndInv
<1> QED
  BY <1>7, <1>8, <1>9, <1>10

\* Every step of the loop and of the peer keeps the invariant.
LEMMA NextInv == Inv /\ [Next]_vars => Inv'
<1> SUFFICES ASSUME Inv, [Next]_vars PROVE Inv'
    OBVIOUS
<1>0. Len(buffer) \in Nat /\ Len(file) \in Nat
  BY LenProperties DEF Inv, TypeOK
<1> USE DEF Inv, TypeOK, Stages, ExactProgress, ContentInv, EndInv
<1>1. CASE Enter
  BY <1>0, <1>1, EmptySeq DEF Enter, BadArgs, Return
<1>2. CASE ReceiveEnd
  BY <1>0, <1>2 DEF ReceiveEnd, ReceiveResults, Return
<1>3. CASE ReceiveFails
  BY <1>0, <1>3 DEF ReceiveFails, ReceiveResults, BadReceive, Return
<1>4. CASE ReceiveSome
  BY <1>4, ReceiveInv
<1>5. CASE WriteFails
  BY <1>0, <1>5 DEF WriteFails, WriteResults, BadWrite, Pending, Return
<1>6. CASE WriteSome
  BY <1>6, WriteInv
<1>7. CASE WriteDone
  BY <1>0, <1>7 DEF WriteDone, Pending
<1>8. CASE PeerSends
  <2>1. UNCHANGED <<buffer_size, consumed, pc, buffer, position, bytes_received, bytes_written,
                    stage, code, net_errno, file>> /\ pc # "returned"
    BY <1>8 DEF PeerSends
  <2>2. produced' \in Counts /\ produced <= produced'
    BY <1>8 DEF PeerSends
  <2>3. closed' \in BOOLEAN
    BY <1>8, Zenon DEF PeerSends
  <2> QED
    BY <2>1, <2>2, <2>3
<1>9. CASE UNCHANGED vars
  BY <1>9 DEF vars
<1> QED
  BY <1>1, <1>2, <1>3, <1>4, <1>5, <1>6, <1>7, <1>8, <1>9 DEF Next, Loop

\* The invariant behind the results below holds for every stream, buffer size
\* and split of receives and writes.
THEOREM Invariance == Spec => []Inv
<1>1. Init => Inv
  BY InitInv
<1>2. Inv /\ [Next]_vars => Inv'
  BY NextInv
<1> QED
  BY <1>1, <1>2, PTL DEF Spec

\* The counters reported in a 426 reply are exact (README STOR_SAFE).
THEOREM ProgressIsExact == Spec => []ExactProgress
<1>1. Inv => ExactProgress
  BY DEF Inv
<1> QED
  BY <1>1, Invariance, PTL

-----------------------------------------------------------------------------
\* The bytes the peer has sent, in order.
Stream == [i \in 1..produced |-> i]

\* The peer's stream is a sequence of its bytes.
LEMMA StreamIsSequence == TypeOK => Stream \in Seq(Indices) /\ Len(Stream) = produced
<1> SUFFICES ASSUME TypeOK PROVE Stream \in Seq(Indices) /\ Len(Stream) = produced
    OBVIOUS
<1> DEFINE a == 0
<1>1. a \in Int /\ produced \in Nat /\ \A i \in 1..produced : a + i \in Indices
  BY DEF TypeOK
<1>2. Stream = [i \in 1..produced |-> a + i]
  BY DEF Stream
<1> HIDE DEF a, Indices
<1>3. [i \in 1..produced |-> a + i] \in Seq(Indices)
      /\ Len([i \in 1..produced |-> a + i]) = produced
  BY ONLY <1>1, RunOfNumbers
<1> QED
  BY <1>2, <1>3

\* The same in the next state.
LEMMA StreamIsSequenceNext == TypeOK' => (Stream \in Seq(Indices) /\ Len(Stream) = produced)'
  BY StreamIsSequence, PTL

\* The file is always a prefix of the stream, and all of a closed stream once
\* the loop has returned "complete".
FileOK == /\ Copy!Prefix(file, Stream)
          /\ pc = "returned" /\ stage = "complete" => closed /\ file = Stream

\* The invariant gives the prefix property in every state.
LEMMA FileIsPrefix == Inv => FileOK
<1> SUFFICES ASSUME Inv PROVE FileOK
    OBVIOUS
<1> USE DEF Inv
<1>1. Len(file) \in Nat /\ Len(buffer) \in Nat /\ file \in [1..Len(file) -> Indices]
  <2>1. file \in Seq(Indices) /\ buffer \in Seq(Indices)
    BY DEF TypeOK
  <2> HIDE DEF Indices
  <2> QED
    BY <2>1, LenProperties
<1>2. Len(Stream) = produced
  BY StreamIsSequence
<1>3. Len(file) <= produced
  BY <1>1 DEF TypeOK, ExactProgress
<1>4. \A i \in 1..Len(file) : file[i] = Stream[i]
  BY <1>1, <1>3 DEF TypeOK, ContentInv, Stream
<1>5. ASSUME pc = "returned", stage = "complete" PROVE closed /\ file = Stream
  <2>1. closed /\ consumed = produced /\ position = Len(buffer)
    BY <1>5 DEF EndInv
  <2>2. Len(file) = produced
    BY <1>1, <2>1 DEF TypeOK, ExactProgress
  <2> QED
    BY <1>1, <1>4, <2>1, <2>2 DEF Stream
<1> QED
  BY <1>2, <1>3, <1>4, <1>5 DEF Copy!Prefix, FileOK

\* The same in the next state.
LEMMA FileIsPrefixNext == Inv' => FileOK'
  BY FileIsPrefix, PTL

\* The loop's variables stay in their ranges, positions within the buffer.
THEOREM TypeCorrect == Spec => []TypeOK
<1>1. Inv => TypeOK
  BY DEF Inv
<1> QED
  BY <1>1, Invariance, PTL

\* A completed upload is the whole stream (README STOR_SAFE).
THEOREM UploadIsWhole == Spec => []WholeUpload
<1>1. Inv => WholeUpload
  BY FileIsPrefix DEF WholeUpload, Stream, FileOK
<1> QED
  BY <1>1, Invariance, PTL

\* The loop starts where ReliableCopy does.
LEMMA InitRefines == Init => Copy!CopyInit
<1> SUFFICES ASSUME Init PROVE Copy!CopyInit
    OBVIOUS
<1>1. Stream \in Seq(Indices)
  BY InitInv, StreamIsSequence DEF Inv
<1> QED
  BY <1>1 DEF Init, Copy!CopyInit, Stream

\* Every step of the loop or the peer is a step of ReliableCopy or leaves it
\* alone.
LEMMA StepRefines == Inv /\ Inv' /\ [Next]_vars => [Copy!CopyNext]_(Copy!copyVars)
<1> SUFFICES ASSUME Inv, Inv', [Next]_vars PROVE [Copy!CopyNext]_(Copy!copyVars)
    OBVIOUS
<1> USE DEF Copy!CopyNext, Copy!copyVars
<1>1. CASE Enter
  BY <1>1 DEF Enter, BadArgs, Return, Copy!Fail
<1>2. CASE ReceiveEnd
  <2>1. closed' /\ file' = Stream'
    BY <1>2, FileIsPrefixNext DEF ReceiveEnd, Return, FileOK
  <2> QED
    BY <1>2, <2>1 DEF ReceiveEnd, Return, Copy!Complete, Stream
<1>3. CASE ReceiveFails
  BY <1>3 DEF ReceiveFails, Return, Copy!Fail
<1>4. CASE ReceiveSome
  BY <1>4 DEF ReceiveSome
<1>5. CASE WriteFails
  BY <1>5 DEF WriteFails, Return, Copy!Fail
<1>6. CASE WriteSome
  <2>1. Copy!Prefix(file', Stream')
    BY FileIsPrefixNext DEF FileOK
  <2>2. PICK k \in Nat \ {0} : Written(k)
    BY <1>6, WriteAppends
  <2>3. Len(file) \in Nat
    BY LenProperties DEF Inv, TypeOK
  <2>4. file' \in Seq(Indices) /\ Len(file') > Len(file) /\ Copy!Prefix(file, file')
    BY <2>2, <2>3 DEF Written, Copy!Prefix
  <2>5. pc = "write" /\ UNCHANGED <<produced, closed, pc, stage>>
    BY <1>6 DEF WriteSome
  <2> HIDE DEF Indices
  <2> QED
    BY <2>1, <2>4, <2>5 DEF Copy!Deliver, Stream
<1>7. CASE WriteDone
  BY <1>7 DEF WriteDone
<1>8. CASE PeerSends
  <2>1. CASE closed' = TRUE /\ UNCHANGED produced
    BY <1>8, <2>1 DEF PeerSends, Copy!Close
  <2>2. CASE produced' = produced + 1 /\ UNCHANGED closed
    <3>1. Stream' \in Seq(Indices) /\ Len(Stream') = produced' /\ Len(Stream) = produced
      BY StreamIsSequence, StreamIsSequenceNext DEF Inv
    <3>2. produced \in Nat /\ ~closed
      BY <1>8 DEF PeerSends, Inv, TypeOK
    <3>3. Copy!Prefix(Stream, Stream')
      BY <2>2, <3>1, <3>2 DEF Copy!Prefix, Stream
    <3>4. UNCHANGED <<file, pc, stage>>
      BY <1>8 DEF PeerSends
    <3> HIDE DEF Indices
    <3> QED
      BY <2>2, <3>1, <3>2, <3>3, <3>4 DEF Copy!Produce, Stream
  <2> QED
    BY <1>8, <2>1, <2>2 DEF PeerSends
<1>9. CASE UNCHANGED vars
  BY <1>9 DEF vars
<1> QED
  BY <1>1, <1>2, <1>3, <1>4, <1>5, <1>6, <1>7, <1>8, <1>9 DEF Next, Loop

\* The upload loop implements ReliableCopy.
THEOREM Refinement == Spec => RefinesCopy
<1>1. Init => Copy!CopyInit
  BY InitRefines
<1>2. Inv /\ Inv' /\ [Next]_vars => [Copy!CopyNext]_(Copy!copyVars)
  BY StepRefines
<1> QED
  BY <1>1, <1>2, Invariance, PTL DEF Spec, RefinesCopy, Copy!CopySpec
=============================================================================
