---------------------------- MODULE StoreStream ----------------------------
(***************************************************************************)
(* ftpvita_store_stream (libftpvita/ftpvita_store.h): the loop that writes *)
(* what the data peer sends until the peer closes.  A byte is identified   *)
(* by its index in the stream; file is what this upload appended.          *)
(***************************************************************************)
EXTENDS Integers, Sequences

CONSTANTS
    MaxBytes,      \* bound on the length of an upload
    BufferSizes,   \* values of buffer_size
    INT_MAX        \* limit the code puts on buffer_size

ASSUME StoreAssumption == /\ MaxBytes \in Nat
                          /\ BufferSizes \subseteq Nat
                          /\ INT_MAX \in Nat

VARIABLES
    buffer_size,                  \* argument
    produced, closed,             \* the peer: bytes sent so far, has it closed?
    consumed,                     \* bytes taken from the socket
    pc,                           \* "entry", "receive", "write" or "returned"
    buffer, position,             \* locals
    bytes_received, bytes_written, stage, code, net_errno,   \* result
    file                          \* indices of the bytes written, in order

peer   == <<produced, closed>>
result == <<stage, code, net_errno>>
vars   == <<buffer_size, peer, consumed, pc, buffer, position, bytes_received,
            bytes_written, result, file>>

Counts == 0..MaxBytes
Indices == 1..MaxBytes
Stages == {"complete", "range", "receive", "write"}

\* Counters, positions and the buffer stay in range: no receive or write of the
\* loop overruns the buffer.
TypeOK ==
    /\ buffer_size \in BufferSizes
    /\ produced \in Counts /\ closed \in BOOLEAN /\ consumed \in 0..produced
    /\ pc \in {"entry", "receive", "write", "returned"}
    /\ buffer \in Seq(Indices) /\ Len(buffer) <= buffer_size
    /\ position \in 0..Len(buffer)
    /\ bytes_received \in Counts /\ bytes_written \in Counts
    /\ stage \in Stages /\ code \in Int /\ net_errno \in {0, 1}
    /\ file \in Seq(Indices)

Init ==
    /\ buffer_size \in BufferSizes
    /\ produced = 0 /\ closed = FALSE /\ consumed = 0
    /\ pc = "entry"
    /\ buffer = << >> /\ position = 0
    /\ bytes_received = 0 /\ bytes_written = 0
    /\ stage = "complete" /\ code = 0 /\ net_errno = 0
    /\ file = << >>

Return(st, cd, err) ==
    /\ pc' = "returned"
    /\ stage' = st /\ code' = cd /\ net_errno' = err

BadArgs == buffer_size = 0 \/ buffer_size > INT_MAX

Enter ==
    /\ pc = "entry"
    /\ \/ BadArgs  /\ Return("range", 0, 0)
       \/ ~BadArgs /\ pc' = "receive" /\ UNCHANGED result
    /\ UNCHANGED <<buffer_size, peer, consumed, buffer, position, bytes_received,
                   bytes_written, file>>

\* sceNetRecv: an error or a timeout, 0 once the peer has closed and all is
\* read, some of the waiting bytes, or a count no correct one returns.
ReceiveResults == {-1, buffer_size + 1}
                  \cup (IF consumed = produced THEN IF closed THEN {0} ELSE {}
                        ELSE {n \in 1..buffer_size : consumed + n <= produced})

BadReceive(n) == n < 0 \/ n > buffer_size

ReceiveEndMutant ==
    /\ pc = "receive" /\ 0 \in ReceiveResults
    /\ pc' = "write" /\ buffer' = << >> /\ position' = 0
    /\ UNCHANGED <<buffer_size, peer, consumed, bytes_received, bytes_written, result, file>>

ReceiveEnd ==
    /\ pc = "receive" /\ 0 \in ReceiveResults
    /\ Return("complete", 0, 0)
    /\ UNCHANGED <<buffer_size, peer, consumed, buffer, position, bytes_received,
                   bytes_written, file>>

ReceiveFails ==
    /\ pc = "receive"
    /\ \E n \in ReceiveResults, err \in {0, 1} :
          BadReceive(n) /\ Return("receive", n, IF n < 0 THEN err ELSE 0)
    /\ UNCHANGED <<buffer_size, peer, consumed, buffer, position, bytes_received,
                   bytes_written, file>>

ReceiveSome ==
    /\ pc = "receive"
    /\ \E n \in ReceiveResults :
          /\ n # 0 /\ ~BadReceive(n)
          /\ buffer' = [i \in 1..n |-> consumed + i]
          /\ consumed' = consumed + n
          /\ bytes_received' = bytes_received + n
    /\ position' = 0
    /\ pc' = "write"
    /\ UNCHANGED <<buffer_size, peer, bytes_written, result, file>>

Pending == Len(buffer) - position
WriteResults == {-1, 0, Pending + 1} \cup 1..Pending
BadWrite(k) == k <= 0 \/ k > Pending

WriteFails ==
    /\ pc = "write" /\ Pending > 0
    /\ \E k \in WriteResults : BadWrite(k) /\ Return("write", k, 0)
    /\ UNCHANGED <<buffer_size, peer, consumed, buffer, position, bytes_received,
                   bytes_written, file>>

WriteSomeMutantShort ==
    /\ pc = "write" /\ Pending > 0
    /\ \E k \in WriteResults :
          /\ ~BadWrite(k)
          /\ file' = file \o SubSeq(buffer, position + 1, position + k)
          /\ bytes_written' = bytes_written + k
    /\ position' = Len(buffer)
    /\ UNCHANGED <<buffer_size, peer, consumed, pc, buffer, bytes_received, result>>

WriteSome ==
    /\ pc = "write" /\ Pending > 0
    /\ \E k \in WriteResults :
          /\ ~BadWrite(k)
          /\ file' = file \o SubSeq(buffer, position + 1, position + k)
          /\ position' = position + k
          /\ bytes_written' = bytes_written + k
    /\ UNCHANGED <<buffer_size, peer, consumed, pc, buffer, bytes_received, result>>

WriteDone ==
    /\ pc = "write" /\ Pending = 0
    /\ pc' = "receive"
    /\ UNCHANGED <<buffer_size, peer, consumed, buffer, position, bytes_received,
                   bytes_written, result, file>>

\* The peer sends bytes, then closes its side.
PeerSends ==
    /\ pc # "returned" /\ ~closed
    /\ \/ produced < MaxBytes /\ produced' = produced + 1 /\ UNCHANGED closed
       \/ closed' = TRUE /\ UNCHANGED produced
    /\ UNCHANGED <<buffer_size, consumed, pc, buffer, position, bytes_received,
                   bytes_written, result, file>>

Loop == Enter \/ ReceiveEnd \/ ReceiveFails \/ ReceiveSome \/ WriteFails \/ WriteSome
        \/ WriteDone

Next == Loop \/ PeerSends

\* The callbacks return: the data socket has a timeout, the file is local.
Spec == Init /\ [][Next]_vars /\ WF_vars(Loop)

-----------------------------------------------------------------------------
\* A completed upload is everything the peer sent before it closed, in order,
\* although receives and writes were split arbitrarily (STOR_SAFE).
WholeUpload ==
    pc = "returned" /\ stage = "complete" =>
        closed /\ file = [i \in 1..produced |-> i]

\* The counters of the 426 reply are exact, and "every received byte is written
\* before another receive" (comment in ftpvita_store.h).
ExactProgress ==
    /\ bytes_written = Len(file)
    /\ bytes_received = consumed
    /\ bytes_received - bytes_written = Len(buffer) - position
    /\ pc = "receive" => bytes_received = bytes_written
    /\ pc = "returned" /\ stage # "write" => bytes_received = bytes_written

\* The loop ends: a socket with a timeout cannot keep it, and neither does a
\* write or a receive that makes no progress.
Terminates == <>(pc = "returned")

\* The upload as a reliable copy of the peer's stream into the file.
Copy == INSTANCE ReliableCopy WITH
          Bytes  <- Indices,
          source <- [i \in 1..produced |-> i],
          closed <- closed,
          sink   <- file,
          status <- IF pc # "returned" THEN "running"
                    ELSE IF stage = "complete" THEN "complete" ELSE "failed"

\* Every behaviour of the loop is one of ReliableCopy: the file only ever holds
\* a prefix of the stream, and complete is reported only for all of it.
RefinesCopy == Copy!CopySpec
=============================================================================
