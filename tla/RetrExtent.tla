----------------------------- MODULE RetrExtent -----------------------------
(***************************************************************************)
(* ftpvita_retr_extent (libftpvita/ftpvita_retr.h): the loop that sends    *)
(* the bytes [start, extent) of an open file.  A byte is identified by its *)
(* offset.  The file may grow or shrink at any moment while the loop runs; *)
(* the read and send callbacks return short counts, errors and, as the     *)
(* code allows for, counts larger than they were asked for.                *)
(***************************************************************************)
EXTENDS Integers, Sequences

CONSTANTS
    MaxOffset,     \* largest file size considered
    BufferSizes,   \* values of buffer_size
    INT_MAX        \* limit the code puts on buffer_size

ASSUME RetrAssumption == /\ MaxOffset \in Nat
                         /\ BufferSizes \subseteq Nat
                         /\ INT_MAX \in Nat

VARIABLES
    buffer_size, start, extent,   \* arguments
    size, fpos,                   \* the file: current size, descriptor position
    pc,                           \* "entry", "read", "send" or "returned"
    remaining, buffer, position,  \* locals
    bytes_read, bytes_sent,       \* result counters
    stage, code, net_errno,       \* rest of the result
    wire                          \* offsets handed to the network, in order

args   == <<buffer_size, start, extent>>
file   == <<size, fpos>>
result == <<stage, code, net_errno>>
vars   == <<args, file, pc, remaining, buffer, position, bytes_read, bytes_sent, result, wire>>

Offsets == 0..MaxOffset
Stages  == {"complete", "range", "early-eof", "read", "send"}

\* Counters, positions and the buffer stay in range: no read or send of the loop
\* overruns the buffer or takes remaining below zero.
TypeOK ==
    /\ buffer_size \in BufferSizes /\ start \in Offsets /\ extent \in Offsets
    /\ size \in Offsets /\ fpos \in Offsets
    /\ pc \in {"entry", "read", "send", "returned"}
    /\ remaining \in Offsets
    /\ buffer \in Seq(Offsets) /\ Len(buffer) <= buffer_size
    /\ position \in 0..Len(buffer)
    /\ bytes_read \in Offsets /\ bytes_sent \in Offsets
    /\ stage \in Stages /\ code \in Int /\ net_errno \in {0, 1}
    /\ wire \in Seq(Offsets)

\* send_file seeks to start and takes extent from the size of the open file;
\* the function itself also accepts start > extent.
Init ==
    /\ buffer_size \in BufferSizes /\ start \in Offsets /\ extent \in Offsets
    /\ size = extent /\ fpos = start
    /\ pc = "entry"
    /\ remaining = 0 /\ buffer = << >> /\ position = 0
    /\ bytes_read = 0 /\ bytes_sent = 0
    /\ stage = "complete" /\ code = 0 /\ net_errno = 0
    /\ wire = << >>

Return(st, cd, err) ==
    /\ pc' = "returned"
    /\ stage' = st /\ code' = cd /\ net_errno' = err

\* Argument check.
BadArgs == buffer_size = 0 \/ buffer_size > INT_MAX \/ start > extent

Enter ==
    /\ pc = "entry"
    /\ \/ /\ BadArgs
          /\ Return("range", 0, 0)
          /\ UNCHANGED remaining
       \/ /\ ~BadArgs
          /\ remaining' = extent - start
          /\ pc' = "read"
          /\ UNCHANGED result
    /\ UNCHANGED <<args, file, buffer, position, bytes_read, bytes_sent, wire>>

Requested == IF remaining < buffer_size THEN remaining ELSE buffer_size

\* sceIoRead: an error, no byte at the end of the file, some of the bytes asked
\* for that exist now, or a count no correct implementation returns.
ReadResults == {-1, Requested + 1}
               \cup (IF fpos >= size THEN {0}
                     ELSE {n \in 1..Requested : fpos + n <= size})

BadReadMutant(n) == n < 0 \/ n > Requested
BadRead(n) == n <= 0 \/ n > Requested

ReadFails ==
    /\ pc = "read" /\ remaining > 0
    /\ \E n \in ReadResults :
          /\ BadRead(n)
          /\ Return(IF n = 0 THEN "early-eof" ELSE "read", n, 0)
    /\ UNCHANGED <<args, file, remaining, buffer, position, bytes_read, bytes_sent, wire>>

ReadSome ==
    /\ pc = "read" /\ remaining > 0
    /\ \E n \in ReadResults :
          /\ ~BadRead(n)
          /\ buffer' = [i \in 1..n |-> fpos - 1 + i]
          /\ fpos' = fpos + n
          /\ bytes_read' = bytes_read + n
          /\ remaining' = remaining - n
    /\ position' = 0
    /\ pc' = "send"
    /\ UNCHANGED <<args, size, bytes_sent, result, wire>>

ReadDone ==
    /\ pc = "read" /\ remaining = 0
    /\ Return("complete", 0, 0)
    /\ UNCHANGED <<args, file, remaining, buffer, position, bytes_read, bytes_sent, wire>>

Pending == Len(buffer) - position
SendResults == {-1, 0, Pending + 1} \cup 1..Pending
BadSend(k) == k <= 0 \/ k > Pending

SendFails ==
    /\ pc = "send" /\ Pending > 0
    /\ \E k \in SendResults, err \in {0, 1} :
          /\ BadSend(k)
          /\ Return("send", k, IF k < 0 THEN err ELSE 0)
    /\ UNCHANGED <<args, file, remaining, buffer, position, bytes_read, bytes_sent, wire>>

SendSomeMutant ==
    /\ pc = "send" /\ Pending > 0
    /\ \E k \in SendResults :
          /\ ~BadSend(k)
          /\ wire' = wire \o SubSeq(buffer, position + 1, position + k)
          /\ bytes_sent' = bytes_sent + Pending
    /\ position' = Len(buffer)
    /\ UNCHANGED <<args, file, pc, remaining, buffer, bytes_read, result>>

SendSome ==
    /\ pc = "send" /\ Pending > 0
    /\ \E k \in SendResults :
          /\ ~BadSend(k)
          /\ wire' = wire \o SubSeq(buffer, position + 1, position + k)
          /\ position' = position + k
          /\ bytes_sent' = bytes_sent + k
    /\ UNCHANGED <<args, file, pc, remaining, buffer, bytes_read, result>>

SendDone ==
    /\ pc = "send" /\ Pending = 0
    /\ pc' = "read"
    /\ UNCHANGED <<args, file, remaining, buffer, position, bytes_read, bytes_sent, result, wire>>

\* Another process appends to the file or truncates it.
Resize ==
    /\ pc # "returned"
    /\ size' \in Offsets \ {size}
    /\ UNCHANGED <<args, fpos, pc, remaining, buffer, position, bytes_read, bytes_sent,
                   result, wire>>

Loop == Enter \/ ReadFails \/ ReadSome \/ ReadDone \/ SendFails \/ SendSome \/ SendDone

Next == Loop \/ Resize

\* The callbacks return: the data socket has a timeout, the file is local.
Spec == Init /\ [][Next]_vars /\ WF_vars(Loop)

-----------------------------------------------------------------------------
\* README RETR_EXTENT: a completed download is exactly the bytes from the
\* restart point to the size the file had when it was opened, in order,
\* however the file was resized and however reads and sends were split.
ExactExtent ==
    pc = "returned" /\ stage = "complete" =>
        wire = [i \in 1..(extent - start) |-> start - 1 + i]

\* README RETR_ERRORS: the counters of the 426 reply are exact. bytes_sent is
\* what the network took, bytes_read what was consumed from the file, and the
\* difference is what a failed send left in the buffer.
ExactProgress ==
    /\ bytes_sent = Len(wire)
    /\ bytes_read = fpos - start
    /\ bytes_read - bytes_sent = Len(buffer) - position
    /\ pc \in {"read", "send"} => remaining = extent - fpos
    /\ pc = "returned" /\ stage \in {"read", "early-eof"} => bytes_sent = bytes_read

\* A short file is reported as such and only then: early-eof means that the file
\* ends before the extent, so a truncated download is never called complete.
EarlyEofIsTruncation ==
    pc = "returned" /\ stage = "early-eof" => size <= fpos /\ fpos < extent

\* The loop ends although the file may be resized for ever: it neither chases
\* appended bytes nor retries without progress.
Terminates == <>(pc = "returned")

\* The download as a reliable copy of the extent.
Copy == INSTANCE ReliableCopy WITH
          Bytes  <- Offsets,
          source <- [i \in 1..(IF start <= extent THEN extent - start ELSE 0) |-> start - 1 + i],
          closed <- TRUE,
          sink   <- wire,
          status <- IF pc # "returned" THEN "running"
                    ELSE IF stage = "complete" THEN "complete" ELSE "failed"

\* Every behaviour of the loop is one of ReliableCopy: what was sent is always a
\* prefix of the extent, and complete is reported only for all of it.
RefinesCopy == Copy!CopySpec
=============================================================================
