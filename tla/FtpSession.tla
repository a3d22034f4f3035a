----------------------------- MODULE FtpSession -----------------------------
(***************************************************************************)
(* What one FTP client keeps from command to command (libftpvita): its     *)
(* data connection, the kernel sockets behind it and the restart point of  *)
(* REST.  The commands of one client run one after the other on its own    *)
(* thread; a transfer command is two steps, up to the open data connection *)
(* and from there to its end, and the rest of the device may change the    *)
(* file at any time.  The file is followed by its length alone.  unsigned  *)
(* int is scaled down to 0..UINT_MAX, and REST accepts at most half of it. *)
(***************************************************************************)
EXTENDS Integers, FiniteSets

CONSTANTS
    Fds,        \* socket descriptors the kernel can hand out
    UINT_MAX,   \* largest unsigned int; also what restore_point = -1 stores
    MaxLen      \* bound on the length of the file

ASSUME SessionAssumption == /\ IsFiniteSet(Fds) /\ Fds \subseteq Nat
                            /\ UINT_MAX \in Nat /\ MaxLen \in Nat

VARIABLES
    ctrl_sockfd, data_sockfd, pasv_sockfd, data_con_type, restore_point,
    open,       \* descriptors that are open in the kernel on behalf of the client
    flen,       \* length of the file, -1 when it does not exist
    streaming,  \* the transfer command whose data connection is open
    asked,      \* history: offset of the last REST that no transfer has followed
    refused,    \* history: an upload came back before its loop since that REST
    last        \* history: the latest RETR, STOR or APPE that got to its file

vars == <<ctrl_sockfd, data_sockfd, pasv_sockfd, data_con_type, restore_point, open,
          flen, streaming, asked, refused, last>>

sockets == <<ctrl_sockfd, data_sockfd, pasv_sockfd, data_con_type, open>>
history == <<asked, refused, last>>

None == -1
REST_MAX == UINT_MAX \div 2
Transfers == {"none", "LIST", "RETR", "STOR", "APPE"}
NoTransfer == [cmd |-> "none", start |-> 0, asked |-> 0, refused |-> FALSE]

\* Descriptors, lengths and restart points stay in their ranges.
TypeOK ==
    /\ {ctrl_sockfd, data_sockfd, pasv_sockfd} \subseteq Fds \cup {None}
    /\ data_con_type \in {"none", "active", "passive"}
    /\ restore_point \in 0..REST_MAX \cup {UINT_MAX}
    /\ open \subseteq Fds
    /\ flen \in {None} \cup 0..MaxLen
    /\ streaming \in Transfers
    /\ asked \in 0..REST_MAX /\ refused \in BOOLEAN
    /\ last \in [cmd : Transfers, start : 0..UINT_MAX \cup 0..MaxLen,
                 asked : 0..REST_MAX, refused : BOOLEAN]

Init ==
    /\ ctrl_sockfd = None /\ data_sockfd = None /\ pasv_sockfd = None
    /\ data_con_type = "none"
    /\ restore_point = 0
    /\ open = {}
    /\ flen \in {None} \cup 0..MaxLen
    /\ streaming = "none"
    /\ asked = 0 /\ refused = FALSE
    /\ last = NoTransfer

-----------------------------------------------------------------------------
\* The client thread is in client_thread's receive, ready for a command.
Ready == ctrl_sockfd # None /\ streaming = "none"

\* Descriptors left open by client_close_data_connection.
AfterClose == open \ {data_sockfd, pasv_sockfd}

CloseDataMutant ==
    /\ open' = open \ {data_sockfd}
    /\ data_sockfd' = None /\ pasv_sockfd' = None
    /\ data_con_type' = "none"
    /\ UNCHANGED ctrl_sockfd

\* client_close_data_connection.
CloseData ==
    /\ open' = AfterClose
    /\ data_sockfd' = None /\ pasv_sockfd' = None
    /\ data_con_type' = "none"
    /\ UNCHANGED ctrl_sockfd

\* server_thread: memset, then the fields it sets; client_list_add.
Connect ==
    /\ ctrl_sockfd = None
    /\ \E fd \in Fds \ open : ctrl_sockfd' = fd /\ open' = open \cup {fd}
    /\ data_sockfd' = None /\ pasv_sockfd' = None /\ data_con_type' = "none"
    /\ restore_point' = 0
    /\ asked' = 0 /\ refused' = FALSE /\ last' = NoTransfer
    /\ UNCHANGED <<flen, streaming>>

\* QUIT, end of connection or error: client_thread closes every socket.
Disconnect ==
    /\ Ready
    /\ open' = AfterClose \ {ctrl_sockfd}
    /\ ctrl_sockfd' = None /\ data_sockfd' = None /\ pasv_sockfd' = None
    /\ data_con_type' = "none"
    /\ UNCHANGED <<restore_point, flen, streaming, history>>

\* PASV and PORT: the previous data connection is closed first; a socket that
\* cannot be created, bound or listened on leaves no data connection.
Setup(type) ==
    /\ Ready
    /\ \/ \E fd \in Fds \ AfterClose :
             /\ data_sockfd' = fd /\ open' = AfterClose \cup {fd}
             /\ data_con_type' = type /\ pasv_sockfd' = None
             /\ UNCHANGED ctrl_sockfd
       \/ CloseData
    /\ UNCHANGED <<restore_point, flen, streaming, history>>

PASV == Setup("passive")
PORT == Setup("active")

\* What ftpvita_parse_rest_offset accepts; other arguments change nothing.
ParsedOffsets == 0..REST_MAX

REST ==
    /\ Ready
    /\ \E n \in ParsedOffsets : restore_point' = n /\ asked' = n
    /\ refused' = FALSE
    /\ UNCHANGED <<sockets, flen, streaming, last>>

-----------------------------------------------------------------------------
(* Transfers.  Every exit closes the data connection. *)

\* client_open_data_connection succeeds: an active socket connects, a passive
\* one accepts on a further descriptor.
OpenData ==
    /\ \/ /\ data_con_type = "active"
          /\ UNCHANGED <<pasv_sockfd, open>>
       \/ /\ data_con_type = "passive"
          /\ \E fd \in Fds \ open : pasv_sockfd' = fd /\ open' = open \cup {fd}
    /\ UNCHANGED <<ctrl_sockfd, data_sockfd, data_con_type>>

\* LIST leaves the restart point alone, whether it gets a data connection or not.
LIST ==
    /\ Ready
    /\ \/ CloseData /\ UNCHANGED streaming
       \/ OpenData /\ streaming' = "LIST"
    /\ UNCHANGED <<restore_point, flen, history>>

TakeRestMutant == UNCHANGED restore_point
\* send_file takes the restart point before anything can fail.
TakeRest == restore_point' = 0

\* The opened descriptor can be positioned on the restart point.
SeekOk == flen # None /\ restore_point <= flen

\* RETR refused by the gate, no such file, a restart point beyond the end, no
\* memory or no data connection.
RetrFails ==
    /\ Ready
    /\ TakeRest
    /\ CloseData
    /\ asked' = 0 /\ refused' = FALSE
    /\ UNCHANGED <<flen, streaming, last>>

\* RETR gets as far as the loop, from the restart point to the current length.
RetrStarts ==
    /\ Ready
    /\ SeekOk
    /\ OpenData
    /\ streaming' = "RETR"
    /\ last' = [cmd |-> "RETR", start |-> restore_point, asked |-> asked,
                refused |-> refused]
    /\ TakeRest
    /\ asked' = 0 /\ refused' = FALSE
    /\ UNCHANGED flen

\* receive_file with restart point rp, refused by the gate or without a file to
\* open: nothing is written and the restart point stays.
StoreRefused(rp) ==
    /\ CloseData
    /\ restore_point' = rp
    /\ asked' = 0 /\ refused' = TRUE
    /\ UNCHANGED <<flen, streaming, last>>

\* The file is opened: appended to when there is a restart point, else truncated.
OpenFile(cmd, rp) ==
    LET from == IF rp # 0 /\ flen # None THEN flen ELSE 0 IN
    /\ flen' = from
    /\ last' = [cmd |-> cmd, start |-> from, asked |-> asked, refused |-> refused]

\* ... but there is no memory or no data connection: the restart point stays.
StoreNoData(cmd, rp) ==
    /\ OpenFile(cmd, rp)
    /\ CloseData
    /\ restore_point' = rp
    /\ asked' = 0 /\ refused' = TRUE
    /\ UNCHANGED streaming

\* ... and the loop starts.
StoreStarts(cmd, rp) ==
    /\ OpenFile(cmd, rp)
    /\ OpenData
    /\ streaming' = cmd
    /\ restore_point' = rp
    /\ asked' = 0 /\ refused' = FALSE

ReceiveFile(cmd, rp) ==
    Ready /\ (StoreRefused(rp) \/ StoreNoData(cmd, rp) \/ StoreStarts(cmd, rp))

STOR == ReceiveFile("STOR", restore_point)
\* APPE sets the restart point to -1, which unsigned int stores as UINT_MAX.
APPE == ReceiveFile("APPE", UINT_MAX)

\* One write of the store loop.
Write ==
    /\ streaming \in {"STOR", "APPE"}
    /\ flen # None /\ flen < MaxLen
    /\ flen' = flen + 1
    /\ UNCHANGED <<sockets, restore_point, streaming, history>>

\* The loop returns, complete or not: an upload consumes its restart point here.
EndTransfer ==
    /\ streaming # "none"
    /\ CloseData
    /\ streaming' = "none"
    /\ restore_point' = IF streaming \in {"STOR", "APPE"} THEN 0 ELSE restore_point
    /\ UNCHANGED <<flen, history>>

\* Another client, or the console, creates, rewrites or deletes the file.
FileChanges ==
    /\ flen' \in {None} \cup 0..MaxLen
    /\ UNCHANGED <<sockets, restore_point, streaming, history>>

Next == Connect \/ Disconnect \/ PASV \/ PORT \/ REST \/ LIST \/ RetrFails \/ RetrStarts
        \/ STOR \/ APPE \/ Write \/ EndTransfer \/ FileChanges

Spec == Init /\ [][Next]_vars

-----------------------------------------------------------------------------
\* The client's fields and the kernel agree: every open socket is in a field,
\* no two fields share one, and a data connection that is set up has its
\* socket.  Repeated PASV and PORT, refused transfers and disconnects in any
\* order leak nothing ("leaking the old listener eventually exhausts SceShell's
\* socket resources", cmd_PASV_func).
NoSocketLeak ==
    /\ open = {ctrl_sockfd, data_sockfd, pasv_sockfd} \ {None}
    /\ Cardinality(open) = Cardinality({f \in {1, 2, 3} :
                              <<ctrl_sockfd, data_sockfd, pasv_sockfd>>[f] # None})
    /\ data_con_type # "none" <=> data_sockfd # None
    /\ pasv_sockfd # None => data_con_type = "passive" /\ streaming # "none"

\* A download starts at the offset of the REST that was sent for it, and at 0
\* if none was: README RETR_EXTENT, "REST is consumed even on failure".  Only
\* an upload that came back before its loop can leave another offset behind.
RetrUsesItsRest == last.cmd = "RETR" /\ ~last.refused => last.start = last.asked

\* Comment in receive_file: "if we resume broken - append missing part, else -
\* overwrite file": a STOR without a REST since the last transfer starts at 0.
StorOverwrites == last.cmd = "STOR" /\ last.asked = 0 => last.start = 0
=============================================================================
