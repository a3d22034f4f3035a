----------------------------- MODULE FtpServer -----------------------------
(***************************************************************************)
(* The concurrent core of libftpvita/ftpvita.c: the server thread that     *)
(* admits clients, one thread per client, the network thread that owns     *)
(* ftpvita_init/ftpvita_fini, and the command thread that runs `reboot`    *)
(* and `ftpreset`.  They share the client list (behind client_list_mtx),   *)
(* the transfer gate transfer_active and the reboot guard                  *)
(* reboot_quiesce_requested (both accessed with __sync builtins).          *)
(*                                                                         *)
(* A client is an identity that returns to "free" once its thread, socket  *)
(* and memory are gone, so it can stand for a later connection.  Commands  *)
(* that touch none of this state (CWD, SIZE, ...) are stuttering steps.    *)
(***************************************************************************)
EXTENDS Naturals, FiniteSets

CONSTANTS
    Clients,            \* identities of FTP clients
    NoClient,           \* "the server thread holds no client"
    MAX_CLIENTS,        \* admission limit
    SetsockoptMayFail,  \* may configure_socket_io_timeout fail?
    Requests            \* operator commands that may arrive: "reboot", "ftpreset"

ASSUME ClientsAssumption == IsFiniteSet(Clients) /\ NoClient \notin Clients
ASSUME MaxAssumption == MAX_CLIENTS \in Nat \ {0}
ASSUME EnvironmentAssumption == /\ SetsockoptMayFail \in BOOLEAN
                                /\ Requests \subseteq {"reboot", "ftpreset"}

VARIABLES
    owner,              \* where the network thread is in init/fini
    joinset,            \* client_thids: detached clients still to be joined
    mtx,                \* client_list_mtx: "none", "free" or its long-term holder
    server, cur,        \* server thread and the client it is admitting
    server_sockfd, server_start_status,
    client_list, in_client_list, number_clients,
    transfer_active, reboot_quiesce_requested,
    cmd,                \* where the command thread is in reboot/ftpreset
    seen_clients, seen_transfer,  \* locals of ftpvita_prepare_for_reboot
    scan,               \* clients ftpvita_abort_clients has still to visit
    reset,              \* state of an accepted cold reset request
    pc,                 \* where each client thread is
    data_con_type,
    ctrl_aborted, data_aborted,   \* clients whose socket was aborted
    ctrl_timed, data_timed,       \* clients whose socket has its I/O timeout
    silent              \* clients whose peer will never send or close again

ownerVars  == <<owner, joinset>>
serverVars == <<server, cur, server_sockfd, server_start_status>>
listVars   == <<client_list, in_client_list, number_clients>>
cmdVars    == <<cmd, seen_clients, seen_transfer, scan, reset>>
ctrlVars   == <<ctrl_aborted, ctrl_timed>>
dataVars   == <<data_con_type, data_aborted, data_timed>>
gateVars   == <<transfer_active, reboot_quiesce_requested>>
clientVars == <<pc, ctrlVars, dataVars, silent>>
vars == <<ownerVars, mtx, serverVars, listVars, gateVars, cmdVars, clientVars>>

Owners  == {"down", "init_wait", "up", "fini_join", "fini_lock", "fini_scan", "fini_wait"}
Servers == {"none", "startup", "accept", "add", "start", "ended"}
Cmds    == {"idle", "rb_lock", "rb_transfer", "rb_decide", "rb_reset", "abort_scan"}
Resets  == {"no", "accepted", "orphaned"}
\* The thread of a client before and after client_list_delete.
Section  == {"recheck", "file", "open", "opened", "xfer", "closing", "release"}
Started  == {"recv", "setup", "begin", "cas", "leave"} \cup Section
Pcs      == {"free", "accepted", "ready", "close_own", "close_det", "exited"} \cup Started
ConTypes == {"none", "active", "passive"}

\* Every variable has its type; number_clients never passes MAX_CLIENTS.
TypeOK ==
    /\ owner \in Owners
    /\ joinset \subseteq Clients
    /\ mtx \in {"none", "free", "net", "cmd"}
    /\ server \in Servers
    /\ cur \in Clients \cup {NoClient}
    /\ server_sockfd \in {"closed", "open"}
    /\ server_start_status \in {"pending", "ok", "failed"}
    /\ client_list \subseteq Clients
    /\ in_client_list \subseteq Clients
    /\ number_clients \in 0..MAX_CLIENTS
    /\ transfer_active \in {0, 1}
    /\ reboot_quiesce_requested \in {0, 1}
    /\ cmd \in Cmds
    /\ seen_clients \in 0..MAX_CLIENTS
    /\ seen_transfer \in {0, 1}
    /\ scan \subseteq Clients
    /\ reset \in Resets
    /\ pc \in [Clients -> Pcs]
    /\ data_con_type \in [Clients -> ConTypes]
    /\ ctrl_aborted \subseteq Clients
    /\ data_aborted \subseteq Clients
    /\ ctrl_timed \subseteq Clients
    /\ data_timed \subseteq Clients
    /\ silent \subseteq Clients

Init ==
    /\ owner = "down" /\ joinset = {}
    /\ mtx = "none"
    /\ server = "none" /\ cur = NoClient
    /\ server_sockfd = "closed" /\ server_start_status = "pending"
    /\ client_list = {} /\ in_client_list = {} /\ number_clients = 0
    /\ transfer_active = 0 /\ reboot_quiesce_requested = 0
    /\ cmd = "idle" /\ seen_clients = 0 /\ seen_transfer = 0
    /\ scan = {} /\ reset = "no"
    /\ pc = [c \in Clients |-> "free"]
    /\ data_con_type = [c \in Clients |-> "none"]
    /\ ctrl_aborted = {} /\ data_aborted = {}
    /\ ctrl_timed = {} /\ data_timed = {} /\ silent = {}

-----------------------------------------------------------------------------
(* Helpers *)

Transition(c, from, to) == pc[c] = from /\ pc' = [pc EXCEPT ![c] = to]

\* client_close_data_connection: both sockets closed, no data connection.
CloseData(c) ==
    /\ data_con_type' = [data_con_type EXCEPT ![c] = "none"]
    /\ data_aborted' = data_aborted \ {c}
    /\ data_timed' = data_timed \ {c}

ConfiguredMutant(timed, c) == {timed \ {c}}

\* configure_socket_io_timeout on a new socket; its callers ignore failure.
Configured(timed, c) ==
    {timed \cup {c}} \cup (IF SetsockoptMayFail THEN {timed \ {c}} ELSE {})

AdmissibleMutantLimit == reboot_quiesce_requested = 0 /\ number_clients <= MAX_CLIENTS
AdmissibleMutantGuard == number_clients < MAX_CLIENTS

\* The admission test of client_list_add.
Admissible == reboot_quiesce_requested = 0 /\ number_clients < MAX_CLIENTS

\* The list update of client_list_add and of client_list_delete.
Link(c) ==
    /\ client_list' = client_list \cup {c}
    /\ in_client_list' = in_client_list \cup {c}
    /\ number_clients' = number_clients + 1
UnlinkMutant(c) ==
    /\ client_list' = client_list \ {c}
    /\ in_client_list' = in_client_list \ {c}
    /\ UNCHANGED number_clients
Unlink(c) ==
    /\ client_list' = client_list \ {c}
    /\ in_client_list' = in_client_list \ {c}
    /\ number_clients' = IF number_clients > 0 THEN number_clients - 1 ELSE 0

-----------------------------------------------------------------------------
(* Network thread: ftpvita_init and ftpvita_fini *)

InitStart ==
    /\ owner = "down"
    /\ owner' = "init_wait"
    /\ mtx' = "free"
    /\ client_list' = {} /\ number_clients' = 0
    /\ transfer_active' = 0 /\ reboot_quiesce_requested' = 0
    /\ server' = "startup"
    /\ server_sockfd' = "closed" /\ server_start_status' = "pending"
    /\ UNCHANGED <<joinset, cur, in_client_list, cmdVars, clientVars>>

InitReady ==
    /\ owner = "init_wait" /\ server_start_status = "ok"
    /\ owner' = "up"
    /\ UNCHANGED <<joinset, mtx, serverVars, listVars, gateVars, cmdVars, clientVars>>

\* The server thread reported failure: join it, delete the mutex.
InitGiveUp ==
    /\ owner = "init_wait" /\ server_start_status = "failed" /\ server = "ended"
    /\ owner' = "down"
    /\ server' = "none" /\ server_sockfd' = "closed"
    /\ mtx' = "none"
    /\ UNCHANGED <<joinset, cur, server_start_status, listVars, gateVars, cmdVars,
                   clientVars>>

\* stop_services joins the command thread before it calls ftpvita_fini.
FiniStart ==
    /\ owner = "up" /\ cmd = "idle"
    /\ owner' = "fini_join"
    /\ server_sockfd' = "closed"
    /\ UNCHANGED <<joinset, mtx, server, cur, server_start_status, listVars, gateVars,
                   cmdVars, clientVars>>

FiniJoinServer ==
    /\ owner = "fini_join" /\ server = "ended"
    /\ owner' = "fini_lock"
    /\ server' = "none"
    /\ UNCHANGED <<joinset, mtx, cur, server_sockfd, server_start_status, listVars,
                   gateVars, cmdVars, clientVars>>

FiniLock ==
    /\ owner = "fini_lock" /\ mtx = "free"
    /\ owner' = "fini_scan"
    /\ mtx' = "net"
    /\ UNCHANGED <<joinset, serverVars, listVars, gateVars, cmdVars, clientVars>>

HasDataConnectionMutant(c) == FALSE
HasDataConnection(c) == data_con_type[c] # "none"

\* One iteration of the loop of client_list_thread_end: the control socket is
\* always aborted, the data sockets only when a data connection is set up.
FiniAbort(c) ==
    /\ owner = "fini_scan"
    /\ c \in client_list \ joinset
    /\ Cardinality(joinset) < MAX_CLIENTS
    /\ joinset' = joinset \cup {c}
    /\ ctrl_aborted' = ctrl_aborted \cup {c}
    /\ data_aborted' = IF HasDataConnection(c) THEN data_aborted \cup {c} ELSE data_aborted
    /\ in_client_list' = in_client_list \ {c}
    /\ UNCHANGED <<owner, mtx, serverVars, client_list, number_clients, gateVars, cmdVars,
                   pc, ctrl_timed, data_con_type, data_timed, silent>>

\* The loop ends with the list, or with its array of thread identifiers.
ScanDone == client_list \subseteq joinset \/ Cardinality(joinset) >= MAX_CLIENTS

FiniDetachMutant ==
    /\ owner = "fini_scan" /\ ScanDone
    /\ owner' = "fini_wait"
    /\ client_list' = {} /\ number_clients' = 0
    /\ transfer_active' = 0
    /\ UNCHANGED <<joinset, mtx, serverVars, in_client_list, reboot_quiesce_requested,
                   cmdVars, clientVars>>

\* Detach everyone and unlock; from here on the clients are only joined.
FiniDetach ==
    /\ owner = "fini_scan" /\ ScanDone
    /\ owner' = "fini_wait"
    /\ client_list' = {} /\ number_clients' = 0
    /\ transfer_active' = 0
    /\ mtx' = "free"
    /\ UNCHANGED <<joinset, serverVars, in_client_list, reboot_quiesce_requested, cmdVars,
                   clientVars>>

\* sceKernelWaitThreadEnd and sceKernelDeleteThread of one detached client.
FiniJoin(c) ==
    /\ owner = "fini_wait"
    /\ c \in joinset
    /\ Transition(c, "exited", "free")
    /\ joinset' = joinset \ {c}
    /\ UNCHANGED <<owner, mtx, serverVars, listVars, gateVars, cmdVars, ctrlVars,
                   dataVars, silent>>

AllJoinedMutant == TRUE
AllJoined == joinset = {}

\* An accepted cold reset that has not happened yet loses its guard here.
FiniDone ==
    /\ owner = "fini_wait" /\ AllJoined
    /\ owner' = "down"
    /\ mtx' = "none"
    /\ client_list' = {} /\ number_clients' = 0
    /\ transfer_active' = 0 /\ reboot_quiesce_requested' = 0
    /\ reset' = IF reset = "accepted" THEN "orphaned" ELSE reset
    /\ UNCHANGED <<joinset, serverVars, in_client_list, cmd, seen_clients, seen_transfer,
                   scan, clientVars>>

-----------------------------------------------------------------------------
(* Server thread *)

\* socket, bind and listen, merged: the network thread only reads the status.
ServerStartup ==
    /\ server = "startup"
    /\ \/ /\ server' = "accept" /\ server_sockfd' = "open" /\ server_start_status' = "ok"
       \/ /\ server' = "ended" /\ server_sockfd' = "closed" /\ server_start_status' = "failed"
    /\ UNCHANGED <<ownerVars, mtx, cur, listVars, gateVars, cmdVars, clientVars>>

\* accept succeeds; state and (unstarted) thread of the client are created.
AcceptClient(c) ==
    /\ server = "accept" /\ server_sockfd = "open"
    /\ Transition(c, "free", "accepted")
    /\ ctrl_timed' \in Configured(ctrl_timed, c)
    /\ server' = "add" /\ cur' = c
    /\ UNCHANGED <<ownerVars, mtx, server_sockfd, server_start_status, listVars, gateVars,
                   cmdVars, ctrl_aborted, dataVars, silent>>

\* Any error of sceNetAccept ends the server thread, not only a closed socket.
AcceptFails ==
    /\ server = "accept"
    /\ server' = "ended"
    /\ UNCHANGED <<ownerVars, mtx, cur, server_sockfd, server_start_status, listVars,
                   gateVars, cmdVars, clientVars>>

\* client_list_add, and the clean-up of a refused client.
ServerAdd ==
    /\ server = "add" /\ mtx = "free"
    /\ \/ /\ Admissible
          /\ Link(cur)
          /\ Transition(cur, "accepted", "ready")
          /\ server' = "start"
          /\ UNCHANGED <<cur, ctrl_timed>>
       \/ /\ ~Admissible
          /\ Transition(cur, "accepted", "free")
          /\ ctrl_timed' = ctrl_timed \ {cur}
          /\ server' = "accept" /\ cur' = NoClient
          /\ UNCHANGED listVars
    /\ UNCHANGED <<ownerVars, mtx, server_sockfd, server_start_status, gateVars, cmdVars,
                   ctrl_aborted, dataVars, silent>>

ServerStart ==
    /\ server = "start"
    /\ Transition(cur, "ready", "recv")
    /\ server' = "accept" /\ cur' = NoClient
    /\ UNCHANGED <<ownerVars, mtx, server_sockfd, server_start_status, listVars, gateVars,
                   cmdVars, ctrlVars, dataVars, silent>>

\* sceKernelStartThread failed: the server thread takes the client back.
ServerStartFails ==
    /\ server = "start" /\ mtx = "free"
    /\ Transition(cur, "ready", "free")
    /\ Unlink(cur)
    /\ ctrl_timed' = ctrl_timed \ {cur}
    /\ ctrl_aborted' = ctrl_aborted \ {cur}
    /\ server' = "accept" /\ cur' = NoClient
    /\ UNCHANGED <<ownerVars, mtx, server_sockfd, server_start_status, gateVars, cmdVars,
                   dataVars, silent>>

-----------------------------------------------------------------------------
(* Client threads: the receive loop *)

sharedVars == <<ownerVars, mtx, serverVars, cmdVars, reboot_quiesce_requested>>

\* sceNetRecv returns a command: the peer speaks and nobody aborted the socket.
CanReceive(c) == pc[c] = "recv" /\ c \notin silent /\ c \notin ctrl_aborted

\* PASV or PORT: the old data connection is closed and a socket opened ...
RecvSetup(c) ==
    /\ CanReceive(c)
    /\ Transition(c, "recv", "setup")
    /\ data_con_type' = [data_con_type EXCEPT ![c] = "none"]
    /\ data_aborted' = data_aborted \ {c}
    /\ data_timed' \in Configured(data_timed, c)
    /\ UNCHANGED <<sharedVars, listVars, transfer_active, ctrlVars, silent>>

\* ... and the connection type is set last, or the socket is closed again.
SetupDone(c) ==
    /\ Transition(c, "setup", "recv")
    /\ \/ /\ \E type \in {"active", "passive"} :
                data_con_type' = [data_con_type EXCEPT ![c] = type]
          /\ UNCHANGED <<data_aborted, data_timed>>
       \/ CloseData(c)
    /\ UNCHANGED <<sharedVars, listVars, transfer_active, ctrlVars, silent>>

\* LIST, RETR, STOR or APPE.
RecvTransfer(c) ==
    /\ CanReceive(c)
    /\ Transition(c, "recv", "begin")
    /\ UNCHANGED <<sharedVars, listVars, transfer_active, ctrlVars, dataVars, silent>>

\* QUIT, an orderly close or a reset by the peer.
RecvEnd(c) ==
    /\ c \notin silent
    /\ Transition(c, "recv", "leave")
    /\ UNCHANGED <<sharedVars, listVars, transfer_active, ctrlVars, dataVars, silent>>

\* The receive times out or was aborted.
RecvWake(c) ==
    /\ c \in ctrl_aborted \cup ctrl_timed
    /\ Transition(c, "recv", "leave")
    /\ UNCHANGED <<sharedVars, listVars, transfer_active, ctrlVars, dataVars, silent>>

-----------------------------------------------------------------------------
(* Client threads: one transfer *)

\* client_begin_transfer, first read of the reboot guard.
BeginCheck(c) ==
    /\ \/ /\ reboot_quiesce_requested = 0
          /\ Transition(c, "begin", "cas")
          /\ UNCHANGED dataVars
       \/ /\ reboot_quiesce_requested # 0
          /\ Transition(c, "begin", "recv")
          /\ CloseData(c)
    /\ UNCHANGED <<sharedVars, listVars, transfer_active, ctrlVars, silent>>

BeginCasMutant(c) ==
    /\ Transition(c, "cas", "recheck")
    /\ transfer_active' = 1
    /\ UNCHANGED <<sharedVars, listVars, ctrlVars, dataVars, silent>>

\* Compare-and-swap on the gate.
BeginCas(c) ==
    /\ \/ /\ transfer_active = 0
          /\ transfer_active' = 1
          /\ Transition(c, "cas", "recheck")
          /\ UNCHANGED dataVars
       \/ /\ transfer_active # 0
          /\ Transition(c, "cas", "recv")
          /\ CloseData(c)
          /\ UNCHANGED transfer_active
    /\ UNCHANGED <<sharedVars, listVars, ctrlVars, silent>>

\* Second read of the reboot guard, with the gate held.
BeginRecheck(c) ==
    /\ \/ /\ reboot_quiesce_requested = 0
          /\ Transition(c, "recheck", "file")
          /\ UNCHANGED <<transfer_active, dataVars>>
       \/ /\ reboot_quiesce_requested # 0
          /\ transfer_active' = 0
          /\ Transition(c, "recheck", "recv")
          /\ CloseData(c)
    /\ UNCHANGED <<sharedVars, listVars, ctrlVars, silent>>

\* Open the file or directory, seek, allocate the buffer.
OpenFile(c) ==
    /\ Transition(c, "file", "open") \/ Transition(c, "file", "closing")
    /\ UNCHANGED <<sharedVars, listVars, transfer_active, ctrlVars, dataVars, silent>>

\* client_open_data_connection: connect, or accept on the passive listener.
\* An accepted socket is stored in the client only by the next step.
OpenData(c) ==
    /\ c \notin silent /\ c \notin data_aborted
    /\ \/ data_con_type[c] = "active"  /\ Transition(c, "open", "xfer")
       \/ data_con_type[c] = "passive" /\ Transition(c, "open", "opened")
    /\ UNCHANGED <<sharedVars, listVars, transfer_active, ctrlVars, dataVars, silent>>

\* Nothing to open, connect refused or timed out, accept aborted or timed out.
OpenDataFails(c) ==
    /\ data_con_type[c] # "passive" \/ c \in data_aborted \cup data_timed
    /\ Transition(c, "open", "closing")
    /\ UNCHANGED <<sharedVars, listVars, transfer_active, ctrlVars, dataVars, silent>>

\* pasv_sockfd is assigned and configured; from here on it carries the data.
StorePasv(c) ==
    /\ Transition(c, "opened", "xfer")
    /\ data_aborted' = data_aborted \ {c}
    /\ data_timed' \in Configured(data_timed, c)
    /\ UNCHANGED <<sharedVars, listVars, transfer_active, ctrlVars, data_con_type, silent>>

\* The copy loop ends with the data, with an I/O error or because the peer
\* closes the connection.
XferPeer(c) ==
    /\ c \notin silent
    /\ Transition(c, "xfer", "closing")
    /\ UNCHANGED <<sharedVars, listVars, transfer_active, ctrlVars, dataVars, silent>>

\* The copy loop ends because a send or receive times out or was aborted.
XferWake(c) ==
    /\ c \in data_aborted \/ (c \in data_timed /\ c \in silent)
    /\ Transition(c, "xfer", "closing")
    /\ UNCHANGED <<sharedVars, listVars, transfer_active, ctrlVars, dataVars, silent>>

XferCloseMutant(c) ==
    /\ Transition(c, "closing", "recv")
    /\ CloseData(c)
    /\ UNCHANGED <<sharedVars, listVars, transfer_active, ctrlVars, silent>>

\* Every way out of a transfer closes the data connection, then the gate.
XferClose(c) ==
    /\ Transition(c, "closing", "release")
    /\ CloseData(c)
    /\ UNCHANGED <<sharedVars, listVars, transfer_active, ctrlVars, silent>>

XferRelease(c) ==
    /\ Transition(c, "release", "recv")
    /\ transfer_active' = 0
    /\ UNCHANGED <<sharedVars, listVars, ctrlVars, dataVars, silent>>

-----------------------------------------------------------------------------
(* Client threads: leaving *)

ListDeleteMutant(c) ==
    /\ mtx \in {"free", "none"}
    /\ Transition(c, "leave", "close_own")
    /\ IF c \in in_client_list THEN Unlink(c) ELSE UNCHANGED listVars
    /\ UNCHANGED <<sharedVars, transfer_active, ctrlVars, dataVars, silent>>

\* client_list_delete.  Locking a deleted mutex fails, and the code goes on.
ListDelete(c) ==
    /\ mtx \in {"free", "none"}
    /\ \/ /\ c \in in_client_list
          /\ Unlink(c)
          /\ Transition(c, "leave", "close_own")
       \/ /\ c \notin in_client_list
          /\ Transition(c, "leave", "close_det")
          /\ UNCHANGED listVars
    /\ UNCHANGED <<sharedVars, transfer_active, ctrlVars, dataVars, silent>>

\* Sockets closed, memory freed; a client that removed itself also deletes
\* its thread object, a detached one leaves that to ftpvita_fini.
CloseAndExit(c) ==
    /\ Transition(c, "close_own", "free") \/ Transition(c, "close_det", "exited")
    /\ ctrl_aborted' = ctrl_aborted \ {c}
    /\ ctrl_timed' = ctrl_timed \ {c}
    /\ CloseData(c)
    /\ silent' = silent \ {c}
    /\ UNCHANGED <<sharedVars, listVars, transfer_active>>

\* Environment: the host vanishes without closing its connections.
PeerVanishes(c) ==
    /\ pc[c] \in Started
    /\ c \notin silent
    /\ silent' = silent \cup {c}
    /\ UNCHANGED <<sharedVars, listVars, transfer_active, pc, ctrlVars, dataVars>>

-----------------------------------------------------------------------------
(* Command thread: reboot and ftpreset; it runs only while owner = "up" *)

clientSide == <<ownerVars, mtx, serverVars, listVars, transfer_active, pc, ctrl_timed,
                data_con_type, data_timed, silent>>

RbCas ==
    /\ "reboot" \in Requests
    /\ owner = "up" /\ cmd = "idle"
    /\ reboot_quiesce_requested = 0
    /\ reboot_quiesce_requested' = 1
    /\ cmd' = "rb_lock"
    /\ UNCHANGED <<clientSide, seen_clients, seen_transfer, scan, reset, ctrl_aborted,
                   data_aborted>>

RbLock ==
    /\ cmd = "rb_lock" /\ mtx = "free"
    /\ mtx' = "cmd"
    /\ seen_clients' = number_clients
    /\ cmd' = "rb_transfer"
    /\ UNCHANGED <<ownerVars, serverVars, listVars, gateVars, seen_transfer, scan, reset,
                   clientVars>>

RbTransfer ==
    /\ cmd = "rb_transfer"
    /\ seen_transfer' = transfer_active
    /\ cmd' = "rb_decide"
    /\ UNCHANGED <<clientSide, reboot_quiesce_requested, seen_clients, scan, reset,
                   ctrl_aborted, data_aborted>>

\* The decision of ftpvita_prepare_for_reboot.
Idle == seen_clients = 0 /\ seen_transfer = 0

RbDecideMutant ==
    /\ cmd = "rb_decide"
    /\ \/ Idle  /\ cmd' = "rb_reset" /\ mtx' = "free" /\ UNCHANGED reboot_quiesce_requested
       \/ ~Idle /\ cmd' = "idle" /\ reboot_quiesce_requested' = 0 /\ UNCHANGED mtx
    /\ seen_clients' = 0 /\ seen_transfer' = 0
    /\ UNCHANGED <<ownerVars, serverVars, listVars, transfer_active, scan, reset, clientVars>>

RbDecide ==
    /\ cmd = "rb_decide"
    /\ \/ Idle  /\ cmd' = "rb_reset" /\ UNCHANGED reboot_quiesce_requested
       \/ ~Idle /\ cmd' = "idle" /\ reboot_quiesce_requested' = 0
    /\ mtx' = "free"
    /\ seen_clients' = 0 /\ seen_transfer' = 0
    /\ UNCHANGED <<ownerVars, serverVars, listVars, transfer_active, scan, reset,
                   clientVars>>

RbResetMutant ==
    /\ cmd = "rb_reset"
    /\ cmd' = "idle"
    /\ reset' = "accepted" \/ UNCHANGED reset
    /\ UNCHANGED <<clientSide, reboot_quiesce_requested, seen_clients, seen_transfer, scan,
                   ctrl_aborted, data_aborted>>

\* scePowerRequestColdReset; a failed request cancels the quiesce.
RbReset ==
    /\ cmd = "rb_reset"
    /\ cmd' = "idle"
    /\ \/ reset' = "accepted" /\ UNCHANGED reboot_quiesce_requested
       \/ reboot_quiesce_requested' = 0 /\ UNCHANGED reset
    /\ UNCHANGED <<clientSide, seen_clients, seen_transfer, scan, ctrl_aborted,
                   data_aborted>>

AbortLockMutant ==
    /\ "ftpreset" \in Requests
    /\ owner = "up" /\ cmd = "idle"
    /\ cmd' = "abort_scan"
    /\ scan' = client_list
    /\ UNCHANGED <<clientSide, reboot_quiesce_requested, seen_clients, seen_transfer, reset,
                   ctrl_aborted, data_aborted>>

\* ftpreset: ftpvita_abort_clients walks the list under the mutex.
AbortLock ==
    /\ "ftpreset" \in Requests
    /\ owner = "up" /\ cmd = "idle" /\ mtx = "free"
    /\ mtx' = "cmd"
    /\ cmd' = "abort_scan"
    /\ scan' = client_list
    /\ UNCHANGED <<ownerVars, serverVars, listVars, gateVars, seen_clients, seen_transfer,
                   reset, clientVars>>

HasDataSocketMutant(c) == FALSE
HasDataSocket(c) == data_con_type[c] # "none" \/ pc[c] = "setup"

\* Every open socket of the client is aborted, whatever data_con_type says.
AbortStep(c) ==
    /\ cmd = "abort_scan" /\ c \in scan
    /\ scan' = scan \ {c}
    /\ ctrl_aborted' = ctrl_aborted \cup {c}
    /\ data_aborted' = IF HasDataSocket(c) THEN data_aborted \cup {c} ELSE data_aborted
    /\ UNCHANGED <<clientSide, reboot_quiesce_requested, cmd, seen_clients, seen_transfer,
                   reset>>

AbortDone ==
    /\ cmd = "abort_scan" /\ scan = {}
    /\ cmd' = "idle"
    /\ mtx' = "free"
    /\ UNCHANGED <<ownerVars, serverVars, listVars, gateVars, seen_clients, seen_transfer,
                   scan, reset, clientVars>>

-----------------------------------------------------------------------------
OwnerNext == InitStart \/ InitReady \/ InitGiveUp \/ FiniStart \/ FiniJoinServer
             \/ FiniLock \/ FiniDetach \/ FiniDone
             \/ \E c \in Clients : FiniAbort(c) \/ FiniJoin(c)

ServerNext == ServerStartup \/ AcceptFails \/ ServerAdd \/ ServerStart \/ ServerStartFails
              \/ \E c \in Clients : AcceptClient(c)

\* Steps of a client thread that never block.
ClientRuns(c) == SetupDone(c) \/ BeginCheck(c) \/ BeginCas(c) \/ BeginRecheck(c)
                 \/ OpenFile(c) \/ StorePasv(c) \/ XferClose(c) \/ XferRelease(c)
                 \/ CloseAndExit(c)

\* Steps a client thread takes because of its peer.
PeerNext(c) == RecvSetup(c) \/ RecvTransfer(c) \/ RecvEnd(c) \/ OpenData(c)
               \/ XferPeer(c) \/ PeerVanishes(c)

\* Blocking calls that return by timeout or abort.
Wakes(c) == RecvWake(c) \/ OpenDataFails(c) \/ XferWake(c)

CmdRuns == RbTransfer \/ RbDecide \/ RbReset \/ AbortDone \/ \E c \in Clients : AbortStep(c)

Next ==
    \/ OwnerNext
    \/ ServerNext
    \/ RbCas \/ RbLock \/ AbortLock \/ CmdRuns
    \/ \E c \in Clients : ClientRuns(c) \/ PeerNext(c) \/ Wakes(c) \/ ListDelete(c)

Spec == Init /\ [][Next]_vars

(***************************************************************************)
(* Fairness.  Every thread runs at the same priority and blocks regularly, *)
(* so a step that stays enabled is taken.  client_list_mtx queues its      *)
(* waiters first come first served, so a thread that waits for it gets it  *)
(* although others keep taking it: strong fairness of the lock steps.      *)
(* Nothing is assumed of peers, of the operator or of the Wi-Fi link.      *)
(***************************************************************************)
ServerRuns == ServerStartup \/ ServerStart \/ (AcceptFails /\ server_sockfd = "closed")
OwnerRuns  == InitReady \/ InitGiveUp \/ FiniJoinServer \/ FiniDetach \/ FiniDone
              \/ \E c \in Clients : FiniAbort(c) \/ FiniJoin(c)

Fairness ==
    /\ WF_vars(ServerRuns) /\ SF_vars(ServerAdd)
    /\ WF_vars(OwnerRuns)  /\ SF_vars(FiniLock)
    /\ WF_vars(CmdRuns)    /\ SF_vars(RbLock)
    /\ \A c \in Clients : /\ WF_vars(ClientRuns(c))
                          /\ WF_vars(Wakes(c))
                          /\ SF_vars(ListDelete(c))

FairSpec == Spec /\ Fairness

\* The operator repeats ftpreset for as long as the server is up.
OperatorResets == SF_vars(AbortLock)

-----------------------------------------------------------------------------
(* Safety *)

Holds(c)   == pc[c] \in Section
Streams(c) == pc[c] \in {"opened", "xfer"}
Listed     == Started \cup {"ready"}

\* The list, the per-client flag and the counter agree, the counter respects
\* MAX_CLIENTS, and every client thread that has not left is either listed or
\* waiting to be joined: nothing leaks when admission, self-removal, failed
\* thread starts and teardown interleave (client_list_add/_delete/_thread_end).
ListConsistent ==
    /\ number_clients = Cardinality(client_list)
    /\ in_client_list = client_list \ joinset
    /\ \A c \in Clients : pc[c] \in Listed => c \in client_list \cup joinset
    /\ \A c \in client_list : pc[c] \in Listed

\* README SINGLE_FLIGHT: outside the join phase of teardown at most one client
\* holds the transfer gate, from its compare-and-swap to its release.
SingleFlight ==
    owner # "fini_wait" =>
        \A c, d \in Clients : Holds(c) /\ Holds(d) => c = d

\* At most one data connection carries data, teardown included, although
\* client_list_thread_end clears transfer_active under a running transfer: a
\* client let in by that finds its own data sockets aborted.
SingleStream == \A c, d \in Clients : Streams(c) /\ Streams(d) => c = d

\* The gate is never stuck: whenever transfer_active is set, some client thread
\* is on its way to release it (every error path of send_LIST, send_file and
\* receive_file included), and it is clear while the server is down.
GateNotLeaked ==
    /\ transfer_active = 1 => \E c \in Clients : Holds(c)
    /\ owner = "down" => transfer_active = 0

\* README SAFE_REBOOT: from the decision to reset on, while its guard is in
\* force, no client is admitted and no transfer runs.
SafeReboot ==
    cmd = "rb_reset" \/ reset = "accepted" =>
        /\ reboot_quiesce_requested = 1
        /\ client_list = {}
        /\ \A c \in Clients : ~Holds(c)

\* The reboot guard is never left set by a refused or failed reboot: it is set
\* only while a reboot is being decided or a reset has been accepted, so a
\* refusal cannot lock out clients and transfers for good.
GuardNotLeaked ==
    reboot_quiesce_requested = 1 =>
        cmd \in {"rb_lock", "rb_transfer", "rb_decide", "rb_reset"} \/ reset = "accepted"

\* client_list_mtx outlives its users: after ftpvita_fini (or a failed init)
\* deleted it, no thread can still come to lock it.
MutexOutlivesUsers ==
    mtx = "none" => /\ \A c \in Clients : pc[c] \notin Listed \cup {"accepted"}
                    /\ cmd = "idle" /\ server \in {"none", "ended"}

\* Every client thread object has exactly one deleter: one that will exit
\* without deleting itself is joined by ftpvita_fini, one that deletes itself
\* is not (comment at client_list_delete).
OneDeleter ==
    \A c \in Clients :
        /\ pc[c] \in {"close_det", "exited"} => c \in joinset
        /\ pc[c] \in {"free", "accepted", "close_own"} => c \notin joinset \cup client_list

\* No freed client is reachable: not from the walk of ftpreset, not from the
\* server thread, not from the list.
NoDanglingClient ==
    /\ scan \subseteq client_list
    /\ \A c \in client_list : pc[c] # "free"
    /\ cur # NoClient => pc[cur] \in {"accepted", "ready"}

-----------------------------------------------------------------------------
(* Action properties *)

\* A step that ends a thread's membership either is that client's own removal,
\* or leaves the client to the joiner; ftpvita_fini never drops a client that
\* it does not join.
NoClientDropped ==
    [][\A c \in client_list \ client_list' :
          pc'[c] \in {"close_own", "free"} \/ c \in joinset']_vars

-----------------------------------------------------------------------------
(* Liveness *)

Gone(c) == pc[c] \in {"free", "exited"}

\* README TIMED_IO: a client whose host vanished does not keep its thread.
AbandonedClientsLeave == \A c \in Clients : c \in silent ~> Gone(c)

\* README RECOVERABLE_CLIENTS: as long as the server stays up, ftpreset frees
\* every stranded client thread, untimed sockets included.
ResetRecovers ==
    <>[](owner = "up") => \A c \in Clients : c \in silent ~> Gone(c)

\* A peer that keeps a transfer going without end; no code can stop it when the
\* abort came between the accept and the store of its passive socket.
Endless(c) == pc[c] = "xfer" /\ c \notin silent

\* Teardown finishes: ftpvita_fini joins the server and every client although
\* clients are in the middle of commands, of transfers or of their own removal,
\* unless some peer transfers for ever.
FiniCompletes ==
    (\A c \in Clients : []<>~Endless(c)) => (owner = "fini_join" ~> owner = "down")

\* A reboot request is always answered and a refused one lifts its guard.
RebootAnswered == cmd = "rb_lock" ~> cmd = "idle"

-----------------------------------------------------------------------------
(* What comments and the README say and the code does not do *)

\* "Admit one data transfer at a time" (comment at client_begin_transfer): no
\* two clients are past a successful client_begin_transfer.
Admitted(c) == pc[c] \in Section \ {"recheck"}
AdmitsOneTransfer == \A c, d \in Clients : Admitted(c) /\ Admitted(d) => c = d
=============================================================================
