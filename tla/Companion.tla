----------------------------- MODULE Companion -----------------------------
(***************************************************************************)
(* The plugin's own life: module_start/module_stop (main.c), the network   *)
(* thread that follows the Wi-Fi link and alone starts and stops the two   *)
(* services (net.c), and the command thread with its socket slots (cmd.c). *)
(* libftpvita appears as "up" or "down" and as a user of socket            *)
(* descriptors (its inside is FtpServer); descriptors are reused by the    *)
(* kernel as soon as they are closed.                                      *)
(***************************************************************************)
EXTENDS Naturals, Sequences, FiniteSets

CONSTANTS
    Fds,        \* socket descriptors
    NoFd,       \* an empty slot (-1)
    MaxEvents,  \* bound on link events waiting for their callback
    Faults      \* "start_timeout": the 2 s start wait may expire;
                \* "getstate": sceNetCtlInetGetState may fail

ASSUME FdsAssumption == IsFiniteSet(Fds) /\ NoFd \notin Fds
ASSUME BoundAssumption == MaxEvents \in Nat
ASSUME FaultsAssumption == Faults \subseteq {"start_timeout", "getstate"}

VARIABLES
    main, run,
    state, events, registered,     \* link state, queued callbacks, netctl_cb live
    missed,                        \* history: the latest state query failed, no event since
    desired_connected, all_is_up, net_connected,
    net,                           \* where the network thread is
    ftp,                           \* libftpvita between ftpvita_init and _fini
    loader_thid, loader_start_status,
    ret,                           \* cmd_start's local: the result of an undone start;
                                   \* kept until the next start
    loader_sockfd, active_client_sockfd,   \* the two shared slots
    cmd, client_sockfd,            \* where the command thread is; its local
    sock                           \* the kernel: what each descriptor is

linkVars == <<state, events, registered, missed>>
cmdVars  == <<cmd, client_sockfd, active_client_sockfd, loader_start_status>>
slotVars == <<loader_sockfd, sock>>
netVars  == <<desired_connected, all_is_up, net_connected, ftp, loader_thid, ret>>
vars == <<main, run, linkVars, net, netVars, cmdVars, slotVars>>

NetPcs == {"init", "register", "resample", "loop", "ftp_init", "cmd_create", "cmd_wait",
           "undo_read", "undo_close", "undo_join", "undo_fini", "stop_loader", "stop_client",
           "stop_join", "stop_fini", "exited"}
CmdPcs == {"none", "socket", "bind", "check", "accept", "store", "receive", "exec", "send",
           "close_client", "exit_client", "exit_loader", "ended"}
Slots  == Fds \cup {NoFd}

\* Every variable has its type.
TypeOK ==
    /\ main \in {"running", "stopping", "stopped"} /\ run \in BOOLEAN
    /\ state \in {"up", "down"}
    /\ events \in Seq({"up", "down"}) /\ Len(events) <= MaxEvents
    /\ registered \in BOOLEAN /\ missed \in BOOLEAN
    /\ desired_connected \in BOOLEAN /\ all_is_up \in BOOLEAN /\ net_connected \in BOOLEAN
    /\ net \in NetPcs /\ cmd \in CmdPcs
    /\ ftp \in {"up", "down"} /\ loader_thid \in BOOLEAN
    /\ loader_start_status \in {"pending", "ok", "failed"} /\ ret \in {"ok", "failed"}
    /\ loader_sockfd \in Slots /\ active_client_sockfd \in Slots /\ client_sockfd \in Slots
    /\ sock \in [Fds -> {"free", "loader", "client", "ftp"}]

\* After module_start: run is set and the network thread is started.
Init ==
    /\ main = "running" /\ run = TRUE
    /\ state \in {"up", "down"} /\ events = << >> /\ registered = FALSE
    /\ missed = FALSE /\ desired_connected = FALSE /\ all_is_up = FALSE /\ net_connected = FALSE
    /\ net = "init" /\ ftp = "down"
    /\ loader_thid = FALSE /\ loader_start_status = "pending" /\ ret = "failed"
    /\ loader_sockfd = NoFd /\ active_client_sockfd = NoFd
    /\ cmd = "none" /\ client_sockfd = NoFd
    /\ sock = [f \in Fds |-> "free"]

-----------------------------------------------------------------------------
(* Sockets *)

Free == {f \in Fds : sock[f] = "free"}

\* The kernel closes descriptor f, whatever it is by now.
Closed(f) == [sock EXCEPT ![f] = "free"]

\* close_socket_slot: an atomic exchange, then a close if there was one.
CloseLoader ==
    /\ loader_sockfd' = NoFd
    /\ sock' = IF loader_sockfd # NoFd THEN Closed(loader_sockfd) ELSE sock

CloseActive ==
    /\ active_client_sockfd' = NoFd
    /\ sock' = IF active_client_sockfd # NoFd THEN Closed(active_client_sockfd) ELSE sock

-----------------------------------------------------------------------------
(* main.c and the link *)

\* module_stop: run = 0, then net_end waits for the network thread.
ModuleStop ==
    /\ main = "running"
    /\ main' = "stopping" /\ run' = FALSE
    /\ UNCHANGED <<linkVars, net, netVars, cmdVars, slotVars>>

NetEnd ==
    /\ main = "stopping" /\ net = "exited"
    /\ main' = "stopped"
    /\ UNCHANGED <<run, linkVars, net, netVars, cmdVars, slotVars>>

\* The link comes up or goes down; a live callback is queued.
LinkChanges ==
    /\ Len(events) < MaxEvents
    /\ main # "stopped"
    /\ state' \in {"up", "down"} \ {state}
    /\ events' = IF registered THEN Append(events, state') ELSE events
    /\ UNCHANGED <<main, run, registered, missed, net, netVars, cmdVars, slotVars>>

-----------------------------------------------------------------------------
(* The network thread *)

\* sceNetCtlInetGetState; a failed query counts as disconnected.
Sample ==
    \/ desired_connected' = (state = "up") /\ missed' = FALSE
    \/ "getstate" \in Faults /\ desired_connected' = FALSE /\ missed' = TRUE

\* sceNetCtlInit and the first sample, or the thread gives up.
NetInit ==
    /\ net = "init"
    /\ \/ net' = "register" /\ Sample
       \/ net' = "exited" /\ UNCHANGED <<desired_connected, missed>>
    /\ UNCHANGED <<main, run, state, events, registered, all_is_up, net_connected, ftp, loader_thid, ret,
                   cmdVars, slotVars>>

Register ==
    /\ net = "register"
    /\ \/ net' = "resample" /\ registered' = TRUE
       \/ net' = "exited" /\ UNCHANGED registered
    /\ UNCHANGED <<main, run, state, events, missed, netVars, cmdVars, slotVars>>

ResampleMutant ==
    /\ net = "resample"
    /\ net' = "loop"
    /\ UNCHANGED <<main, run, linkVars, netVars, cmdVars, slotVars>>

Resample ==
    /\ net = "resample"
    /\ net' = "loop"
    /\ Sample
    /\ UNCHANGED <<main, run, state, events, registered, all_is_up, net_connected, ftp, loader_thid, ret,
                   cmdVars, slotVars>>

\* sceNetCtlCheckCallback runs netctl_cb for some of the queued events, in order.
Delivered(n) ==
    /\ events' = SubSeq(events, n + 1, Len(events))
    /\ desired_connected' = IF n = 0 THEN desired_connected ELSE events[n] = "up"
    /\ missed' = (missed /\ n = 0)

\* One round of the loop of net_thread, up to the call it decides on.
Poll ==
    /\ net = "loop" /\ run
    /\ \E n \in 0..Len(events) : (events # << >> => n > 0) /\ Delivered(n)
    /\ \/ desired_connected' /\ ~all_is_up /\ net' = "ftp_init" /\ UNCHANGED net_connected
       \/ ~desired_connected' /\ all_is_up /\ net' = "stop_loader" /\ net_connected' = FALSE
       \/ desired_connected' = all_is_up /\ UNCHANGED <<net, net_connected>>
    /\ UNCHANGED <<main, run, state, registered, all_is_up, ftp, loader_thid, ret,
                   cmdVars, slotVars>>

\* The loop is over: stop_services, then unregister and leave.
LeaveLoop ==
    /\ net = "loop" /\ ~run
    /\ net_connected' = FALSE
    /\ \/ all_is_up  /\ net' = "stop_loader" /\ UNCHANGED <<registered, events>>
       \/ ~all_is_up /\ net' = "exited" /\ registered' = FALSE /\ events' = << >>
    /\ UNCHANGED <<main, run, state, missed, desired_connected, all_is_up, ftp, loader_thid,
                   ret, cmdVars, slotVars>>

\* start_services: ftpvita_init; net_connected is set before cmd_start.
StartFtp ==
    /\ net = "ftp_init"
    /\ \/ net' = "cmd_create" /\ ftp' = "up" /\ net_connected' = TRUE
       \/ net' = "loop" /\ UNCHANGED <<ftp, net_connected>>
    /\ UNCHANGED <<main, run, linkVars, desired_connected, all_is_up, loader_thid, ret, cmdVars,
                   slotVars>>

\* cmd_start up to the wait; its early return for a live thread never applies
\* (OneCommandThread).
CmdCreate ==
    /\ net = "cmd_create"
    /\ loader_start_status' = "pending" /\ ret' = "failed"
    /\ \/ /\ net' = "cmd_wait" /\ loader_thid' = TRUE /\ cmd' = "socket"
          /\ UNCHANGED net_connected
       \/ /\ net' = "undo_fini" /\ net_connected' = FALSE
          /\ UNCHANGED <<loader_thid, cmd>>
    /\ UNCHANGED <<main, run, linkVars, desired_connected, all_is_up, ftp, client_sockfd,
                   active_client_sockfd, slotVars>>

CmdWaitMutant ==
    /\ net = "cmd_wait"
    /\ \/ /\ \/ loader_start_status = "ok"
             \/ loader_start_status = "pending" /\ "start_timeout" \in Faults
          /\ net' = "loop" /\ all_is_up' = TRUE
       \/ loader_start_status = "failed" /\ net' = "undo_read" /\ UNCHANGED all_is_up
    /\ UNCHANGED <<main, run, linkVars, desired_connected, net_connected, ftp, loader_thid,
                   ret, cmdVars, slotVars>>

\* The wait ends with a status or by time-out, and the status is tested once more.
CmdWait ==
    /\ net = "cmd_wait"
    /\ \/ loader_start_status = "ok" /\ net' = "loop" /\ all_is_up' = TRUE
       \/ /\ \/ loader_start_status = "failed"
             \/ loader_start_status = "pending" /\ "start_timeout" \in Faults
          /\ net' = "undo_read" /\ UNCHANGED all_is_up
    /\ UNCHANGED <<main, run, linkVars, desired_connected, net_connected, ftp, loader_thid,
                   ret, cmdVars, slotVars>>

\* The result of the undone start is read from the status again: the thread may
\* have stored 0 since the test.
UndoRead ==
    /\ net = "undo_read"
    /\ net' = "undo_close"
    /\ ret' = IF loader_start_status = "ok" THEN "ok" ELSE "failed"
    /\ UNCHANGED <<main, run, linkVars, desired_connected, all_is_up, net_connected, ftp,
                   loader_thid, cmdVars, slotVars>>

\* The start is undone: close the listener, join the thread, and, if its result
\* is a failure, shut libftpvita down.
UndoClose ==
    /\ net = "undo_close"
    /\ net' = "undo_join"
    /\ CloseLoader
    /\ UNCHANGED <<main, run, linkVars, netVars, cmdVars>>

\* sceKernelWaitThreadEnd returns.
Joined == cmd = "ended"

\* cmd_start returns ret; start_services takes a 0 for a running service.
UndoJoin ==
    /\ net = "undo_join" /\ Joined
    /\ loader_thid' = FALSE /\ cmd' = "none"
    /\ \/ ret = "ok" /\ net' = "loop" /\ all_is_up' = TRUE /\ UNCHANGED net_connected
       \/ ret # "ok" /\ net' = "undo_fini" /\ net_connected' = FALSE /\ UNCHANGED all_is_up
    /\ UNCHANGED <<main, run, linkVars, desired_connected, ftp, ret, client_sockfd,
                   active_client_sockfd, loader_start_status, slotVars>>

\* ftpvita_fini closes whatever libftpvita still has open.
FtpFini == ftp' = "down" /\ sock' = [f \in Fds |-> IF sock[f] = "ftp" THEN "free" ELSE sock[f]]

UndoFini ==
    /\ net = "undo_fini"
    /\ net' = "loop"
    /\ FtpFini
    /\ UNCHANGED <<main, run, linkVars, desired_connected, all_is_up, net_connected,
                   loader_thid, ret, cmdVars, loader_sockfd>>

StopLoaderMutant ==
    /\ net = "stop_loader"
    /\ net' = "stop_client"
    /\ UNCHANGED <<main, run, linkVars, netVars, cmdVars, slotVars>>

\* stop_services: cmd_end closes both slots and joins, then ftpvita_fini.
StopLoader ==
    /\ net = "stop_loader"
    /\ net' = "stop_client"
    /\ CloseLoader
    /\ UNCHANGED <<main, run, linkVars, netVars, cmdVars>>

StopClientMutant ==
    /\ net = "stop_client"
    /\ net' = "stop_join"
    /\ CloseActive
    /\ ftp' = "down"
    /\ UNCHANGED <<main, run, linkVars, desired_connected, all_is_up, net_connected,
                   loader_thid, ret, cmd, client_sockfd, loader_start_status, loader_sockfd>>

StopClient ==
    /\ net = "stop_client"
    /\ net' = "stop_join"
    /\ CloseActive
    /\ UNCHANGED <<main, run, linkVars, netVars, cmd, client_sockfd, loader_start_status,
                   loader_sockfd>>

\* cmd_end joins a thread if there is one.
StopJoin ==
    /\ net = "stop_join" /\ (loader_thid => Joined)
    /\ net' = "stop_fini"
    /\ loader_thid' = FALSE /\ cmd' = "none"
    /\ UNCHANGED <<main, run, linkVars, desired_connected, all_is_up, net_connected, ftp,
                   ret, client_sockfd, active_client_sockfd, loader_start_status, slotVars>>

StopFini ==
    /\ net = "stop_fini"
    /\ net' = "loop"
    /\ FtpFini
    /\ all_is_up' = FALSE
    /\ UNCHANGED <<main, run, linkVars, desired_connected, net_connected, loader_thid,
                   ret, cmdVars, loader_sockfd>>

-----------------------------------------------------------------------------
(* The command thread *)

cmdFrame == <<main, run, linkVars, net, netVars>>

CmdGoto(from, to) == cmd = from /\ cmd' = to

CmdSocket ==
    /\ \/ /\ CmdGoto("socket", "bind")
          /\ \E f \in Free : loader_sockfd' = f /\ sock' = [sock EXCEPT ![f] = "loader"]
          /\ UNCHANGED loader_start_status
       \/ /\ CmdGoto("socket", "exit_client")
          /\ loader_start_status' = "failed" /\ loader_sockfd' = NoFd
          /\ UNCHANGED sock
    /\ UNCHANGED <<cmdFrame, client_sockfd, active_client_sockfd>>

\* Bind and listen; the slot may have been emptied by then.
CmdBind ==
    /\ \/ CmdGoto("bind", "check") /\ loader_sockfd # NoFd /\ loader_start_status' = "ok"
       \/ CmdGoto("bind", "exit_client") /\ loader_start_status' = "failed"
    /\ UNCHANGED <<cmdFrame, client_sockfd, active_client_sockfd, slotVars>>

\* while (run && net_connected)
CmdCheck ==
    /\ \/ CmdGoto("check", "accept") /\ run /\ net_connected
       \/ CmdGoto("check", "exit_client") /\ ~(run /\ net_connected)
    /\ UNCHANGED <<cmdFrame, client_sockfd, active_client_sockfd, loader_start_status,
                   slotVars>>

CmdAccept ==
    /\ CmdGoto("accept", "store")
    /\ loader_sockfd # NoFd
    /\ \E f \in Free : client_sockfd' = f /\ sock' = [sock EXCEPT ![f] = "client"]
    /\ UNCHANGED <<cmdFrame, active_client_sockfd, loader_start_status, loader_sockfd>>

\* Any error of sceNetAccept, a closed listener among them, ends the thread.
CmdAcceptFails ==
    /\ CmdGoto("accept", "exit_client")
    /\ UNCHANGED <<cmdFrame, client_sockfd, active_client_sockfd, loader_start_status,
                   slotVars>>

\* Only now is the client's descriptor where cmd_end can see it.
CmdStore ==
    /\ CmdGoto("store", "receive")
    /\ active_client_sockfd' = client_sockfd
    /\ UNCHANGED <<cmdFrame, client_sockfd, loader_start_status, slotVars>>

\* Configure the time-out and receive.  The thread works on its local copy of
\* the descriptor: once cmd_end closed it, the call fails or finds whoever has
\* the descriptor now.
CmdReceive ==
    /\ \/ CmdGoto("receive", "exec") /\ sock[client_sockfd] # "free"
       \/ CmdGoto("receive", "send")
    /\ UNCHANGED <<cmdFrame, client_sockfd, active_client_sockfd, loader_start_status,
                   slotVars>>

\* cmd_handle runs the command, if it is one.
CmdExec ==
    /\ CmdGoto("exec", "send")
    /\ UNCHANGED <<cmdFrame, client_sockfd, active_client_sockfd, loader_start_status,
                   slotVars>>

\* The reply, or the error, is sent as far as the peer takes it.
CmdSend ==
    /\ CmdGoto("send", "close_client")
    /\ UNCHANGED <<cmdFrame, client_sockfd, active_client_sockfd, loader_start_status,
                   slotVars>>

CmdCloseClient ==
    /\ CmdGoto("close_client", "check")
    /\ CloseActive
    /\ client_sockfd' = NoFd
    /\ UNCHANGED <<cmdFrame, loader_start_status, loader_sockfd>>

CmdExitClient ==
    /\ CmdGoto("exit_client", "exit_loader")
    /\ CloseActive
    /\ UNCHANGED <<cmdFrame, client_sockfd, loader_start_status, loader_sockfd>>

CmdExitLoaderMutant ==
    /\ CmdGoto("exit_loader", "ended")
    /\ UNCHANGED <<cmdFrame, client_sockfd, active_client_sockfd, loader_start_status,
                   slotVars>>

CmdExitLoader ==
    /\ CmdGoto("exit_loader", "ended")
    /\ CloseLoader
    /\ UNCHANGED <<cmdFrame, client_sockfd, active_client_sockfd, loader_start_status>>

-----------------------------------------------------------------------------
\* libftpvita opens and closes sockets of its own; it leaves two descriptors to
\* the command server.
FtpSockets ==
    /\ ftp = "up"
    /\ \/ /\ Cardinality({f \in Fds : sock[f] = "ftp"}) + 2 < Cardinality(Fds)
          /\ \E f \in Free : sock' = [sock EXCEPT ![f] = "ftp"]
       \/ \E f \in Fds : sock[f] = "ftp" /\ sock' = Closed(f)
    /\ UNCHANGED <<cmdFrame, cmdVars, loader_sockfd>>

NetNext == NetInit \/ Register \/ Resample \/ Poll \/ LeaveLoop \/ StartFtp \/ CmdCreate
           \/ CmdWait \/ UndoRead \/ UndoClose \/ UndoJoin \/ UndoFini \/ StopLoader \/ StopClient
           \/ StopJoin \/ StopFini

\* Steps of the command thread that return by themselves: its sockets are
\* timed, and one that cannot be timed is not read from.
CmdRuns == CmdSocket \/ CmdBind \/ CmdCheck \/ CmdStore \/ CmdReceive \/ CmdExec
           \/ CmdSend \/ CmdCloseClient \/ CmdExitClient \/ CmdExitLoader

Next == ModuleStop \/ NetEnd \/ LinkChanges \/ NetNext \/ CmdRuns \/ CmdAccept
        \/ CmdAcceptFails \/ FtpSockets

Spec == Init /\ [][Next]_vars

\* Both threads run.  A closed listener ends a blocked accept.
FairSpec ==
    /\ Spec
    /\ WF_vars(NetNext) /\ WF_vars(NetEnd)
    /\ WF_vars(CmdRuns) /\ WF_vars(CmdAcceptFails /\ loader_sockfd = NoFd)

-----------------------------------------------------------------------------
(* Safety *)

\* Commands run only on a live libftpvita: neither a start that failed half way
\* nor a stop pulls it away under reboot, ftpreset or ftpstatus (order of
\* start_services and stop_services).  FtpServer relies on it.
CommandsRunOnLiveFtp == cmd \notin {"none", "ended"} => ftp = "up"

\* One command thread at most, and cmd_start never meets one from before: every
\* stop and every undone start joined it, and a thread that outlives a round of
\* the loop is one that stop_services will stop.
OneCommandThread ==
    /\ loader_thid <=> cmd # "none"
    /\ net \in {"ftp_init", "cmd_create", "undo_fini", "stop_fini", "exited"} => ~loader_thid
    /\ net = "loop" /\ loader_thid => all_is_up

\* README: "verifies that the command listener has successfully bound before
\* reporting the service as available": between two polls, services that count
\* as up have a command thread, and that thread has bound its listener, however
\* its start interleaves with the wait and the time-out of cmd_start.  What is
\* excepted is the success that cmd_start reads after its test has failed: it
\* then undoes the start and reports it all the same.
ListenerVerified ==
    net = "loop" /\ all_is_up /\ ret # "ok" => loader_thid /\ loader_start_status = "ok"

\* What a slot names is the command server's own socket, although descriptors
\* are reused at once and both threads close through the slots: nobody's
\* socket is closed twice or by the wrong owner (close_socket_slot).
SlotsOwnTheirSockets ==
    /\ loader_sockfd # NoFd => sock[loader_sockfd] = "loader"
    /\ active_client_sockfd # NoFd => sock[active_client_sockfd] = "client"

\* No socket of the command server is left behind: every one is in its slot or
\* in the hands of the running thread, so a server that is down has none.
NoSocketLeak ==
    \A f \in Fds :
        /\ sock[f] = "loader" => f = loader_sockfd
        /\ sock[f] = "client" => f = active_client_sockfd \/ (cmd = "store" /\ f = client_sockfd)
        /\ cmd \in {"none", "ended"} => sock[f] \notin {"loader", "client"}

\* Every socket of the command server has one owner, and only its own ones are
\* named by its slots: the two properties above, over all interleavings of the
\* two threads that close through the slots.
SocketOwnership == SlotsOwnTheirSockets /\ NoSocketLeak

\* While it talks to a client the command thread has that client's descriptor,
\* until cmd_end takes it away: only a stop can make it use a closed or reused
\* descriptor.
OnlyStopTakesClient ==
    cmd \in {"store", "receive", "exec", "send"} /\ sock[client_sockfd] # "client" =>
        net = "stop_join"

\* The network thread's wish is the state of the link once the queued callbacks
\* have run, however link changes, the two state queries and the registration
\* interleave (comment in net_thread: "A transition during registration is
\* represented by either this state or the queued callback"); only a failed
\* query with no event after it leaves a wrong one.
LinkViewCurrent ==
    registered /\ net # "resample" /\ ~missed =>
        ((state = "up") <=> (IF events = << >> THEN desired_connected
                             ELSE events[Len(events)] = "up"))

-----------------------------------------------------------------------------
(* Liveness *)

\* cmd_start gave up waiting for a thread that is still starting.
StartTimedOut == net = "undo_read" /\ loader_start_status = "pending"

\* The thread of a start that timed out created its listener after cmd_start had
\* closed the slot.
LateListener == net = "undo_join" /\ loader_sockfd # NoFd

\* module_stop returns: whatever the link and the command clients do, the
\* network thread gets out of its loop with both services stopped.  The one
\* exception is a listener created too late: the join waits for an accept that
\* nobody ends.
StopCompletes ==
    \/ <>LateListener
    \/ main = "stopping" ~> (main = "stopped" /\ ftp = "down" /\ ~loader_thid)

\* A start of the services fails.
StartFails ==
    \/ net \in {"ftp_init", "cmd_create"} /\ net' \in {"loop", "undo_fini"}
    \/ net = "cmd_wait" /\ net' = "undo_read"

\* README: "resamples network state after callback registration, closing the
\* state-query/registration race": a link that stays up gets its services, with
\* the command thread, if starts stop failing some time (and none timed out: its
\* join may not return, or its late success be taken for a running service) and
\* the query was answered or an event came after it; a link that stays down
\* loses them.
LinkFollowed ==
    /\ \/ <>StartTimedOut
       \/ <>[](state = "up" /\ run /\ ~missed) /\ <>[][~StartFails]_vars =>
             <>[](all_is_up /\ loader_thid) \/ <>[](net = "exited")
    /\ <>[](state = "down" /\ run) => <>[]~all_is_up
=============================================================================
