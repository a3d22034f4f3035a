-------------------------- MODULE CompanionProofs --------------------------
(***************************************************************************)
(* The safety properties of Companion hold for every set of descriptors,   *)
(* with every fault: start time-outs and failing link queries included.    *)
(***************************************************************************)
EXTENDS Companion, TLAPS

USE FdsAssumption DEF linkVars, cmdVars, slotVars, netVars, cmdFrame, Slots

\* The part of the types the argument needs.
CoreType ==
    /\ all_is_up \in BOOLEAN /\ net_connected \in BOOLEAN /\ loader_thid \in BOOLEAN
    /\ net \in NetPcs /\ cmd \in CmdPcs
    /\ ftp \in {"up", "down"}
    /\ loader_sockfd \in Slots /\ active_client_sockfd \in Slots /\ client_sockfd \in Slots
    /\ sock \in [Fds -> {"free", "loader", "client", "ftp"}]

Stopping == {"stop_loader", "stop_client", "stop_join"}
Undoing  == {"cmd_wait", "undo_read", "undo_close", "undo_join"}

\* The network thread's position says what is up; a start undone with a late
\* success leaves all_is_up without a thread.
PhaseInv ==
    /\ all_is_up => net \in Stopping \cup {"loop", "stop_fini"}
    /\ net \in Stopping \cup {"stop_fini"} => all_is_up
    /\ loader_thid => net \in Stopping \cup Undoing \/ (net = "loop" /\ all_is_up)
    /\ net \in Undoing => loader_thid
    /\ loader_thid <=> cmd # "none"
    /\ loader_thid \/ net = "cmd_create" => ftp = "up"

Serving == {"receive", "exec", "send", "close_client"}

\* Who has which socket.
LoaderInv ==
    /\ loader_sockfd # NoFd => sock[loader_sockfd] = "loader"
    /\ \A f \in Fds : sock[f] = "loader" => f = loader_sockfd
    /\ cmd \in {"none", "socket", "ended"} => loader_sockfd = NoFd

ClientInv ==
    /\ active_client_sockfd # NoFd =>
          /\ cmd \in Serving
          /\ active_client_sockfd = client_sockfd
          /\ sock[active_client_sockfd] = "client"
    /\ \A f \in Fds : sock[f] = "client" =>
          f = active_client_sockfd \/ (cmd = "store" /\ f = client_sockfd)
    /\ cmd = "store" => client_sockfd \in Fds /\ sock[client_sockfd] = "client"
    /\ cmd \in Serving /\ active_client_sockfd = NoFd => net = "stop_join"

Inv == CoreType /\ PhaseInv /\ LoaderInv /\ ClientInv

\* The invariant holds when module_start returns.
LEMMA InitInv == Init => Inv
  BY DEF Init, Inv, CoreType, NetPcs, CmdPcs, PhaseInv, LoaderInv, ClientInv, Stopping,
         Undoing, Serving

\* The steps of the network thread keep it: it takes a client's socket away only
\* on its way to the join, and lets go of the thread only once it has ended.
LEMMA NetStep == Inv /\ NetNext => Inv'
<1> SUFFICES ASSUME Inv, NetNext PROVE Inv'
  OBVIOUS
<1> USE DEF Inv, CoreType, PhaseInv, LoaderInv, ClientInv, Stopping, Undoing, Serving,
            NetPcs, CmdPcs
<1>1. CASE NetInit
  BY <1>1 DEF NetInit
<1>2. CASE Register
  BY <1>2 DEF Register
<1>3. CASE Resample
  BY <1>3 DEF Resample
<1>4. CASE Poll
  BY <1>4 DEF Poll
<1>5. CASE LeaveLoop
  BY <1>5 DEF LeaveLoop
<1>6. CASE StartFtp
  BY <1>6 DEF StartFtp
<1>7. CASE CmdCreate
  <2>1. ~loader_thid /\ ~all_is_up /\ cmd = "none" /\ ftp = "up"
    BY <1>7 DEF CmdCreate
  <2>2. CASE net' = "cmd_wait" /\ loader_thid' = TRUE /\ cmd' = "socket"
    BY <1>7, <2>1, <2>2 DEF CmdCreate
  <2>3. CASE net' = "undo_fini" /\ UNCHANGED <<loader_thid, cmd>>
    BY <1>7, <2>1, <2>3 DEF CmdCreate
  <2> QED
    BY <1>7, <2>2, <2>3 DEF CmdCreate
<1>8. CASE CmdWait
  <2>1. loader_thid /\ ~all_is_up /\ ftp = "up" /\ cmd # "none"
    BY <1>8 DEF CmdWait
  <2>2. CASE net' = "loop" /\ all_is_up' = TRUE
    BY <1>8, <2>1, <2>2 DEF CmdWait
  <2>3. CASE net' = "undo_read" /\ UNCHANGED all_is_up
    BY <1>8, <2>1, <2>3 DEF CmdWait
  <2> QED
    BY <1>8, <2>2, <2>3 DEF CmdWait
<1>9. CASE UndoClose
  BY <1>9 DEF UndoClose, CloseLoader, Closed
<1>10. CASE UndoJoin
  <2>1. loader_thid' = FALSE /\ cmd' = "none" /\ ~all_is_up /\ cmd = "ended"
    BY <1>10 DEF UndoJoin, Joined
  <2>2. CASE net' = "loop" /\ all_is_up' = TRUE /\ UNCHANGED net_connected
    BY <1>10, <2>1, <2>2 DEF UndoJoin
  <2>3. CASE net' = "undo_fini" /\ net_connected' = FALSE /\ UNCHANGED all_is_up
    BY <1>10, <2>1, <2>3 DEF UndoJoin
  <2> QED
    BY <1>10, <2>2, <2>3 DEF UndoJoin
<1>11. CASE UndoFini
  BY <1>11 DEF UndoFini, FtpFini
<1>12. CASE StopLoader
  BY <1>12 DEF StopLoader, CloseLoader, Closed
<1>13. CASE StopClient
  BY <1>13 DEF StopClient, CloseActive, Closed
<1>14. CASE StopJoin
  BY <1>14 DEF StopJoin, Joined
<1>15. CASE StopFini
  BY <1>15 DEF StopFini, FtpFini
<1>16. CASE UndoRead
  BY <1>16 DEF UndoRead
<1> QED
  BY <1>1, <1>2, <1>3, <1>4, <1>5, <1>6, <1>7, <1>8, <1>9, <1>10, <1>11, <1>12, <1>13,
     <1>14, <1>15, <1>16 DEF NetNext

\* The steps of the command thread keep it: what it opens it stores, and what it
\* closes it takes out of the slot first.
LEMMA CmdStep == Inv /\ (CmdRuns \/ CmdAccept \/ CmdAcceptFails) => Inv'
<1> SUFFICES ASSUME Inv, CmdRuns \/ CmdAccept \/ CmdAcceptFails PROVE Inv'
  OBVIOUS
<1> USE DEF Inv, CoreType, PhaseInv, LoaderInv, ClientInv, Stopping, Undoing, Serving,
            NetPcs, CmdPcs, CmdGoto
<1>1. CASE CmdSocket
  BY <1>1 DEF CmdSocket, Free
<1>2. CASE CmdBind
  BY <1>2 DEF CmdBind
<1>3. CASE CmdCheck
  BY <1>3 DEF CmdCheck
<1>4. CASE CmdStore
  BY <1>4 DEF CmdStore
<1>5. CASE CmdReceive
  BY <1>5 DEF CmdReceive
<1>6. CASE CmdExec
  BY <1>6 DEF CmdExec
<1>7. CASE CmdCloseClient
  BY <1>7 DEF CmdCloseClient, CloseActive, Closed
<1>8. CASE CmdExitClient
  BY <1>8 DEF CmdExitClient, CloseActive, Closed
<1>9. CASE CmdExitLoader
  BY <1>9 DEF CmdExitLoader, CloseLoader, Closed
<1>10. CASE CmdAccept
  BY <1>10 DEF CmdAccept, Free
<1>11. CASE CmdAcceptFails
  BY <1>11 DEF CmdAcceptFails
<1>12. CASE CmdSend
  BY <1>12 DEF CmdSend
<1> QED
  BY <1>1, <1>2, <1>3, <1>4, <1>5, <1>6, <1>7, <1>8, <1>9, <1>10, <1>11, <1>12 DEF CmdRuns

\* Nothing else touches the command server's sockets; libftpvita only takes
\* descriptors that are free and closes its own.
LEMMA OtherStep ==
  Inv /\ (ModuleStop \/ NetEnd \/ LinkChanges \/ FtpSockets \/ UNCHANGED vars) => Inv'
<1> SUFFICES ASSUME Inv, ModuleStop \/ NetEnd \/ LinkChanges \/ FtpSockets \/ UNCHANGED vars
             PROVE Inv'
  OBVIOUS
<1> USE DEF Inv, CoreType, PhaseInv, LoaderInv, ClientInv
<1>1. CASE ModuleStop
  BY <1>1 DEF ModuleStop
<1>2. CASE NetEnd
  BY <1>2 DEF NetEnd
<1>3. CASE LinkChanges
  BY <1>3 DEF LinkChanges
<1>4. CASE FtpSockets
  <2>1. PICK f \in Fds : \/ sock[f] = "free" /\ sock' = [sock EXCEPT ![f] = "ftp"]
                         \/ sock[f] = "ftp" /\ sock' = [sock EXCEPT ![f] = "free"]
    BY <1>4 DEF FtpSockets, Free, Closed
  <2> QED
    BY <1>4, <2>1 DEF FtpSockets
<1>5. CASE UNCHANGED vars
  BY <1>5 DEF vars
<1> QED
  BY <1>1, <1>2, <1>3, <1>4, <1>5

\* Inv holds in every reachable state.
THEOREM Invariance == Spec => []Inv
<1>1. Init => Inv
  BY InitInv
<1>2. Inv /\ [Next]_vars => Inv'
  BY NetStep, CmdStep, OtherStep DEF Next
<1> QED
  BY <1>1, <1>2, PTL DEF Spec

-----------------------------------------------------------------------------
(* Types, and what the network thread knows of the link. *)

LinkType ==
    /\ main \in {"running", "stopping", "stopped"} /\ run \in BOOLEAN
    /\ state \in {"up", "down"}
    /\ events \in Seq({"up", "down"}) /\ Len(events) <= MaxEvents
    /\ registered \in BOOLEAN /\ missed \in BOOLEAN /\ desired_connected \in BOOLEAN
    /\ loader_start_status \in {"pending", "ok", "failed"} /\ ret \in {"ok", "failed"}

\* Callbacks are queued once the callback is registered, and the youngest one
\* says how the link is.
QueueInv ==
    /\ registered => net \notin {"init", "register"}
    /\ events # << >> => registered /\ events[Len(events)] = state

\* With none queued, the thread knows.
KnownInv ==
    registered /\ net # "resample" /\ ~missed /\ events = << >> =>
        (desired_connected <=> state = "up")

LinkInv == LinkType /\ QueueInv /\ KnownInv

\* The steps that touch neither link nor wish keep LinkInv.
LEMMA LinkFrame ==
  ASSUME LinkInv, UNCHANGED <<linkVars, desired_connected>>,
         main' \in {"running", "stopping", "stopped"}, run' \in BOOLEAN,
         loader_start_status' \in {"pending", "ok", "failed"}, ret' \in {"ok", "failed"},
         net' # net => net \notin {"init", "register", "resample"}
                       /\ net' \notin {"init", "register", "resample"}
  PROVE  LinkInv'
  BY DEF LinkInv, LinkType, QueueInv, KnownInv

\* What is left of a sequence when a part of its front is taken away.
LEMMA Suffix ==
  ASSUME NEW S, NEW q \in Seq(S), NEW n \in 1..Len(q)
  PROVE  /\ SubSeq(q, n + 1, Len(q)) \in Seq(S)
         /\ Len(SubSeq(q, n + 1, Len(q))) = Len(q) - n
         /\ n = Len(q) => SubSeq(q, n + 1, Len(q)) = << >>
         /\ n < Len(q) => LET r == SubSeq(q, n + 1, Len(q)) IN r # << >> /\ r[Len(r)] = q[Len(q)]
<1> DEFINE r == SubSeq(q, n + 1, Len(q))
<1>1. r \in Seq(S) /\ Len(r) = Len(q) - n
  OBVIOUS
<1>2. \A i \in 1..(Len(q) - n) : r[i] = q[n + i]
  OBVIOUS
<1> HIDE DEF r
<1>3. ASSUME n < Len(q) PROVE r # << >> /\ r[Len(r)] = q[Len(q)]
  <2>1. Len(q) - n \in 1..(Len(q) - n) /\ n + (Len(q) - n) = Len(q)
    BY <1>3
  <2>2. r[Len(q) - n] = q[n + (Len(q) - n)]
    BY <1>2, <2>1
  <2>3. r # << >>
    BY <1>1, <1>3
  <2> QED
    BY <1>1, <2>1, <2>2, <2>3
<1>4. ASSUME n = Len(q) PROVE r = << >>
  BY <1>1, <1>4
<1> QED
  BY <1>1, <1>3, <1>4 DEF r

\* A part of the queue that is delivered leaves the youngest event in place.
LEMMA DeliveredQueue ==
  ASSUME LinkInv, NEW n \in 0..Len(events), events # << >> => n > 0, Delivered(n),
         UNCHANGED <<state, registered>>, net \notin {"init", "register", "resample"},
         net' \notin {"init", "register", "resample"},
         UNCHANGED <<main, run, loader_start_status, ret>>
  PROVE  LinkInv'
<1>0. /\ events \in Seq({"up", "down"}) /\ Len(events) \in Nat /\ Len(events) <= MaxEvents
      /\ missed \in BOOLEAN /\ desired_connected \in BOOLEAN
  BY DEF LinkInv, LinkType
<1>1. CASE n = 0
  <2>1. events = << >>
    BY <1>0, <1>1
  <2>2. events' = << >>
    BY <1>1, <2>1 DEF Delivered
  <2>3. desired_connected' = desired_connected
    BY <1>1 DEF Delivered
  <2>4. missed' = missed
    BY <1>0, <1>1, Zenon DEF Delivered
  <2> QED
    BY <2>1, <2>2, <2>3, <2>4 DEF LinkInv, LinkType, QueueInv, KnownInv
<1>2. CASE n \in 1..Len(events)
  <2>0. events # << >> /\ n # 0
    BY <1>0, <1>2
  <2>1. events[Len(events)] = state /\ registered
    BY <2>0 DEF LinkInv, QueueInv
  <2>2. events' \in Seq({"up", "down"}) /\ Len(events') = Len(events) - n
    BY <1>0, <1>2, Suffix DEF Delivered
  <2>3. Len(events') <= MaxEvents
    BY ONLY <1>0, <1>2, <2>2, BoundAssumption
  <2>4. ~missed' /\ missed' \in BOOLEAN
    BY <2>0, Zenon DEF Delivered
  <2>5. desired_connected' = (events[n] = "up")
    BY <2>0, Zenon DEF Delivered
  <2>6. desired_connected' \in BOOLEAN
    BY <2>5, Zenon
  <2>7. CASE n = Len(events)
    <3>1. events' = << >>
      BY <1>0, <1>2, <2>7, Suffix DEF Delivered
    <3>2. desired_connected' <=> state = "up"
      BY <2>1, <2>5, <2>7, Zenon
    <3> QED
      BY <2>1, <2>2, <2>3, <2>4, <2>6, <3>1, <3>2 DEF LinkInv, LinkType, QueueInv, KnownInv
  <2>8. CASE n < Len(events)
    <3>1. events' # << >> /\ events'[Len(events')] = state
      BY <1>0, <1>2, <2>1, <2>8, Suffix DEF Delivered
    <3> QED
      BY <2>1, <2>2, <2>3, <2>4, <2>6, <3>1 DEF LinkInv, LinkType, QueueInv, KnownInv
  <2> QED
    BY <1>0, <1>2, <2>7, <2>8
<1> QED
  BY <1>0, <1>1, <1>2

\* Every step keeps LinkInv.
LEMMA LinkStep == Inv /\ LinkInv /\ [Next]_vars => LinkInv'
<1> SUFFICES ASSUME Inv, LinkInv, [Next]_vars PROVE LinkInv'
  OBVIOUS
<1>0. net \in NetPcs
  BY DEF Inv, CoreType
<1>1. CASE ModuleStop \/ NetEnd \/ FtpSockets \/ UNCHANGED vars
  BY <1>1, LinkFrame DEF ModuleStop, NetEnd, FtpSockets, vars, LinkInv, LinkType
<1>2. CASE LinkChanges
  <2>1. CASE registered
    <3>1. events' = Append(events, state') /\ state' \in {"up", "down"}
          /\ Len(events) < MaxEvents
      BY <1>2, <2>1 DEF LinkChanges
    <3>2. /\ events' \in Seq({"up", "down"}) /\ Len(events') = Len(events) + 1
          /\ events'[Len(events')] = state' /\ events' # << >>
      BY <3>1 DEF LinkInv, LinkType
    <3>3. Len(events') <= MaxEvents
      BY <3>1, <3>2, BoundAssumption DEF LinkInv, LinkType
    <3> QED
      BY <1>2, <2>1, <3>1, <3>2, <3>3 DEF LinkChanges, LinkInv, LinkType, QueueInv, KnownInv
  <2>2. CASE ~registered
    BY <1>2, <2>2 DEF LinkChanges, LinkInv, LinkType, QueueInv, KnownInv
  <2> QED
    BY <2>1, <2>2
<1>3. CASE NetInit
  BY <1>3 DEF NetInit, Sample, LinkInv, LinkType, QueueInv, KnownInv
<1>4. CASE Register
  <2>1. net' \in {"resample", "exited"} /\ net = "register"
    BY <1>4 DEF Register
  <2>2. ~registered /\ events = << >>
    BY <2>1 DEF LinkInv, LinkType, QueueInv
  <2>3. CASE net' = "resample"
    BY <1>4, <2>2, <2>3 DEF Register, LinkInv, LinkType, QueueInv, KnownInv
  <2>4. CASE net' = "exited"
    BY <1>4, <2>2, <2>4 DEF Register, LinkInv, LinkType, QueueInv, KnownInv
  <2> QED
    BY <2>1, <2>3, <2>4
<1>5. CASE Resample
  BY <1>5 DEF Resample, Sample, LinkInv, LinkType, QueueInv, KnownInv
<1>6. CASE Poll
  <2>1. PICK n \in 0..Len(events) : (events # << >> => n > 0) /\ Delivered(n)
    BY <1>6 DEF Poll
  <2> QED
    BY <1>6, <2>1, DeliveredQueue DEF Poll
<1>7. CASE LeaveLoop
  <2>1. CASE UNCHANGED <<registered, events>> /\ net' = "stop_loader"
    BY <1>7, <2>1, LinkFrame DEF LeaveLoop, LinkInv, LinkType
  <2>2. CASE net' = "exited" /\ registered' = FALSE /\ events' = << >>
    <3>1. Len(<< >>) <= MaxEvents /\ << >> \in Seq({"up", "down"})
      BY BoundAssumption
    <3> QED
      BY <1>7, <2>2, <3>1 DEF LeaveLoop, LinkInv, LinkType, QueueInv, KnownInv
  <2> QED
    BY <1>7, <2>1, <2>2 DEF LeaveLoop
<1>8. CASE StartFtp \/ CmdWait \/ UndoRead \/ UndoClose \/ UndoJoin \/ UndoFini
  BY <1>8, LinkFrame DEF StartFtp, CmdWait, UndoRead, UndoClose, UndoJoin, UndoFini, LinkInv, LinkType
<1>9. CASE CmdCreate \/ StopLoader \/ StopClient \/ StopJoin \/ StopFini
  BY <1>9, LinkFrame DEF CmdCreate, StopLoader, StopClient, StopJoin, StopFini, LinkInv, LinkType
<1>10. CASE CmdSocket \/ CmdBind \/ CmdCheck \/ CmdStore \/ CmdReceive \/ CmdExec
  BY <1>10, LinkFrame DEF CmdSocket, CmdBind, CmdCheck, CmdStore, CmdReceive, CmdExec,
                          LinkInv, LinkType
<1>11. CASE CmdSend \/ CmdCloseClient \/ CmdExitClient \/ CmdExitLoader \/ CmdAccept
            \/ CmdAcceptFails
  BY <1>11, LinkFrame DEF CmdSend, CmdCloseClient, CmdExitClient, CmdExitLoader, CmdAccept,
                          CmdAcceptFails, LinkInv, LinkType
<1> QED
  BY <1>1, <1>2, <1>3, <1>4, <1>5, <1>6, <1>7, <1>8, <1>9, <1>10, <1>11
     DEF Next, NetNext, CmdRuns

\* LinkInv holds in every reachable state.
THEOREM LinkInvariance == Spec => []LinkInv
<1>1. Init => LinkInv
  <2>1. Len(<< >>) <= MaxEvents /\ << >> \in Seq({"up", "down"})
    BY BoundAssumption
  <2> QED
    BY <2>1 DEF Init, LinkInv, LinkType, QueueInv, KnownInv
<1>2. Inv /\ LinkInv /\ [Next]_vars => LinkInv'
  BY LinkStep
<1> QED
  BY <1>1, <1>2, Invariance, PTL DEF Spec

\* Every variable keeps its type.
THEOREM TypeCorrect == Spec => []TypeOK
<1>1. Inv /\ LinkInv => TypeOK
  BY DEF Inv, CoreType, LinkInv, LinkType, TypeOK
<1> QED
  BY <1>1, Invariance, LinkInvariance, PTL

\* The network thread's wish is the state of the link once the queued callbacks
\* have run.
THEOREM LinkViewIsCurrent == Spec => []LinkViewCurrent
<1>1. LinkInv => LinkViewCurrent
  BY DEF LinkInv, LinkType, QueueInv, KnownInv, LinkViewCurrent
<1> QED
  BY <1>1, LinkInvariance, PTL

-----------------------------------------------------------------------------
\* No command ever runs without libftpvita under it.
THEOREM FtpOutlivesCommands == Spec => []CommandsRunOnLiveFtp
<1>1. Inv => CommandsRunOnLiveFtp
  BY DEF Inv, PhaseInv, CommandsRunOnLiveFtp
<1> QED
  BY <1>1, Invariance, PTL

\* The command thread is unique, every start begins without one, and none is
\* left behind that stop_services would not stop.
THEOREM CommandThreadIsUnique == Spec => []OneCommandThread
<1>1. Inv => OneCommandThread
  BY DEF Inv, PhaseInv, CoreType, OneCommandThread, Stopping, Undoing
<1> QED
  BY <1>1, Invariance, PTL

\* A thread that has not bound its listener has stored no success; once it has,
\* the status stays, and so does the thread while its services count as up.
StatusInv ==
    /\ cmd \in {"socket", "bind"} => loader_start_status = "pending"
    /\ net \in Stopping \cup {"loop"} /\ all_is_up /\ ret # "ok" =>
          loader_thid /\ loader_start_status = "ok"

\* The steps of the network thread keep it: only a status of 0 in cmd_start, or
\* a result of 0 read while the start was undone, makes the services count as up.
LEMMA StatusNet == Inv /\ StatusInv /\ NetNext => StatusInv'
<1> SUFFICES ASSUME Inv, StatusInv, NetNext PROVE StatusInv'
  OBVIOUS
<1> USE DEF Inv, CoreType, PhaseInv, StatusInv, Stopping, Undoing
<1>1. CASE NetInit \/ Register \/ Resample \/ Poll \/ LeaveLoop \/ StartFtp
  BY <1>1 DEF NetInit, Register, Resample, Poll, LeaveLoop, StartFtp
<1>2. CASE CmdCreate
  BY <1>2 DEF CmdCreate
<1>3. CASE CmdWait
  BY <1>3 DEF CmdWait
<1>4. CASE UndoRead \/ UndoClose
  BY <1>4 DEF UndoRead, UndoClose
<1>5. CASE UndoJoin
  BY <1>5 DEF UndoJoin, Joined
<1>6. CASE UndoFini
  BY <1>6 DEF UndoFini
<1>7. CASE StopLoader \/ StopClient
  BY <1>7 DEF StopLoader, StopClient, CloseActive
<1>8. CASE StopJoin \/ StopFini
  BY <1>8 DEF StopJoin, StopFini, Joined
<1> QED
  BY <1>1, <1>2, <1>3, <1>4, <1>5, <1>6, <1>7, <1>8 DEF NetNext

\* The other steps keep it: the command thread stores its status once, when it
\* binds its listener or cannot.
LEMMA StatusOther == Inv /\ StatusInv /\ [Next]_vars /\ ~NetNext => StatusInv'
<1> SUFFICES ASSUME Inv, StatusInv, [Next]_vars, ~NetNext PROVE StatusInv'
  OBVIOUS
<1> USE DEF Inv, CoreType, PhaseInv, StatusInv, Stopping, Undoing, CmdPcs
<1>1. CASE CmdSocket
  BY <1>1 DEF CmdSocket, CmdGoto, cmdFrame
<1>2. CASE CmdBind
  BY <1>2 DEF CmdBind, CmdGoto, cmdFrame
<1>3. CASE CmdCheck \/ CmdStore \/ CmdReceive \/ CmdExec \/ CmdSend
  BY <1>3 DEF CmdCheck, CmdStore, CmdReceive, CmdExec, CmdSend, CmdGoto, cmdFrame
<1>4. CASE CmdCloseClient \/ CmdExitClient \/ CmdExitLoader
  BY <1>4 DEF CmdCloseClient, CmdExitClient, CmdExitLoader, CmdGoto, cmdFrame, CloseActive
<1>5. CASE CmdAccept \/ CmdAcceptFails
  BY <1>5 DEF CmdAccept, CmdAcceptFails, CmdGoto, cmdFrame
<1>6. CASE ModuleStop \/ NetEnd \/ LinkChanges \/ FtpSockets
  BY <1>6 DEF ModuleStop, NetEnd, LinkChanges, FtpSockets
<1>7. CASE UNCHANGED vars
  BY <1>7 DEF vars
<1> QED
  BY <1>1, <1>2, <1>3, <1>4, <1>5, <1>6, <1>7 DEF Next, CmdRuns

\* Services that count as up have a thread that has bound its listener, unless
\* cmd_start read a success while it undid the start.
THEOREM ListenerIsVerified == Spec => []ListenerVerified
<1>1. Init => StatusInv
  BY DEF Init, StatusInv, Stopping
<1>2. Inv /\ StatusInv /\ [Next]_vars => StatusInv'
  BY StatusNet, StatusOther
<1>3. StatusInv => ListenerVerified
  BY DEF StatusInv, ListenerVerified
<1> QED
  BY <1>1, <1>2, <1>3, Invariance, PTL DEF Spec

\* The slots never name somebody else's socket.
THEOREM SlotsAreOwned == Spec => []SlotsOwnTheirSockets
<1>1. Inv => SlotsOwnTheirSockets
  BY DEF Inv, LoaderInv, ClientInv, SlotsOwnTheirSockets
<1> QED
  BY <1>1, Invariance, PTL

\* The command server leaks no descriptor, however starts and stops interleave
\* with its clients.
THEOREM SocketsAreClosed == Spec => []NoSocketLeak
<1>1. Inv => NoSocketLeak
  BY DEF Inv, CoreType, LoaderInv, ClientInv, NoSocketLeak, Serving
<1> QED
  BY <1>1, Invariance, PTL

\* Each socket of the command server has one owner, and its slots name only its
\* own (close_socket_slot), for any set of descriptors.
THEOREM SocketsAreOwned == Spec => []SocketOwnership
<1>1. SlotsOwnTheirSockets /\ NoSocketLeak => SocketOwnership
  BY DEF SocketOwnership
<1> QED
  BY <1>1, SlotsAreOwned, SocketsAreClosed, PTL

\* Only cmd_end takes a client's descriptor away from the command thread.
THEOREM ClientsAreTakenByStop == Spec => []OnlyStopTakesClient
<1>1. Inv => OnlyStopTakesClient
  BY DEF Inv, CoreType, ClientInv, OnlyStopTakesClient, Serving
<1> QED
  BY <1>1, Invariance, PTL
=============================================================================
