--------------------------- MODULE FtpServerProofs ---------------------------
(***************************************************************************)
(* Proofs, for any finite set of clients and any MAX_CLIENTS, of the       *)
(* safety properties of FtpServer.  They all follow from one inductive     *)
(* invariant, Inv, the conjunction of the parts below.                     *)
(***************************************************************************)
EXTENDS FtpServer, FiniteSetTheorems, TLAPS

\* The server thread holds exactly the client that is between its accept and
\* its first instruction.
CurInv ==
    /\ server = "add" => cur \in Clients /\ pc[cur] = "accepted"
    /\ server = "start" => cur \in Clients /\ pc[cur] = "ready"
    /\ server \notin {"add", "start"} => cur = NoClient
    /\ \A c \in Clients : pc[c] \in {"accepted", "ready"} => c = cur

\* Which thread may be where, and who holds the mutex, at each stage of
\* ftpvita_init and ftpvita_fini.
PhaseInv ==
    /\ mtx = "none" <=> owner = "down"
    /\ mtx = "net" <=> owner = "fini_scan"
    /\ mtx = "cmd" <=> cmd \in {"rb_transfer", "rb_decide", "abort_scan"}
    /\ cmd # "idle" => owner = "up"
    /\ owner \in {"down", "fini_lock", "fini_scan", "fini_wait"} => server = "none"
    /\ server = "startup" => client_list = {}
    /\ owner = "init_wait" /\ server_start_status # "ok" =>
          server \in {"startup", "ended"} /\ client_list = {}
    /\ owner \in {"down", "init_wait"} => reboot_quiesce_requested = 0
    /\ owner = "down" => client_list = {}
    /\ owner = "fini_wait" => client_list = {}

\* List, flags, counter, join set and thread positions agree.
ListInv ==
    /\ number_clients = Cardinality(client_list)
    /\ in_client_list = client_list \ joinset
    /\ \A c \in Clients : pc[c] \in Listed => c \in client_list \cup joinset
    /\ \A c \in client_list : pc[c] \in Listed
    /\ \A c \in joinset : pc[c] \in Listed \cup {"close_det", "exited"}
    /\ \A c \in Clients : pc[c] \in {"close_det", "exited"} => c \in joinset
    /\ joinset # {} => owner \in {"fini_scan", "fini_wait"}
    /\ owner = "fini_scan" => joinset \subseteq client_list

\* The gate is set by its holder; outside the join phase every holder has it.
GateInv ==
    /\ transfer_active = 1 => \E c \in Clients : Holds(c)
    /\ owner # "fini_wait" =>
          /\ \A c \in Clients : Holds(c) => transfer_active = 1
          /\ \A c, d \in Clients : Holds(c) /\ Holds(d) => c = d

\* A client ftpvita_fini has visited receives no further command, and if it has
\* not opened its data connection yet it never will.
JoinInv ==
    \A c \in joinset :
        /\ pc[c] \in Listed => c \in ctrl_aborted
        /\ pc[c] \in {"begin", "cas", "recheck", "file", "open"} =>
              data_con_type[c] = "none" \/ c \in data_aborted

\* What the locals of the command thread mean while it holds the mutex.
RebootInv ==
    /\ cmd \in {"rb_lock", "rb_transfer", "rb_decide", "rb_reset"} =>
          reboot_quiesce_requested = 1 /\ reset # "accepted"
    /\ cmd \in {"rb_transfer", "rb_decide"} => seen_clients = number_clients
    /\ cmd = "rb_reset" \/ reset = "accepted" =>
          reboot_quiesce_requested = 1 /\ client_list = {} /\ joinset = {}

ScanInv == scan \subseteq client_list /\ (cmd # "abort_scan" => scan = {})

Inv == /\ TypeOK
       /\ CurInv
       /\ PhaseInv
       /\ ListInv
       /\ GateInv
       /\ SingleStream
       /\ JoinInv
       /\ RebootInv
       /\ GuardNotLeaked
       /\ ScanInv

-----------------------------------------------------------------------------
(* Cardinality facts *)

USE DEF ownerVars, serverVars, listVars, gateVars, cmdVars, ctrlVars, dataVars, clientVars,
        sharedVars, clientSide, Transition

\* What the list operations do to the number of listed clients, which is what
\* number_clients counts.
LEMMA ListCardinality ==
    ASSUME NEW L \in SUBSET Clients
    PROVE  /\ Cardinality(L) \in Nat
           /\ Cardinality(L) = 0 <=> L = {}
           /\ \A c \in Clients \ L : Cardinality(L \cup {c}) = Cardinality(L) + 1
           /\ \A c \in L : Cardinality(L \ {c}) = Cardinality(L) - 1 /\ Cardinality(L) > 0
           /\ \A J \in SUBSET L : Cardinality(J) >= Cardinality(L) => L \subseteq J
<1>1. IsFiniteSet(L)
  BY FS_Subset, ClientsAssumption
<1>2. Cardinality(L) \in Nat /\ (Cardinality(L) = 0 <=> L = {})
  BY <1>1, FS_CardinalityType, FS_EmptySet
<1>3. \A c \in Clients \ L : Cardinality(L \cup {c}) = Cardinality(L) + 1
  BY <1>1, FS_AddElement
<1>4. \A c \in L : Cardinality(L \ {c}) = Cardinality(L) - 1 /\ Cardinality(L) > 0
  <2> SUFFICES ASSUME NEW c \in L
               PROVE  Cardinality(L \ {c}) = Cardinality(L) - 1 /\ Cardinality(L) > 0
      OBVIOUS
  <2>1. Cardinality(L \ {c}) = Cardinality(L) - 1
    BY <1>1, FS_RemoveElement
  <2>2. Cardinality(L) # 0
    BY <1>2
  <2> QED
    BY <1>2, <2>1, <2>2
<1>5. \A J \in SUBSET L : Cardinality(J) >= Cardinality(L) => L \subseteq J
  <2> SUFFICES ASSUME NEW J \in SUBSET L, Cardinality(J) >= Cardinality(L)
               PROVE  L \subseteq J
      OBVIOUS
  <2>1. /\ IsFiniteSet(J) /\ Cardinality(J) <= Cardinality(L)
        /\ Cardinality(L) = Cardinality(J) => L = J
    BY <1>1, FS_Subset
  <2>2. Cardinality(J) \in Nat
    BY <2>1, FS_CardinalityType
  <2> QED
    BY <1>2, <2>1, <2>2
<1> QED
  BY <1>2, <1>3, <1>4, <1>5

-----------------------------------------------------------------------------
(* Each part of Inv is preserved by every step.  The steps are grouped by  *)
(* the thread that takes them.                                             *)

\* Types are kept: in particular number_clients stays within MAX_CLIENTS
\* because client_list_add tests it under the mutex.
LEMMA TypeStep == TypeOK /\ CurInv /\ [Next]_vars => TypeOK'
<1> SUFFICES ASSUME TypeOK, CurInv, [Next]_vars PROVE TypeOK'
    OBVIOUS
<1> USE MaxAssumption DEF TypeOK, Owners, Servers, Cmds, Resets, Section, Started, Pcs,
        ConTypes, CurInv, Configured
<1>1. ASSUME OwnerNext PROVE TypeOK'
  BY <1>1 DEF OwnerNext, InitStart, InitReady, InitGiveUp, FiniStart, FiniJoinServer,
     FiniLock, FiniAbort, FiniDetach, FiniJoin, FiniDone, AllJoined, ScanDone
<1>2. ASSUME ServerNext PROVE TypeOK'
  BY <1>2 DEF ServerNext, ServerStartup, AcceptClient, AcceptFails, ServerAdd,
     ServerStart, ServerStartFails, Admissible, Link, Unlink
<1>3. ASSUME RbCas \/ RbLock \/ AbortLock \/ CmdRuns PROVE TypeOK'
  BY <1>3 DEF RbCas, RbLock, AbortLock, CmdRuns, RbTransfer, RbDecide, RbReset,
     AbortStep, AbortDone, Idle
<1>4. ASSUME NEW c \in Clients, ClientRuns(c) PROVE TypeOK'
  BY <1>4 DEF ClientRuns, SetupDone, BeginCheck, BeginCas, BeginRecheck, OpenFile,
     StorePasv, XferClose, XferRelease, CloseAndExit, CloseData
<1>5. ASSUME NEW c \in Clients, PeerNext(c) PROVE TypeOK'
  BY <1>5 DEF PeerNext, RecvSetup, RecvTransfer, RecvEnd, OpenData, XferPeer,
     PeerVanishes, CanReceive
<1>6. ASSUME NEW c \in Clients, Wakes(c) \/ ListDelete(c) PROVE TypeOK'
  BY <1>6 DEF Wakes, RecvWake, OpenDataFails, XferWake, ListDelete, Unlink
<1>7. CASE UNCHANGED vars
  BY <1>7 DEF vars
<1> QED
  BY <1>1, <1>2, <1>3, <1>4, <1>5, <1>6, <1>7 DEF Next

\* The server thread never loses or shares the client it is admitting.
LEMMA CurStep == TypeOK /\ CurInv /\ PhaseInv /\ [Next]_vars => CurInv'
<1> SUFFICES ASSUME TypeOK, CurInv, PhaseInv, [Next]_vars PROVE CurInv'
    OBVIOUS
<1> USE ClientsAssumption DEF TypeOK, CurInv, PhaseInv, Section, Started, Pcs, Listed
<1>1. ASSUME OwnerNext PROVE CurInv'
  BY <1>1 DEF OwnerNext, InitStart, InitReady, InitGiveUp, FiniStart, FiniJoinServer,
     FiniLock, FiniAbort, FiniDetach, FiniJoin, FiniDone, AllJoined, ScanDone
<1>2. ASSUME ServerNext PROVE CurInv'
  BY <1>2 DEF ServerNext, ServerStartup, AcceptClient, AcceptFails, ServerAdd,
     ServerStart, ServerStartFails, Admissible, Link, Unlink
<1>3. ASSUME RbCas \/ RbLock \/ AbortLock \/ CmdRuns PROVE CurInv'
  BY <1>3 DEF RbCas, RbLock, AbortLock, CmdRuns, RbTransfer, RbDecide, RbReset,
     AbortStep, AbortDone, Idle
<1>4. ASSUME NEW c \in Clients, ClientRuns(c) PROVE CurInv'
  BY <1>4 DEF ClientRuns, SetupDone, BeginCheck, BeginCas, BeginRecheck, OpenFile,
     StorePasv, XferClose, XferRelease, CloseAndExit, CloseData
<1>5. ASSUME NEW c \in Clients, PeerNext(c) PROVE CurInv'
  BY <1>5 DEF PeerNext, RecvSetup, RecvTransfer, RecvEnd, OpenData, XferPeer,
     PeerVanishes, CanReceive
<1>6. ASSUME NEW c \in Clients, Wakes(c) \/ ListDelete(c) PROVE CurInv'
  BY <1>6 DEF Wakes, RecvWake, OpenDataFails, XferWake, ListDelete, Unlink
<1>7. CASE UNCHANGED vars
  BY <1>7 DEF vars
<1> QED
  BY <1>1, <1>2, <1>3, <1>4, <1>5, <1>6, <1>7 DEF Next

\* Mutex ownership and the stages of init and fini stay in step.
LEMMA PhaseStep == TypeOK /\ CurInv /\ PhaseInv /\ ListInv /\ [Next]_vars => PhaseInv'
<1> SUFFICES ASSUME TypeOK, CurInv, PhaseInv, ListInv, [Next]_vars PROVE PhaseInv'
    OBVIOUS
<1> USE DEF TypeOK, CurInv, PhaseInv, ListInv, Owners, Servers, Cmds
<1>1. ASSUME OwnerNext PROVE PhaseInv'
  BY <1>1 DEF OwnerNext, InitStart, InitReady, InitGiveUp, FiniStart, FiniJoinServer,
     FiniLock, FiniAbort, FiniDetach, FiniJoin, FiniDone, AllJoined, ScanDone
<1>2. ASSUME ServerNext PROVE PhaseInv'
  BY <1>2 DEF ServerNext, ServerStartup, AcceptClient, AcceptFails, ServerAdd,
     ServerStart, ServerStartFails, Admissible, Link, Unlink
<1>3. ASSUME RbCas \/ RbLock \/ AbortLock \/ CmdRuns PROVE PhaseInv'
  BY <1>3 DEF RbCas, RbLock, AbortLock, CmdRuns, RbTransfer, RbDecide, RbReset,
     AbortStep, AbortDone, Idle
<1>4. ASSUME NEW c \in Clients, ClientRuns(c) PROVE PhaseInv'
  BY <1>4 DEF ClientRuns, SetupDone, BeginCheck, BeginCas, BeginRecheck, OpenFile,
     StorePasv, XferClose, XferRelease, CloseAndExit, CloseData
<1>5. ASSUME NEW c \in Clients, PeerNext(c) PROVE PhaseInv'
  BY <1>5 DEF PeerNext, RecvSetup, RecvTransfer, RecvEnd, OpenData, XferPeer,
     PeerVanishes, CanReceive
<1>6. ASSUME NEW c \in Clients, Wakes(c) \/ ListDelete(c) PROVE PhaseInv'
  BY <1>6 DEF Wakes, RecvWake, OpenDataFails, XferWake, ListDelete, Unlink
<1>7. CASE UNCHANGED vars
  BY <1>7 DEF vars
<1> QED
  BY <1>1, <1>2, <1>3, <1>4, <1>5, <1>6, <1>7 DEF Next

\* List, counter, flags and join set stay consistent; only here does the
\* counting matter.
LEMMA ListStep == TypeOK /\ CurInv /\ PhaseInv /\ ListInv /\ [Next]_vars => ListInv'
<1> SUFFICES ASSUME TypeOK, CurInv, PhaseInv, ListInv, [Next]_vars PROVE ListInv'
    OBVIOUS
<1> USE DEF TypeOK, CurInv, PhaseInv, ListInv, Section, Started, Pcs, Listed
<1>1. ASSUME OwnerNext PROVE ListInv'
  <2>1. CASE InitStart
    BY <2>1, ListCardinality DEF InitStart
  <2>2. CASE InitReady \/ InitGiveUp \/ FiniStart \/ FiniJoinServer \/ FiniLock
    BY <2>2 DEF InitReady, InitGiveUp, FiniStart, FiniJoinServer, FiniLock
  <2>3. ASSUME NEW c \in Clients, FiniAbort(c) PROVE ListInv'
    BY <2>3 DEF FiniAbort
  <2>4. CASE FiniDetach
    <3>1. Cardinality(joinset) >= MAX_CLIENTS => client_list \subseteq joinset
      <4>1. Cardinality(joinset) \in Nat
        BY ListCardinality
      <4> QED
        BY <2>4, <4>1, ListCardinality, MaxAssumption DEF FiniDetach
    <3> QED
      BY <2>4, <3>1, ListCardinality DEF FiniDetach, ScanDone
  <2>5. ASSUME NEW c \in Clients, FiniJoin(c) PROVE ListInv'
    BY <2>5 DEF FiniJoin
  <2>6. CASE FiniDone
    BY <2>6, ListCardinality DEF FiniDone, AllJoined
  <2> QED
    BY <1>1, <2>1, <2>2, <2>3, <2>4, <2>5, <2>6 DEF OwnerNext
<1>2. ASSUME ServerNext PROVE ListInv'
  <2>1. joinset = {}
    BY <1>2 DEF ServerNext, ServerStartup, AcceptClient, AcceptFails, ServerAdd, ServerStart,
       ServerStartFails
  <2>2. CASE ServerStartup \/ AcceptFails \/ ServerStart
    BY <2>1, <2>2 DEF ServerStartup, AcceptFails, ServerStart
  <2>3. ASSUME NEW c \in Clients, AcceptClient(c) PROVE ListInv'
    BY <2>1, <2>3 DEF AcceptClient
  <2>4. CASE ServerAdd
    <3>1. cur \in Clients \ client_list
      BY <2>4 DEF ServerAdd
    <3>2. Cardinality(client_list \cup {cur}) = Cardinality(client_list) + 1
      BY <3>1, ListCardinality
    <3>3. CASE Admissible
      BY <2>1, <2>4, <3>1, <3>2, <3>3 DEF ServerAdd, Link
    <3>4. CASE ~Admissible
      BY <2>1, <2>4, <3>4 DEF ServerAdd
    <3> QED
      BY <3>3, <3>4
  <2>5. CASE ServerStartFails
    <3>1. cur \in client_list
      BY <2>1, <2>5 DEF ServerStartFails
    <3>2. Cardinality(client_list \ {cur}) = Cardinality(client_list) - 1
          /\ Cardinality(client_list) > 0
      BY <3>1, ListCardinality
    <3> QED
      BY <2>1, <2>5, <3>1, <3>2 DEF ServerStartFails, Unlink
  <2> QED
    BY <1>2, <2>2, <2>3, <2>4, <2>5 DEF ServerNext
<1>3. ASSUME RbCas \/ RbLock \/ AbortLock \/ CmdRuns PROVE ListInv'
  BY <1>3 DEF RbCas, RbLock, AbortLock, CmdRuns, RbTransfer, RbDecide, RbReset,
     AbortStep, AbortDone, Idle
<1>4. ASSUME NEW c \in Clients, ClientRuns(c) PROVE ListInv'
  BY <1>4 DEF ClientRuns, SetupDone, BeginCheck, BeginCas, BeginRecheck, OpenFile,
     StorePasv, XferClose, XferRelease, CloseAndExit, CloseData
<1>5. ASSUME NEW c \in Clients, PeerNext(c) PROVE ListInv'
  BY <1>5 DEF PeerNext, RecvSetup, RecvTransfer, RecvEnd, OpenData, XferPeer,
     PeerVanishes, CanReceive
<1>6. ASSUME NEW c \in Clients, Wakes(c) \/ ListDelete(c) PROVE ListInv'
  <2>1. CASE Wakes(c)
    BY <2>1 DEF Wakes, RecvWake, OpenDataFails, XferWake
  <2>2. CASE ListDelete(c)
    <3>1. CASE c \in in_client_list
      <4>1. Cardinality(client_list \ {c}) = Cardinality(client_list) - 1
            /\ Cardinality(client_list) > 0
        BY <3>1, ListCardinality
      <4>2. number_clients' = Cardinality(client_list')
        BY <2>2, <3>1, <4>1 DEF ListDelete, Unlink
      <4>3. UNCHANGED <<owner, joinset>> /\ pc' = [pc EXCEPT ![c] = "close_own"]
            /\ client_list' = client_list \ {c} /\ in_client_list' = in_client_list \ {c}
        BY <2>2, <3>1 DEF ListDelete, Unlink
      <4> QED
        BY <3>1, <4>2, <4>3
    <3>2. CASE c \notin in_client_list
      BY <2>2, <3>2 DEF ListDelete
    <3> QED
      BY <3>1, <3>2
  <2> QED
    BY <1>6, <2>1, <2>2
<1>7. CASE UNCHANGED vars
  BY <1>7 DEF vars
<1> QED
  BY <1>1, <1>2, <1>3, <1>4, <1>5, <1>6, <1>7 DEF Next

\* The gate has one holder until client_list_thread_end clears it, and nobody
\* holds it any more when the join phase is over.
LEMMA GateStep == TypeOK /\ CurInv /\ PhaseInv /\ ListInv /\ GateInv /\ [Next]_vars =>
    GateInv'
<1> SUFFICES ASSUME TypeOK, CurInv, PhaseInv, ListInv, GateInv, [Next]_vars PROVE
             GateInv'
    OBVIOUS
<1> USE DEF TypeOK, CurInv, PhaseInv, ListInv, GateInv, Holds, Section, Started, Pcs,
        Listed
<1>1. ASSUME OwnerNext PROVE GateInv'
  BY <1>1 DEF OwnerNext, InitStart, InitReady, InitGiveUp, FiniStart, FiniJoinServer,
     FiniLock, FiniAbort, FiniDetach, FiniJoin, FiniDone, AllJoined, ScanDone
<1>2. ASSUME ServerNext PROVE GateInv'
  BY <1>2 DEF ServerNext, ServerStartup, AcceptClient, AcceptFails, ServerAdd,
     ServerStart, ServerStartFails, Admissible, Link, Unlink
<1>3. ASSUME RbCas \/ RbLock \/ AbortLock \/ CmdRuns PROVE GateInv'
  BY <1>3 DEF RbCas, RbLock, AbortLock, CmdRuns, RbTransfer, RbDecide, RbReset,
     AbortStep, AbortDone, Idle
<1>4. ASSUME NEW c \in Clients, ClientRuns(c) PROVE GateInv'
  BY <1>4 DEF ClientRuns, SetupDone, BeginCheck, BeginCas, BeginRecheck, OpenFile,
     StorePasv, XferClose, XferRelease, CloseAndExit, CloseData
<1>5. ASSUME NEW c \in Clients, PeerNext(c) PROVE GateInv'
  BY <1>5 DEF PeerNext, RecvSetup, RecvTransfer, RecvEnd, OpenData, XferPeer,
     PeerVanishes, CanReceive
<1>6. ASSUME NEW c \in Clients, Wakes(c) \/ ListDelete(c) PROVE GateInv'
  BY <1>6 DEF Wakes, RecvWake, OpenDataFails, XferWake, ListDelete, Unlink
<1>7. CASE UNCHANGED vars
  BY <1>7 DEF vars
<1> QED
  BY <1>1, <1>2, <1>3, <1>4, <1>5, <1>6, <1>7 DEF Next

\* The aborts of client_list_thread_end last until the client has left.
LEMMA JoinStep == TypeOK /\ CurInv /\ PhaseInv /\ ListInv /\ JoinInv /\ [Next]_vars =>
    JoinInv'
<1> SUFFICES ASSUME TypeOK, CurInv, PhaseInv, ListInv, JoinInv, [Next]_vars PROVE
             JoinInv'
    OBVIOUS
<1> USE DEF TypeOK, CurInv, PhaseInv, ListInv, JoinInv, HasDataConnection,
        HasDataSocket, Section, Started, Pcs, Listed
<1>1. ASSUME OwnerNext PROVE JoinInv'
  BY <1>1 DEF OwnerNext, InitStart, InitReady, InitGiveUp, FiniStart, FiniJoinServer,
     FiniLock, FiniAbort, FiniDetach, FiniJoin, FiniDone, AllJoined, ScanDone
<1>2. ASSUME ServerNext PROVE JoinInv'
  BY <1>2 DEF ServerNext, ServerStartup, AcceptClient, AcceptFails, ServerAdd,
     ServerStart, ServerStartFails, Admissible, Link, Unlink
<1>3. ASSUME RbCas \/ RbLock \/ AbortLock \/ CmdRuns PROVE JoinInv'
  BY <1>3 DEF RbCas, RbLock, AbortLock, CmdRuns, RbTransfer, RbDecide, RbReset,
     AbortStep, AbortDone, Idle
<1>4. ASSUME NEW c \in Clients, ClientRuns(c) PROVE JoinInv'
  BY <1>4 DEF ClientRuns, SetupDone, BeginCheck, BeginCas, BeginRecheck, OpenFile,
     StorePasv, XferClose, XferRelease, CloseAndExit, CloseData
<1>5. ASSUME NEW c \in Clients, PeerNext(c) PROVE JoinInv'
  BY <1>5 DEF PeerNext, RecvSetup, RecvTransfer, RecvEnd, OpenData, XferPeer,
     PeerVanishes, CanReceive
<1>6. ASSUME NEW c \in Clients, Wakes(c) \/ ListDelete(c) PROVE JoinInv'
  BY <1>6 DEF Wakes, RecvWake, OpenDataFails, XferWake, ListDelete, Unlink
<1>7. CASE UNCHANGED vars
  BY <1>7 DEF vars
<1> QED
  BY <1>1, <1>2, <1>3, <1>4, <1>5, <1>6, <1>7 DEF Next

\* A second data stream can only start by opening a data connection, which the
\* gate prevents outside the join phase and the aborts prevent inside it.
LEMMA StreamStep == TypeOK /\ CurInv /\ PhaseInv /\ ListInv /\ GateInv /\ JoinInv /\
    SingleStream /\ [Next]_vars => SingleStream'
<1> SUFFICES ASSUME TypeOK, CurInv, PhaseInv, ListInv, GateInv, JoinInv, SingleStream,
             [Next]_vars PROVE SingleStream'
    OBVIOUS
<1> USE DEF TypeOK, CurInv, PhaseInv, ListInv, GateInv, JoinInv, SingleStream, Streams,
        Holds, Section, Started, Pcs, Listed
<1>1. ASSUME OwnerNext PROVE SingleStream'
  BY <1>1 DEF OwnerNext, InitStart, InitReady, InitGiveUp, FiniStart, FiniJoinServer,
     FiniLock, FiniAbort, FiniDetach, FiniJoin, FiniDone, AllJoined, ScanDone
<1>2. ASSUME ServerNext PROVE SingleStream'
  BY <1>2 DEF ServerNext, ServerStartup, AcceptClient, AcceptFails, ServerAdd,
     ServerStart, ServerStartFails, Admissible, Link, Unlink
<1>3. ASSUME RbCas \/ RbLock \/ AbortLock \/ CmdRuns PROVE SingleStream'
  BY <1>3 DEF RbCas, RbLock, AbortLock, CmdRuns, RbTransfer, RbDecide, RbReset,
     AbortStep, AbortDone, Idle
<1>4. ASSUME NEW c \in Clients, ClientRuns(c) PROVE SingleStream'
  BY <1>4 DEF ClientRuns, SetupDone, BeginCheck, BeginCas, BeginRecheck, OpenFile,
     StorePasv, XferClose, XferRelease, CloseAndExit, CloseData
<1>5. ASSUME NEW c \in Clients, PeerNext(c) PROVE SingleStream'
  BY <1>5 DEF PeerNext, RecvSetup, RecvTransfer, RecvEnd, OpenData, XferPeer,
     PeerVanishes, CanReceive
<1>6. ASSUME NEW c \in Clients, Wakes(c) \/ ListDelete(c) PROVE SingleStream'
  BY <1>6 DEF Wakes, RecvWake, OpenDataFails, XferWake, ListDelete, Unlink
<1>7. CASE UNCHANGED vars
  BY <1>7 DEF vars
<1> QED
  BY <1>1, <1>2, <1>3, <1>4, <1>5, <1>6, <1>7 DEF Next

\* The count the command thread decides on is still true when it decides, and
\* the guard keeps it true afterwards.
LEMMA RebootStep == TypeOK /\ CurInv /\ PhaseInv /\ ListInv /\ RebootInv /\ [Next]_vars
    => RebootInv'
<1> SUFFICES ASSUME TypeOK, CurInv, PhaseInv, ListInv, RebootInv, [Next]_vars PROVE
             RebootInv'
    OBVIOUS
<1> USE DEF TypeOK, CurInv, PhaseInv, ListInv, RebootInv, Cmds
<1>1. ASSUME OwnerNext PROVE RebootInv'
  BY <1>1 DEF OwnerNext, InitStart, InitReady, InitGiveUp, FiniStart, FiniJoinServer,
     FiniLock, FiniAbort, FiniDetach, FiniJoin, FiniDone, AllJoined, ScanDone
<1>2. ASSUME ServerNext PROVE RebootInv'
  BY <1>2 DEF ServerNext, ServerStartup, AcceptClient, AcceptFails, ServerAdd,
     ServerStart, ServerStartFails, Admissible, Link, Unlink
<1>3. ASSUME RbCas \/ RbLock \/ AbortLock \/ CmdRuns PROVE RebootInv'
  <2>1. number_clients = 0 => client_list = {}
    BY ListCardinality
  <2> QED
    BY <1>3, <2>1 DEF RbCas, RbLock, AbortLock, CmdRuns, RbTransfer, RbDecide, RbReset,
       AbortStep, AbortDone, Idle
<1>4. ASSUME NEW c \in Clients, ClientRuns(c) PROVE RebootInv'
  BY <1>4 DEF ClientRuns, SetupDone, BeginCheck, BeginCas, BeginRecheck, OpenFile,
     StorePasv, XferClose, XferRelease, CloseAndExit, CloseData
<1>5. ASSUME NEW c \in Clients, PeerNext(c) PROVE RebootInv'
  BY <1>5 DEF PeerNext, RecvSetup, RecvTransfer, RecvEnd, OpenData, XferPeer,
     PeerVanishes, CanReceive
<1>6. ASSUME NEW c \in Clients, Wakes(c) \/ ListDelete(c) PROVE RebootInv'
  BY <1>6 DEF Wakes, RecvWake, OpenDataFails, XferWake, ListDelete, Unlink
<1>7. CASE UNCHANGED vars
  BY <1>7 DEF vars
<1> QED
  BY <1>1, <1>2, <1>3, <1>4, <1>5, <1>6, <1>7 DEF Next

\* Only a running decision or an accepted reset keeps the guard set.
LEMMA GuardStep == TypeOK /\ PhaseInv /\ RebootInv /\ GuardNotLeaked /\ [Next]_vars =>
    GuardNotLeaked'
<1> SUFFICES ASSUME TypeOK, PhaseInv, RebootInv, GuardNotLeaked, [Next]_vars PROVE
             GuardNotLeaked'
    OBVIOUS
<1> USE DEF TypeOK, PhaseInv, RebootInv, GuardNotLeaked, Cmds
<1>1. ASSUME OwnerNext PROVE GuardNotLeaked'
  BY <1>1 DEF OwnerNext, InitStart, InitReady, InitGiveUp, FiniStart, FiniJoinServer,
     FiniLock, FiniAbort, FiniDetach, FiniJoin, FiniDone, AllJoined, ScanDone
<1>2. ASSUME ServerNext PROVE GuardNotLeaked'
  BY <1>2 DEF ServerNext, ServerStartup, AcceptClient, AcceptFails, ServerAdd,
     ServerStart, ServerStartFails, Admissible, Link, Unlink
<1>3. ASSUME RbCas \/ RbLock \/ AbortLock \/ CmdRuns PROVE GuardNotLeaked'
  BY <1>3 DEF RbCas, RbLock, AbortLock, CmdRuns, RbTransfer, RbDecide, RbReset,
     AbortStep, AbortDone, Idle
<1>4. ASSUME NEW c \in Clients, ClientRuns(c) PROVE GuardNotLeaked'
  BY <1>4 DEF ClientRuns, SetupDone, BeginCheck, BeginCas, BeginRecheck, OpenFile,
     StorePasv, XferClose, XferRelease, CloseAndExit, CloseData
<1>5. ASSUME NEW c \in Clients, PeerNext(c) PROVE GuardNotLeaked'
  BY <1>5 DEF PeerNext, RecvSetup, RecvTransfer, RecvEnd, OpenData, XferPeer,
     PeerVanishes, CanReceive
<1>6. ASSUME NEW c \in Clients, Wakes(c) \/ ListDelete(c) PROVE GuardNotLeaked'
  BY <1>6 DEF Wakes, RecvWake, OpenDataFails, XferWake, ListDelete, Unlink
<1>7. CASE UNCHANGED vars
  BY <1>7 DEF vars
<1> QED
  BY <1>1, <1>2, <1>3, <1>4, <1>5, <1>6, <1>7 DEF Next

\* The list does not change under the walk of ftpvita_abort_clients.
LEMMA ScanStep == TypeOK /\ CurInv /\ PhaseInv /\ ListInv /\ ScanInv /\ [Next]_vars =>
    ScanInv'
<1> SUFFICES ASSUME TypeOK, CurInv, PhaseInv, ListInv, ScanInv, [Next]_vars PROVE
             ScanInv'
    OBVIOUS
<1> USE DEF TypeOK, CurInv, PhaseInv, ListInv, ScanInv, Cmds
<1>1. ASSUME OwnerNext PROVE ScanInv'
  BY <1>1 DEF OwnerNext, InitStart, InitReady, InitGiveUp, FiniStart, FiniJoinServer,
     FiniLock, FiniAbort, FiniDetach, FiniJoin, FiniDone, AllJoined, ScanDone
<1>2. ASSUME ServerNext PROVE ScanInv'
  BY <1>2 DEF ServerNext, ServerStartup, AcceptClient, AcceptFails, ServerAdd,
     ServerStart, ServerStartFails, Admissible, Link, Unlink
<1>3. ASSUME RbCas \/ RbLock \/ AbortLock \/ CmdRuns PROVE ScanInv'
  BY <1>3 DEF RbCas, RbLock, AbortLock, CmdRuns, RbTransfer, RbDecide, RbReset,
     AbortStep, AbortDone, Idle
<1>4. ASSUME NEW c \in Clients, ClientRuns(c) PROVE ScanInv'
  BY <1>4 DEF ClientRuns, SetupDone, BeginCheck, BeginCas, BeginRecheck, OpenFile,
     StorePasv, XferClose, XferRelease, CloseAndExit, CloseData
<1>5. ASSUME NEW c \in Clients, PeerNext(c) PROVE ScanInv'
  BY <1>5 DEF PeerNext, RecvSetup, RecvTransfer, RecvEnd, OpenData, XferPeer,
     PeerVanishes, CanReceive
<1>6. ASSUME NEW c \in Clients, Wakes(c) \/ ListDelete(c) PROVE ScanInv'
  BY <1>6 DEF Wakes, RecvWake, OpenDataFails, XferWake, ListDelete, Unlink
<1>7. CASE UNCHANGED vars
  BY <1>7 DEF vars
<1> QED
  BY <1>1, <1>2, <1>3, <1>4, <1>5, <1>6, <1>7 DEF Next

\* Only a free client identity is accepted.
LEMMA AcceptStep == TypeOK /\ [Next]_vars => (\A d \in Clients : pc'[d] = "accepted" => pc[d] \in {"free", "accepted"})
<1> SUFFICES ASSUME TypeOK, [Next]_vars PROVE (\A d \in Clients : pc'[d] = "accepted" => pc[d] \in {"free", "accepted"})
    OBVIOUS
<1> USE DEF TypeOK, Section, Started, Pcs, Listed
<1>1. ASSUME OwnerNext PROVE (\A d \in Clients : pc'[d] = "accepted" => pc[d] \in {"free", "accepted"})
  BY <1>1 DEF OwnerNext, InitStart, InitReady, InitGiveUp, FiniStart, FiniJoinServer,
     FiniLock, FiniAbort, FiniDetach, FiniJoin, FiniDone, AllJoined, ScanDone
<1>2. ASSUME ServerNext PROVE (\A d \in Clients : pc'[d] = "accepted" => pc[d] \in {"free", "accepted"})
  BY <1>2 DEF ServerNext, ServerStartup, AcceptClient, AcceptFails, ServerAdd,
     ServerStart, ServerStartFails, Admissible, Link, Unlink
<1>3. ASSUME RbCas \/ RbLock \/ AbortLock \/ CmdRuns PROVE (\A d \in Clients : pc'[d] = "accepted" => pc[d] \in {"free", "accepted"})
  BY <1>3 DEF RbCas, RbLock, AbortLock, CmdRuns, RbTransfer, RbDecide, RbReset,
     AbortStep, AbortDone, Idle
<1>4. ASSUME NEW c \in Clients, ClientRuns(c) PROVE (\A d \in Clients : pc'[d] = "accepted" => pc[d] \in {"free", "accepted"})
  BY <1>4 DEF ClientRuns, SetupDone, BeginCheck, BeginCas, BeginRecheck, OpenFile,
     StorePasv, XferClose, XferRelease, CloseAndExit, CloseData
<1>5. ASSUME NEW c \in Clients, PeerNext(c) PROVE (\A d \in Clients : pc'[d] = "accepted" => pc[d] \in {"free", "accepted"})
  BY <1>5 DEF PeerNext, RecvSetup, RecvTransfer, RecvEnd, OpenData, XferPeer,
     PeerVanishes, CanReceive
<1>6. ASSUME NEW c \in Clients, Wakes(c) \/ ListDelete(c) PROVE (\A d \in Clients : pc'[d] = "accepted" => pc[d] \in {"free", "accepted"})
  BY <1>6 DEF Wakes, RecvWake, OpenDataFails, XferWake, ListDelete, Unlink
<1>7. CASE UNCHANGED vars
  BY <1>7 DEF vars
<1> QED
  BY <1>1, <1>2, <1>3, <1>4, <1>5, <1>6, <1>7 DEF Next

-----------------------------------------------------------------------------
(* The inductive invariant *)

\* Inv holds before the first ftpvita_init.
LEMMA InitInv == Init => Inv
<1> SUFFICES ASSUME Init PROVE Inv
    OBVIOUS
<1> USE ClientsAssumption, MaxAssumption DEF Init
<1>1. Cardinality({}) = 0
  BY FS_EmptySet
<1>2. TypeOK /\ CurInv /\ PhaseInv
  BY DEF TypeOK, Owners, Servers, Cmds, Resets, Section, Started, Pcs, ConTypes, CurInv, PhaseInv
<1>3. ListInv
  BY <1>1 DEF ListInv, Listed, Section, Started
<1>4. GateInv /\ SingleStream /\ JoinInv
  BY DEF GateInv, SingleStream, JoinInv, Holds, Streams, Section
<1>5. RebootInv /\ GuardNotLeaked /\ ScanInv
  BY DEF RebootInv, GuardNotLeaked, ScanInv
<1> QED
  BY <1>2, <1>3, <1>4, <1>5 DEF Inv

\* Every step of every thread keeps Inv.
LEMMA NextInv == Inv /\ [Next]_vars => Inv'
  BY TypeStep, CurStep, PhaseStep, ListStep, GateStep, StreamStep, JoinStep, RebootStep,
     GuardStep, ScanStep DEF Inv

\* Inv holds in every reachable state of the server, for every number of
\* clients and every admission limit.
THEOREM Invariance == Spec => []Inv
<1>1. Init => Inv
  BY InitInv
<1>2. Inv /\ [Next]_vars => Inv'
  BY NextInv
<1> QED
  BY <1>1, <1>2, PTL DEF Spec

-----------------------------------------------------------------------------
(* The properties of FtpServer *)

\* Type correctness; with it, at most MAX_CLIENTS clients are ever counted.
THEOREM TypeCorrect == Spec => []TypeOK
<1>1. Inv => TypeOK
  BY DEF Inv
<1> QED
  BY <1>1, Invariance, PTL

\* The client list, its flags, its counter and the threads always agree.
THEOREM ListIsConsistent == Spec => []ListConsistent
<1>1. Inv => ListConsistent
  BY DEF Inv, ListInv, ListConsistent
<1> QED
  BY <1>1, Invariance, PTL

\* One holder of the transfer gate, except while teardown joins its clients.
THEOREM GateIsExclusive == Spec => []SingleFlight
<1>1. Inv => SingleFlight
  BY DEF Inv, GateInv, SingleFlight
<1> QED
  BY <1>1, Invariance, PTL

\* One data stream, always: README SINGLE_FLIGHT.
THEOREM StreamIsExclusive == Spec => []SingleStream
<1>1. Inv => SingleStream
  BY DEF Inv
<1> QED
  BY <1>1, Invariance, PTL

\* The transfer gate is never left closed by a client that is gone.
THEOREM GateIsReleased == Spec => []GateNotLeaked
<1>1. Inv => GateNotLeaked
  <2> SUFFICES ASSUME Inv PROVE GateNotLeaked
      OBVIOUS
  <2>1. ASSUME owner = "down", NEW c \in Clients PROVE ~Holds(c)
    BY <2>1 DEF Inv, TypeOK, PhaseInv, ListInv, Holds, Listed, Started
  <2> QED
    BY <2>1 DEF Inv, TypeOK, GateInv, GateNotLeaked
<1> QED
  BY <1>1, Invariance, PTL

\* An accepted reboot finds no client and no transfer, and admits none while its
\* guard is in force: README SAFE_REBOOT.
THEOREM RebootIsSafe == Spec => []SafeReboot
<1>1. Inv => SafeReboot
  BY DEF Inv, TypeOK, ListInv, RebootInv, SafeReboot, Holds, Listed, Started
<1> QED
  BY <1>1, Invariance, PTL

\* A refused or failed reboot leaves no guard behind.
THEOREM GuardIsReleased == Spec => []GuardNotLeaked
<1>1. Inv => GuardNotLeaked
  BY DEF Inv
<1> QED
  BY <1>1, Invariance, PTL

\* The client list mutex is deleted only when nobody can lock it any more.
THEOREM MutexIsOutlived == Spec => []MutexOutlivesUsers
<1>1. Inv => MutexOutlivesUsers
  BY ClientsAssumption DEF Inv, TypeOK, CurInv, PhaseInv, ListInv, MutexOutlivesUsers, Listed
<1> QED
  BY <1>1, Invariance, PTL

\* Exactly one party deletes each client's thread object.
THEOREM DeleterIsUnique == Spec => []OneDeleter
<1>1. Inv => OneDeleter
  BY DEF Inv, TypeOK, ListInv, OneDeleter, Listed, Started, Section
<1> QED
  BY <1>1, Invariance, PTL

\* No pointer to a freed client is followed.
THEOREM ClientsOutliveScans == Spec => []NoDanglingClient
<1>1. Inv => NoDanglingClient
  BY DEF Inv, TypeOK, Servers, CurInv, ListInv, ScanInv, NoDanglingClient, Listed, Started, Section
<1> QED
  BY <1>1, Invariance, PTL

\* Teardown and self-removal never lose a client thread.
THEOREM ClientsAreJoined == Spec => NoClientDropped
<1> DEFINE Kept == \A c \in client_list \ client_list' :
                       pc'[c] \in {"close_own", "free"} \/ c \in joinset'
<1>1. Inv /\ Inv' /\ [Next]_vars => [Kept]_vars
  <2> SUFFICES ASSUME Inv, Inv', [Next]_vars, NEW c \in client_list \ client_list'
               PROVE  pc'[c] \in {"close_own", "free"} \/ c \in joinset'
      OBVIOUS
  <2>1. c \in Clients /\ pc'[c] \in Pcs
    BY DEF Inv, TypeOK
  <2>2. pc'[c] # "accepted"
    BY <2>1, AcceptStep DEF Inv, ListInv, Listed, Started, Section
  <2>3. pc'[c] \in Listed \cup {"close_det", "exited"} => c \in joinset'
    BY <2>1 DEF Inv, ListInv
  <2> QED
    BY <2>1, <2>2, <2>3 DEF Pcs, Listed
<1> QED
  BY <1>1, Invariance, PTL DEF Spec, NoClientDropped
=============================================================================
