---------------------------- MODULE MCFtpSession ----------------------------
(***************************************************************************)
(* One client: its data connection (FtpSession), its paths (FtpNavigation) *)
(* and the texts it may send (ParserChecks).  The first two share the      *)
(* start and the end of the session and nothing else, so that each is      *)
(* explored while the other is at rest.  Texts are only read, so they are  *)
(* typed before the session begins.                                        *)
(***************************************************************************)
EXTENDS FtpSession, FtpNavigation, ParserChecks

SessionAtRest ==
    /\ data_con_type = "none" /\ streaming = "none" /\ restore_point = 0
    /\ asked = 0 /\ ~refused /\ last = NoTransfer /\ flen = None /\ open = {0}
NavAtRest == cur_path = Root /\ rename_path = <<>> /\ acted = NoCommand

SessionStep == PASV \/ PORT \/ REST \/ LIST \/ RetrFails \/ RetrStarts \/ STOR \/ APPE
               \/ Write \/ EndTransfer \/ FileChanges

MCInit == Init /\ NavInit /\ LineInit

ClientNext ==
    \/ Connect /\ NavConnect
    \/ Disconnect /\ NavDisconnect
    \/ NavAtRest /\ SessionStep /\ UNCHANGED navVars
    \/ SessionAtRest /\ NavStep /\ UNCHANGED vars

\* Text after text, over a client that has not connected yet.
TextNext ==
    /\ Init /\ NavInit /\ flen = None
    /\ \/ TypeChar
       \/ line # <<>> /\ line' = <<>>
    /\ UNCHANGED <<vars, navVars>>

MCNext ==
    \/ line = <<>> /\ ClientNext /\ UNCHANGED line
    \/ TextNext

MCSpec == MCInit /\ [][MCNext]_<<vars, navVars, line>>

MCArguments ==
    {Root, <<"/", "ux0:">>, <<"ux0:">>, <<"b", "/">>, <<"ux0:", "/", "a">>,
     <<"/", "ux0:", "/", "/", "a">>}
=============================================================================
