--------------------------- MODULE CommandRequest ---------------------------
(***************************************************************************)
(* One request of the command server at a time, from the accepted          *)
(* connection to the answer (cmd_thread, receive_command, cmd_handle,      *)
(* send_response), with the commands it can run: install hands over to     *)
(* PackageInstaller, launch polls the foreground title, screenshot         *)
(* resolves SceShell's function once.  The peer's bytes arrive in segments *)
(* of any size, and the connection can end or fail between any two.        *)
(* Command names are one character each.                                   *)
(***************************************************************************)
EXTENDS PackageInstaller, ParserReference

CONSTANTS
    Requests,                   \* all that a peer sends before it closes or stalls
    CMD_REQUEST_BYTES, ARG_MAX,
    VpkPaths,                   \* arguments that end in .vpk
    TITLE_MAX,                  \* longest title that fits the launch URI
    LAUNCH_CONFIRM_ATTEMPTS,
    Titles                      \* what get_foreground_title_id reports; "main" for the
                                \* shell and whenever there is no application id

ASSUME RequestAssumption ==
    /\ CMD_REQUEST_BYTES \in Nat \ {0} /\ ARG_MAX \in Nat \ {0}
    /\ TITLE_MAX \in Nat /\ LAUNCH_CONFIRM_ATTEMPTS \in Nat
    /\ \A r \in Requests : r \in Seq(STRING)

VARIABLES
    step,       \* what the command thread does: accept, receive, run, confirm, install, send
    text, used, \* the request and how many of its bytes are in cmd
    args,       \* arg_list of the command that runs
    attempt,    \* of the launch loop
    reply,      \* what res_msg says
    shellshot,  \* shellshot_initialized and shellshot_available
    foreground, \* title in the foreground (system), followed while launch looks at it
    seen        \* history: titles in the foreground since the launch was accepted

requestVars == <<step, text, used, args, attempt, reply, shellshot, foreground, seen>>
vars == <<installVars, requestVars>>
buffer == <<text, used>>
system == <<shellshot, foreground, seen>>

\* Names and arg_count of cmd_definitions: install, launch, kill (and screen);
\* screenshot, version (help, destroy) and query (foreground, battery, ftpstatus).
arg_count(name) == CASE name \in {<<"i">>, <<"l">>, <<"k">>} -> 1
                     [] name \in {<<"s">>, <<"v">>, <<"q">>} -> 0
Names == {<<"i">>, <<"l">>, <<"k">>, <<"s">>, <<"v">>, <<"q">>}

NoTitle == <<>>
Replies == {"none", "ok", "error", "too_long", "launched", "installed"}

Init ==
    /\ InstallerInit
    /\ step = "accept" /\ text = <<>> /\ used = 0 /\ args = <<>> /\ attempt = 0
    /\ reply = "none" /\ shellshot = "unknown"
    /\ foreground = NoTitle /\ seen = {}

\* The command has written res_msg and the thread sends it.
Respond(r) == reply' = r /\ step' = "send"

-----------------------------------------------------------------------------
(* Receiving. *)

\* sceNetAccept; both buffers are zeroed.  A socket whose time-outs cannot be
\* set is answered with an error.
Accept ==
    /\ step = "accept"
    /\ text' \in Requests /\ used' = 0 /\ args' = <<>>
    /\ \/ step' = "receive" /\ reply' = "none"
       \/ Respond("error")
    /\ UNCHANGED <<installVars, attempt, system>>

Received == SubSeq(text, 1, used)
HasNewline(s) == "nl" \in Range(s)

LoopEndsMutant(n) == TRUE
\* receive_command leaves its loop with n bytes: a newline or a full buffer.
LoopEnds(n) == HasNewline(SubSeq(text, 1, n)) \/ n = CMD_REQUEST_BYTES

\* What cmd_thread does with n bytes in cmd.
Framed(n) ==
    IF n = CMD_REQUEST_BYTES /\ ~HasNewline(SubSeq(text, 1, n))
    THEN Respond("too_long") /\ UNCHANGED args
    ELSE LET parsed == parse_cmd(SubSeq(text, 1, n), ARG_MAX)
             words == parsed.args
         IN
         IF \/ n = 0 \/ parsed.too_many \/ words = <<>>
            \/ words[1] \notin Names \/ arg_count(words[1]) # Len(words) - 1
         THEN Respond("error") /\ UNCHANGED args
         ELSE args' = words /\ step' = "run" /\ UNCHANGED reply

\* One sceNetRecv returns n more bytes.
Receive ==
    /\ step = "receive"
    /\ \E n \in used + 1..Len(text) :
         /\ n <= CMD_REQUEST_BYTES
         /\ used' = n
         /\ IF LoopEnds(n) THEN Framed(n) ELSE UNCHANGED <<step, reply, args>>
    /\ UNCHANGED <<installVars, text, attempt, system>>

\* The peer has sent everything and closes: what is there is the command.
ReceiveEnd ==
    /\ step = "receive" /\ used = Len(text)
    /\ Framed(used)
    /\ UNCHANGED <<installVars, buffer, attempt, system>>

\* Error or time-out, or the socket was closed by cmd_end.
ReceiveFails ==
    /\ step = "receive"
    /\ Respond("error")
    /\ UNCHANGED <<installVars, buffer, args, attempt, system>>

-----------------------------------------------------------------------------
(* Executors. *)

Runs(name) == step = "run" /\ args[1] = name
Dropped == text' = <<>> /\ used' = 0    \* cmd is not read any more; a bound

\* version, help and destroy cannot fail.  (What reboot and ftpreset do is in
\* FtpServer.)
RunSimple ==
    /\ Runs(<<"v">>)
    /\ Respond("ok")
    /\ Dropped
    /\ UNCHANGED <<installVars, args, attempt, system>>

\* kill and screen act on their argument, or refuse it.
RunOnArgument ==
    /\ Runs(<<"k">>)
    /\ \/ Respond("ok") \/ Respond("error")
    /\ Dropped
    /\ UNCHANGED <<installVars, args, attempt, system>>

\* foreground, battery and ftpstatus ask the system, which may not answer.
RunQuery ==
    /\ Runs(<<"q">>)
    /\ \/ Respond("ok") \/ Respond("error")
    /\ Dropped
    /\ UNCHANGED <<installVars, args, attempt, system>>

\* init_shellshot looks SceShell up the first time only.
RunScreenshot ==
    /\ Runs(<<"s">>)
    /\ shellshot' \in IF shellshot = "unknown" THEN {"available", "missing"} ELSE {shellshot}
    /\ \/ shellshot' = "available" /\ Respond("ok")
       \/ Respond("error")
    /\ Dropped
    /\ UNCHANGED <<installVars, args, attempt, foreground, seen>>

\* The launch is refused (title too long, request failed) or accepted.
RunLaunch ==
    /\ Runs(<<"l">>)
    /\ \/ /\ Len(args[2]) <= TITLE_MAX
          /\ foreground' \in Titles /\ seen' = {foreground'}
          /\ step' = "confirm" /\ attempt' = 0 /\ UNCHANGED reply
       \/ Respond("error") /\ UNCHANGED <<attempt, foreground, seen>>
    /\ Dropped
    /\ UNCHANGED <<installVars, args, shellshot>>

Upper(title) == [i \in DOMAIN title |-> IF title[i] = "x" THEN "X" ELSE title[i]]
title_ids_equalMutant(left, right) == left # <<"main">>
\* Titles are compared without regard to case.
title_ids_equal(left, right) == Upper(left) = Upper(right)

MoreAttempts == attempt < LAUNCH_CONFIRM_ATTEMPTS

NextAttemptMutant == UNCHANGED attempt
NextAttempt == attempt' = attempt + 1

\* One round of the loop: the foreground title is read, or cannot be.
ConfirmLaunch ==
    /\ step = "confirm" /\ MoreAttempts
    /\ \/ /\ title_ids_equal(foreground, args[2])
          /\ Respond("launched") /\ UNCHANGED attempt
       \/ NextAttempt /\ UNCHANGED <<step, reply>>
    /\ UNCHANGED <<installVars, buffer, args, system>>

LaunchUnconfirmed ==
    /\ step = "confirm" /\ ~MoreAttempts
    /\ Respond("error")
    /\ UNCHANGED <<installVars, buffer, args, attempt, system>>

\* cmd_install: any archive, or none, may be at the path.
RunInstall ==
    /\ Runs(<<"i">>)
    /\ IF args[2] \in VpkPaths
       THEN (\E a \in Archives : Install(a)) /\ step' = "install" /\ UNCHANGED reply
       ELSE RefuseArgument /\ step' = "install" /\ UNCHANGED reply
    /\ Dropped
    /\ UNCHANGED <<args, attempt, system>>

Installing == InstallerStep /\ UNCHANGED requestVars

InstallAnswered ==
    /\ Answer
    /\ Respond(IF answer' = "error" THEN "error" ELSE "installed")
    /\ UNCHANGED <<buffer, args, attempt, system>>

\* send_response, as far as the peer takes it, and the socket is closed.
Send ==
    /\ step = "send"
    /\ IF pc = "returned" THEN Return ELSE UNCHANGED installVars
    /\ step' = "accept" /\ reply' = "none"
    /\ Dropped /\ attempt' = 0 /\ foreground' = NoTitle /\ seen' = {} /\ args' = <<>>
    /\ UNCHANGED shellshot

-----------------------------------------------------------------------------
\* The user, the system or a launched application changes the foreground.
ForegroundChanges ==
    /\ step = "confirm"
    /\ foreground' \in Titles /\ seen' = seen \cup {foreground'}
    /\ UNCHANGED <<installVars, step, text, used, args, attempt, reply, shellshot>>

\* Power loss while a package is installed; the plugin starts anew.
Restart ==
    /\ PowerLoss
    /\ step' = "accept" /\ Dropped /\ args' = <<>> /\ attempt' = 0 /\ reply' = "none"
    /\ shellshot' = "unknown" /\ foreground' = NoTitle /\ seen' = {}

\* What the command thread does by itself once it has a connection.
Thread ==
    \/ Receive \/ ReceiveEnd \/ ReceiveFails \/ RunSimple \/ RunOnArgument \/ RunQuery
    \/ RunScreenshot \/ RunLaunch
    \/ ConfirmLaunch \/ LaunchUnconfirmed \/ RunInstall \/ Installing \/ InstallAnswered \/ Send

Next == Accept \/ Thread \/ ForegroundChanges \/ Restart

Spec == Init /\ [][Next]_vars

\* The thread is scheduled, and every call it makes returns: the socket has
\* time-outs, and each system call is one step here.
FairSpec == Spec /\ WF_vars(Thread)

-----------------------------------------------------------------------------
\* The variables of the request and of the installer stay in their ranges, and
\* the installer runs exactly while its command does.
RequestTypeOK ==
    /\ InstallerTypeOK
    /\ step \in {"accept", "receive", "run", "confirm", "install", "send"}
    /\ text \in Requests \cup {<<>>} /\ used \in 0..Len(text)
    /\ attempt \in 0..LAUNCH_CONFIRM_ATTEMPTS
    /\ reply \in Replies /\ shellshot \in {"unknown", "available", "missing"}
    /\ foreground \in Titles \cup {NoTitle} /\ seen \subseteq Titles
    /\ pc \notin {"idle", "returned"} <=> step = "install"
    /\ pc = "returned" => step = "send"

\* CMD_FRAMED: the command that runs is the first line of what the peer sent,
\* split into its words, however TCP cut it into segments, and never a line
\* that did not fit; a request is called too long only if it is.
CmdFramed ==
    /\ step = "run" => /\ args = Words(Before(text, Terminals))
                       /\ HasNewline(Received) \/ used = Len(text)
    /\ step = "send" /\ reply = "too_long" =>
         Len(text) >= CMD_REQUEST_BYTES /\ ~HasNewline(SubSeq(text, 1, CMD_REQUEST_BYTES))

\* CONFIRMED_LAUNCH: "Launched" is answered only if the title was in the
\* foreground at some time after the system accepted the launch.
LaunchConfirmed ==
    step = "send" /\ reply = "launched" => \E t \in seen : Upper(t) = Upper(args[2])

\* Every accepted request is answered and its connection closed, whatever the
\* peer sends, the archive holds and the foreground does.
RequestAnswered == step # "accept" ~> step = "accept"
=============================================================================
