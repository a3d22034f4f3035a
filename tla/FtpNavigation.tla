--------------------------- MODULE FtpNavigation ---------------------------
(***************************************************************************)
(* Where the commands of one FTP client work: its current directory, the   *)
(* file named for a rename, and the path each file command builds from its *)
(* argument (libftpvita).  A path is the text the code keeps, as a         *)
(* sequence of "/", device names and one-character names.  Whether a file  *)
(* or directory exists is up to the device and changes at any time, so     *)
(* every call on it may succeed or fail.                                   *)
(***************************************************************************)
EXTENDS Texts

CONSTANTS
    Arguments,      \* arguments of path commands, texts as the parser gives them
    ShortDevices,   \* devices that gen_ftp_fullpath knows ("ux0:", not "uma0:")
    PATH_MAX

\* An argument comes out of recv_buffer[512], which is shorter than PATH_MAX by
\* far: it fits its buffer with a slash before and behind it.
ASSUME NavAssumption ==
    /\ PATH_MAX \in Nat /\ PATH_MAX > 2
    /\ \A arg \in Arguments : arg \in Seq(STRING) /\ Len(arg) >= 1 /\ Len(arg) + 2 < PATH_MAX
    /\ "/" \notin ShortDevices

VARIABLES
    connected, cur_path, rename_path,
    cwd,        \* history: the components of the directory the client should be in
    track,      \* history: what became of cur_path since the client last named a full path
    source,     \* history: the file the last accepted RNFR named
    acted       \* history: the file command that has just reached the device

navVars == <<connected, cur_path, rename_path, cwd, track, source, acted>>
where == <<cwd, track>>

Root == <<"/">>
NoSource == [names |-> <<>>, sure |-> TRUE]
NoCommand == [cmd |-> "none", path |-> <<>>, wanted |-> <<>>, sure |-> TRUE,
              from |-> <<>>, source |-> NoSource]

\* The components of a path, empty ones left out.
Names(path) == Tokens(path, {"/"})
Slashes(path) == {i \in DOMAIN path : path[i] = "/"}
\* snprintf into a buffer of PATH_MAX.
Cut(path) == SubSeq(path, 1, Min({Len(path), PATH_MAX - 1}))

NavInit ==
    /\ connected = FALSE
    /\ cur_path = Root /\ rename_path = <<>>
    /\ cwd = <<>> /\ track = "exact"
    /\ source = NoSource /\ acted = NoCommand

-----------------------------------------------------------------------------
path_is_at_root(path) == Last(path) = "/"

\* "If the path is like: /foo: add slash"
AddSlash(path) == IF Slashes(path) = {1} THEN path \o <<"/">> ELSE path

dir_upMutant(path) ==
    IF path_is_at_root(path) THEN Root ELSE SubSeq(path, 1, Max(Slashes(path)) - 1)
\* The parent: everything up to the last slash, and / for every path that ends
\* in one.
dir_up(path) ==
    IF path_is_at_root(path) THEN Root ELSE AddSlash(SubSeq(path, 1, Max(Slashes(path)) - 1))

gen_ftp_fullpathMutant(arg) ==
    IF arg[1] = "/" THEN arg
    ELSE IF arg[1] \in ShortDevices /\ Len(arg) > 1 /\ arg[2] = "/" THEN Cut(<<"/">> \o arg)
    ELSE Cut(cur_path \o arg)
\* The path of a file command: absolute, on a device, or below cur_path.
gen_ftp_fullpath(arg) ==
    IF arg[1] = "/" THEN arg
    ELSE IF arg[1] \in ShortDevices /\ Len(arg) > 1 /\ arg[2] = "/" THEN Cut(<<"/">> \o arg)
    ELSE Cut(cur_path \o <<"/">> \o arg)

\* Behind the leading slash; / alone has no path on the device.
HasVitaPath(path) == Len(path) > 1
get_vita_path(path) == Tail(path)

\* server_thread: the client is zeroed and starts in FTP_DEFAULT_PATH.
NavConnect ==
    /\ ~connected /\ connected' = TRUE
    /\ cur_path' = Root /\ rename_path' = <<>>
    /\ cwd' = <<>> /\ track' = "exact" /\ source' = NoSource /\ acted' = NoCommand

NavDisconnect ==
    /\ connected /\ connected' = FALSE
    /\ acted' = NoCommand
    /\ UNCHANGED <<cur_path, rename_path, where, source>>

-----------------------------------------------------------------------------
\* CDUP, and CWD with the argument "..".  The client goes to the parent of its
\* directory; dir_up misreads a directory below a device that is spelled with a
\* slash at the end.
CDUP ==
    /\ connected
    /\ cur_path' = dir_up(cur_path)
    /\ cwd' = IF cwd = <<>> THEN <<>> ELSE Front(cwd)
    /\ track' = IF track = "exact" /\ Last(cur_path) = "/" /\ Len(cwd) > 1 THEN "misread" ELSE track
    /\ acted' = NoCommand
    /\ UNCHANGED <<connected, rename_path, source>>

\* What CWD makes of an argument before it looks for the directory, and what of
\* it fits tmp_path.
CwdText(arg) ==
    IF arg[1] = "/" THEN arg
    ELSE IF path_is_at_root(cur_path) THEN cur_path \o arg ELSE cur_path \o <<"/">> \o arg
CwdTarget(arg) == Cut(CwdText(arg))

\* CWD with an argument other than "..": a directory that cannot be opened
\* leaves everything as it was.  A full path settles where the client is; a
\* relative one leads below where it was, and nobody can say where to if cur_path
\* was wrong already or the joined path was cut.
CWD(arg) ==
    /\ connected
    /\ arg # <<"..">>
    /\ cur_path' = IF arg = Root THEN Root ELSE AddSlash(CwdTarget(arg))
    /\ \/ /\ arg[1] = "/"
          /\ track' = "exact" /\ cwd' = Names(arg)
       \/ /\ arg[1] # "/" /\ track = "exact" /\ Len(CwdText(arg)) < PATH_MAX
          /\ track' = "exact" /\ cwd' = cwd \o Names(arg)
       \/ /\ arg[1] # "/" /\ (track # "exact" \/ Len(CwdText(arg)) >= PATH_MAX)
          /\ track' = "lost" /\ cwd' = <<>>
    /\ acted' = NoCommand
    /\ UNCHANGED <<connected, rename_path, source>>

\* The argument names a file by itself, without the current directory.
NamesAll(arg) == arg[1] = "/" \/ (arg[1] \in ShortDevices /\ Len(arg) > 1 /\ arg[2] = "/")

\* Components of the file an argument names, seen from the client.
Wanted(arg) == IF NamesAll(arg) THEN Names(arg) ELSE cwd \o Names(arg)

\* The client can know which file that is: its directory is known, and the path
\* fits the buffer behind it.
Reliable(arg) == NamesAll(arg) \/ (track = "exact" /\ Len(cur_path) + 1 + Len(arg) < PATH_MAX)

\* RETR, STOR, APPE, DELE, RMD, MKD and SIZE reach the device with this path.
FileCommand(arg) ==
    /\ connected
    /\ HasVitaPath(gen_ftp_fullpath(arg))
    /\ acted' = [NoCommand EXCEPT !.cmd = "file",
                                  !.path = Names(get_vita_path(gen_ftp_fullpath(arg))),
                                  !.wanted = Wanted(arg), !.sure = Reliable(arg)]
    /\ UNCHANGED <<connected, cur_path, rename_path, where, source>>

\* RNFR of a file that exists; one that does not leaves the earlier name.
RNFR(arg) ==
    /\ connected
    /\ HasVitaPath(gen_ftp_fullpath(arg))
    /\ rename_path' = get_vita_path(gen_ftp_fullpath(arg))
    /\ source' = [names |-> Wanted(arg), sure |-> Reliable(arg)]
    /\ acted' = NoCommand
    /\ UNCHANGED <<connected, cur_path, where>>

\* RNTO: sceIoRename gets rename_path, which stays for a further RNTO.
RNTO(arg) ==
    /\ connected
    /\ HasVitaPath(gen_ftp_fullpath(arg))
    /\ acted' = [cmd |-> "rename", path |-> Names(get_vita_path(gen_ftp_fullpath(arg))),
                 wanted |-> Wanted(arg), sure |-> Reliable(arg),
                 from |-> Names(rename_path), source |-> source]
    /\ UNCHANGED <<connected, cur_path, rename_path, where, source>>

NavStep ==
    \/ CDUP
    \/ \E arg \in Arguments : CWD(arg) \/ FileCommand(arg) \/ RNFR(arg) \/ RNTO(arg)

NavNext == NavConnect \/ NavDisconnect \/ NavStep
NavSpec == NavInit /\ [][NavNext]_navVars

-----------------------------------------------------------------------------
\* cur_path names the directory the client should be in, after any sequence of
\* CWD and CDUP with absolute and relative paths, leading, trailing and doubled
\* slashes: a text that fits its buffer, / or at least a device with its slash.
\* What is excepted is a joined path that was cut, and the CDUP that takes a
\* trailing slash for the root of a device, until the client names a full path.
CwdTracked ==
    /\ cur_path[1] = "/" /\ Len(cur_path) < PATH_MAX
    /\ cur_path = Root \/ Cardinality(Slashes(cur_path)) > 1
    /\ track = "exact" => Names(cur_path) = cwd

\* Comment in dir_up: "Case root of the device (/foo0:/)": only from there does
\* CDUP go to /, and from every other directory to its parent.  dir_up goes to /
\* from every path that ends in a slash.
CdupLeadsToParent == track # "lost" => Names(cur_path) = cwd

\* A file command works on the file its argument names in the directory the
\* client should be in, and a rename moves the file that the last RNFR with a 350
\* named when it was sent, whatever the client changed into, failed or renamed in
\* between.  What is excepted is a name that depended, when it was sent, on a
\* directory that was wrong already or a joined path that was cut.
FileCommandTarget ==
    /\ acted.cmd # "none" /\ acted.sure => acted.path = acted.wanted
    /\ acted.cmd = "rename" /\ acted.source.sure => acted.from = acted.source.names
=============================================================================
