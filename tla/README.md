# VitaCompanion in TLA+

VitaCompanion is a plugin that runs inside the shell process of a PlayStation
Vita. It serves files over FTP (`libftpvita`), takes one-line commands from a
development host (`reboot`, `ftpreset`, `launch`, ...), and starts and stops both
services with the Wi-Fi link. This directory holds TLA+ specifications of its
concurrent and failure-prone parts, TLC configurations that check them on small
instances, and TLAPS proofs that hold for every instance.

## The system

| Part | Source | State it keeps | Operations |
|---|---|---|---|
| FTP server core | `libftpvita/ftpvita.c` | client list and counter behind `client_list_mtx`; `transfer_active`; `reboot_quiesce_requested`; listener; start status | `ftpvita_init`, `ftpvita_fini`, `server_thread`, `client_thread`, `client_list_add/_delete/_thread_end`, `client_begin/_end_transfer`, `ftpvita_prepare_for_reboot`, `ftpvita_cancel_reboot`, `ftpvita_abort_clients` |
| FTP session | `libftpvita/ftpvita.c` | per client: three sockets, kind of data connection, restart offset, paths | the FTP commands |
| Download loop | `libftpvita/ftpvita_retr.h` | counters, buffer position, result | `ftpvita_retr_extent` |
| Upload loop | `libftpvita/ftpvita_store.h` | counters, buffer position, result | `ftpvita_store_stream` |
| Parsers | `libftpvita/ftpvita_parse.h`, `src/parser.c` | none | pure functions |
| Command server | `src/cmd.c` | thread, start status, listener slot, client slot | `cmd_start`, `cmd_end`, `cmd_thread` |
| Commands | `src/cmd_definitions.c` | none of their own | one function per command |
| Life cycle | `src/net.c`, `src/main.c` | `run`, `desired_connected`, `net_connected`, `all_is_up` | `module_start`, `module_stop`, `net_thread`, `netctl_cb`, `start_services`, `stop_services` |
| Package installer | `src/package_installer.c` | staging directory | `install` (extract, build head, promote, clean up) |
| Support | `src/log.c`, `src/sha1.c`, `src/vita_shell_head_bin.h` | none | formatting, hashing, data |

How they interact. `module_start` starts the network thread. That thread alone
calls `ftpvita_init`, `cmd_start`, `cmd_end` and `ftpvita_fini`. libftpvita has a
server thread that accepts clients and gives each a thread; the clients share the
list, one transfer gate and the reboot guard. The command thread serves one
command at a time and calls into libftpvita: `reboot` reads the list and the gate
and sets the guard, `ftpreset` walks the list and aborts sockets. Blocking calls
(accept, receive, send) return by data, by time-out, by an abort of the socket or
by its close; that is also how every teardown gets its threads back.

What is hard. Four kinds of thread over shared state of which half is behind a
mutex and half behind atomic built-ins; thread objects that either their own
thread or the teardown deletes; a mutex that is itself created and deleted;
descriptors that are copied, closed by somebody else and reused; partial reads,
sends and writes; files that change while they are sent; set-up steps of which
each can fail; state of one FTP command that outlives it.

What makes the parts correct, in short:

* core: the bookkeeping stays consistent; one transfer at a time; the gate and the
  guard are never left set; no client is touched after it is freed nor deleted
  twice; nothing is admitted once a reboot is decided; abandoned clients leave;
  teardown returns;
* loops: what arrives is a prefix of what was sent, "complete" means all of it,
  the reported counts are exact, the loop ends;
* session: no socket is lost, a restart offset applies to its own transfer only; a
  file command works on the file the client named, seen from the directory it should
  be in;
* parsers: a text is accepted exactly when it has its meaning, at every size;
* requests and packages: the command that runs is the line the peer sent, every
  request is answered, "Launched" and "Installed" are true, what is promoted is the
  verified archive, and nothing stays loaded;
* command server and life cycle: commands run only on a live libftpvita, there is
  one command thread, every socket has one owner, the module can be stopped, and
  the services follow the link.

`PROJECT.json` lists the components, the hazards at their lines, and for every
definition the lines it translates.

## Modules

| Module | What it is |
|---|---|
| `FtpServer` | the concurrent core of libftpvita |
| `FtpServerProofs` | its inductive invariant and theorems |
| `ReliableCopy` | abstract: what a transfer promises |
| `RetrExtent`, `StoreStream` | the two loops; both implement `ReliableCopy` |
| `SequenceLemmas` | lemmas shared by the proofs: induction, sums, folds, the pieces and the tokens of a text, what `parse_cmd` returns |
| `RetrExtentProofs`, `StoreStreamProofs` | their invariants, exactness and refinement |
| `FtpSession` | the data connection and restart offset of one client |
| `FtpNavigation` | current directory, full paths and rename of one client |
| `FtpSessionProofs` | invariants and theorems of both |
| `Companion` | command server, network thread, module stop |
| `CompanionProofs` | its invariant and theorems |
| `Texts` | parts and tokens of a text, by their positions |
| `CommandParser` | `parse_cmd` |
| `Parsers` | the other parsers of the program, as operators |
| `ParserReference` | what the same texts mean, without scanning them |
| `ParserChecks` | all texts up to a length and what the parsers must find in them |
| `ParserProofs` | theorems of `ParserChecks`: what every parser returns, for every text |
| `PackageInstaller` | `install_vpk` from the first clean-up to the last |
| `CommandRequest` | one request of the command port; uses `Parsers` and `PackageInstaller` |
| `PackageInstallerProofs` | invariants and theorems of both |
| `MCFtpServer`, `MCFtpSession`, `MCCommandRequest` | symmetry, composition and inputs for TLC |

### FtpServer

Variables carry the names of the code's. `owner` is the position of the network
thread in `ftpvita_init`/`ftpvita_fini`, `server` and `cur` that of the server
thread and its local `client`, `pc[c]` that of each client thread, `cmd` that of
the command thread; `joinset` is `client_thids`, `seen_*` and `scan` are locals of
`ftpvita_prepare_for_reboot` and `ftpvita_abort_clients`. A critical section that
does not block is one step guarded by `mtx = "free"`; sections in which another
thread's unprotected step matters (the teardown scan, the reboot decision, the
walk of `ftpreset`) hold `mtx` over several steps. Each access with a `__sync`
built-in is a step of its own. The doubly linked list is the set of its elements.

A client identity goes back to `"free"` when its thread is gone and may then
connect again. Abandonment is the environment step `PeerVanishes`; a socket's
time-out and abort are the sets `ctrl_timed`, `data_timed`, `ctrl_aborted`,
`data_aborted`. An accepted passive socket is stored in the client by a step of
its own (`StorePasv`), because an abort between the two misses it.
`configure_socket_io_timeout` may fail when `SetsockoptMayFail`; its callers go on.

Assumptions and abstractions:

* an abort with the preservation flags is sticky: the next blocking call on that
  socket returns too. `client_list_thread_end` relies on it, since it aborts once
  and then joins;
* replies on the control connection are short and do not block;
* the two second wait of `ftpvita_init` does not expire, and failures before the
  server thread is started, which restore everything, are stuttering;
* so are a failed `malloc` or thread creation on accept (everything is undone), a
  PORT with bad arguments, and every command that touches none of this state;
* a second `reboot` while the guard is set changes nothing; locking the mutex does
  not fail while the server is up;
* an accepted cold reset ends the run some time later. A link loss before that
  drops the guard: `reset = "orphaned"`, and `SafeReboot` claims nothing from there;
* the command thread runs only while the server is up and is joined before
  `ftpvita_fini`. `Companion` proves that (`CommandsRunOnLiveFtp`).

### ReliableCopy, RetrExtent, StoreStream

`ReliableCopy` has a source that grows until it is closed and a sink that is
always a prefix of it; a copy may fail at any point but completes only when
everything arrived. `RetrExtent` and `StoreStream` are the loops statement by
statement. A byte is its offset, so loss, duplication and reordering are visible.
Callbacks return errors, zero, short counts and counts that are too large (the code
tests for them). `Resize` lets other programs change the file at any moment;
`PeerSends` lets the uploading host send and close. `INT_MAX` is a constant, so
that the argument check has both outcomes; the loops are checked with all argument
values the functions accept or reject, as the repository's unit tests do.

### FtpSession

One client over one file. The commands are PASV, PORT, REST, LIST, RETR, STOR and
APPE, each with every early return; a transfer is the step up to its open data
connection and the step that ends it. Files are their length; `unsigned int` is
scaled to `0..UINT_MAX` with `restore_point = -1` stored as `UINT_MAX`. `asked`,
`refused` and `last` are history variables that no guard reads.

### FtpNavigation

`cur_path` and `rename_path` are the texts the code keeps, over the alphabet of the
slash, device names and one-character names; `PATH_MAX` is scaled and `snprintf` cuts
there. `dir_up`, `gen_ftp_fullpath`, `get_vita_path` and the target of CWD are
translated as they are, the slash that marks the root of a device included. Whether
a directory or file exists is open at every step: a command that fails stutters. A
command whose path has no part behind the leading slash reaches no device.

What the client may expect is kept beside the texts. `cwd` holds the components it
went down and up, from its arguments alone: CDUP takes the last one away, whatever
`dir_up` does (a component `.` or `..` inside an argument is a name like others, which
the device resolves). `source` is the file an accepted RNFR named by its argument and
`cwd`, not the text that the code built. `track` says whether `cur_path` is comparable:
`"misread"` after a CDUP from a directory below a device whose path ends in a slash,
which `dir_up` takes for the root of a device (a finding, see below); `"lost"` after a
relative CWD that was cut or began in a wrong directory; `"exact"` again with every full
path. A name that depends on the current directory is `sure` only if `track` is exact
and the joined path fits when the name is sent; an RNFR that was cut stays unsure until
its RNTO, wherever the client goes in between.

Arguments come out of `recv_buffer[512]`, which is shorter than `PATH_MAX` by more than
two characters (`NavAssumption`). That is why the slash which CWD appends to `/foo:`
(`strcat`, before the directory is looked up) fits `tmp_path`: a path with one slash
only is such an argument, alone or behind `/`.
`MCFtpSession` puts `FtpSession` and `FtpNavigation` of the same client side by side;
they share the start and the end of the session and no other state, so each moves
while the other is at rest. The texts of `ParserChecks` (below) are typed in the same
model before the client connects: the parsers read them and keep no state.

### Texts, CommandParser, Parsers, ParserReference, ParserChecks

A text is a sequence of one-character strings; reading behind its end gives the NUL.
The cursor loops are `SpanEnd` and `UntilEnd`, the digit loops (`RestValue`,
`OctetValue`) folds with the code's guard, PORT one `ReadField` after the other,
`parse_cmd` a scan per character, a recursive function of the position. The loop of
`is_safe_archive_path` stops at the first component it refuses, so it is a test of the
components at `ComponentStarts`.
`Tokens` of `Texts` are the words of a text and the components of a path: from the
k-th position where one starts to the k-th where one stops. Buffer sizes, the offset limit, the
number of fields and the octet limit are parameters. `ParserReference` says what a
text means by its positions and pieces: a number is the sum of its digits with their
weights, a path leads from directory to directory (`Enter`, `Place`). `ParserChecks` types
every text and compares.

### PackageInstaller, CommandRequest

`pc` is the position in `install_vpk` and the functions it calls. A staged file is
followed by the origin of its bytes: an entry of the archive, `head.bin` of this call,
an unfinished write, or an earlier call. An archive is its list of entries, each with
the verdict of the checks the code makes on it (headers, type, local header, size and
CRC), its path and declared size, and for a `param.sfo` its rows. Every call may fail.
`remove_tree` has its three outcomes: all gone; nothing done and success (a failed
`getstat` on the directory counts as absent); any part gone and an error. The result
of the first `remove_tree` is ignored, as in the code. Promotion takes the staged tree
or leaves it (external). `PowerLoss` may come at every step; the stage survives it.

`CommandRequest` is the command thread with one connection: the peer's bytes arrive
in segments of any size, and the connection may end or fail between any two. A
request that ends without a newline is executed, as the code does. `launch` polls the
foreground, which anybody changes; `screenshot` looks SceShell up once per start.
Command names are one character each, and commands with the same outcomes share one.

### Companion

`net` is the position of the network thread, `cmd` that of the command thread;
`sock` says who owns each kernel descriptor, and a descriptor is reusable as soon
as it is closed. `close_socket_slot` is an atomic exchange followed by the close.
`libftpvita` is `ftp` (up or down) and the sockets it holds (`FtpSockets`, external;
it leaves two descriptors to the command server). `Faults` says whether `cmd_start`
may time out and whether the state query may fail. Every other call (thread
creation, socket, bind, listen, accept, `ftpvita_init`) may always fail. `cmd_start`
tests `loader_start_status` and reads it again for its result; these are two steps
(`CmdWait`, `UndoRead`) with the command thread running between them, and `ret` is the
local that holds the result while the thread is joined; it keeps its value until the next
start, so that a service reported up by an undone start can be told from others.

## What TLC checks

Every run is exhaustive for its constants.

| Run | Instance | Shows |
|---|---|---|
| `FtpServerSafety` | 3 clients, limit 2, `reboot` and `ftpreset` at any time | the safety properties of the core below |
| `FtpServerLiveness` | 2 clients, `reboot`, working time-outs | `AbandonedClientsLeave`, `RebootAnswered`, `FiniCompletes` |
| `FtpServerReset` | 1 client, time-outs that may fail, repeated `ftpreset` | `ResetRecovers` |
| `FtpServerUntimed` | 2 clients, time-outs that may fail | violates `AbandonedClientsLeave` (finding) |
| `FtpServerAdmission` | 2 clients | violates `AdmitsOneTransfer` (finding) |
| `RetrExtent` | files up to 6 bytes, buffers of 0 to 5, `INT_MAX` 4 | `ExactProgress`, `Terminates`, `RefinesCopy` |
| `StoreStream` | streams up to 6 bytes, the same buffers | `ExactProgress`, `Terminates`, `RefinesCopy` |
| `FtpSession` | 4 descriptors, `UINT_MAX` 3, files up to 4 bytes; 6 path arguments, `PATH_MAX` 8; all texts of up to 5 of 10 characters | `NoSocketLeak`, `RetrUsesItsRest`; `CwdTracked`, `FileCommandTarget` (the source of a rename included); `ControlTextParsed` (line, restart offset and PORT tuple), `CommandIsWords`, `SafePathStaysInside` |
| `FtpSessionStale` | the first half of it | violates `StorOverwrites` (finding) |
| `FtpSessionCdup` | the constants of `FtpSession`, no texts | violates `CdupLeadsToParent` (finding) |
| `Companion` | 4 descriptors, 3 queued link events, all faults | `CommandsRunOnLiveFtp`, `SocketOwnership` (no socket leaks, slots name only their own), `ListenerVerified`, `StopCompletes`, `LinkFollowed` |
| `CommandRequest` | 16 requests, 8 archives, 3 staged paths, a buffer of 6 bytes, 2 confirmation attempts | `CmdFramed`, `LaunchConfirmed`, `RequestAnswered`, `PromotedIsArchive`, `AnswerHonest`, `ModulesReleased`, `TotalBounded`, `RequestTypeOK` |

The type invariants of `FtpServer`, `RetrExtent`, `StoreStream`, `FtpSession` and
`Companion`, and the invariants `ExactExtent`, `WholeUpload`, `EarlyEofIsTruncation`,
`OneCommandThread`, `OnlyStopTakesClient` and `LinkViewCurrent`, are proved for every
instance (below); no run checks them again.

The safety properties of the core: `ListConsistent` (list, flag, counter and
threads agree), `SingleFlight` and `SingleStream` (one transfer, and even during
teardown one data stream), `GateNotLeaked`, `SafeReboot`, `GuardNotLeaked`,
`MutexOutlivesUsers`, `OneDeleter`, `NoDanglingClient`, and `NoClientDropped` (an
action property: who leaves the list removed itself or will be joined).

Why the bounds are enough. With three clients against a limit of two, one client
can transfer, one compete for the gate and one be refused, or one be visited by a
teardown while another removes itself and a third has left already; the proofs
remove the bound. The liveness runs use two clients, the smallest number at which
gate and mutex are contended; `FtpServerReset` one, because each client's recovery
depends on its own sockets only. Six bytes against buffers of one to four give
several full chunks, an exact fit and a short last one, with each chunk split into
up to four sends. Four descriptors hold one client's three sockets and leave one
free or none while a passive connection replaces another. Three queued link events
include a down and an up that the network thread has not seen yet.

A path of seven characters (a device name counts as one) holds a device, two names and
their slashes and is cut by the next relative name; the arguments are absolute, relative,
on a device, with a doubled slash inside and with a final slash (which a file command
doubles). The archives are right ones (with a directory, with two
entries of one path, with a `head.bin` of their own), one without `param.sfo`, one
whose sizes only together exceed the limit, and one for each check that fails; the
requests end early, exceed the buffer, fill it exactly, have a second line, and use
every command with the right and the wrong number of arguments. Five characters (a digit also serves as a letter, and the end of the text is its NUL) hold
a blank, a verb that fills its buffer, a blank and an argument, a number of one digit
more than the limit has, a tuple with its comma, and `../` behind a name.

Deadlock is checked for the core, where some thread can always go on, except in
`FtpServerReset` and `FtpServerUntimed`: with untimed sockets `ftpvita_fini` can
really wait for ever, for a client whose passive socket was accepted but not stored
when the abort came. The loops return and the module is unloaded, so there the
behaviour ends.

### Fairness

* Threads have equal priority and block regularly: weak fairness of every step that
  does not wait for somebody. `client_list_mtx` serves its waiters in order: strong
  fairness of the lock steps.
* A timed or aborted socket call returns: weak fairness of `Wakes`. The close of a
  listener ends its accept.
* Nothing is assumed of hosts or of the link. `FiniCompletes` carries its condition
  in its statement: no peer keeps one transfer going for ever. `ResetRecovers` is
  about an operator who repeats `ftpreset` (`OperatorResets`), `LinkFollowed` about
  starts that stop failing some time, which is a premise of its statement. It excepts a
  start that timed out, whose join may not return or whose late success may be taken for
  a running service. `StopCompletes` excepts only a listener that is created after
  `cmd_start` has closed the slot (`LateListener`): nobody ends its accept.
* The command thread goes on once it has a connection (`FairSpec` of
  `CommandRequest`): its socket is timed or not read from, and each system call
  returns. `RequestAnswered` assumes nothing of the peer, the archive or the foreground.
* The callbacks of the copy loops return: local file, timed socket.

### Findings

1. `FtpServerUntimed`: README `TIMED_IO` says that an abandoned transfer cannot hold
   a thread; the result of `configure_socket_io_timeout` is ignored, and without the
   time-out it can. `FtpServerReset` shows that `ftpreset` still recovers the thread.
2. `FtpServerAdmission`: teardown clears `transfer_active` under an admitted client,
   so a second client passes `client_begin_transfer` and may open and truncate its
   file. `SingleStream` shows that it never gets a data connection.
3. `FtpSessionStale`: an APPE or a restarted STOR that is refused or gets no data
   connection leaves `restore_point` set, and the next plain STOR appends.
4. `FtpSessionCdup`: the comment in `dir_up` calls the branch for a final slash the root
   of a device; after CWD `/ux0:` and CWD `b/` the path is `/ux0:/b/`, and CDUP leads to
   `/` instead of `/ux0:/`.

One disagreement has no run of its own and is an exception of `ListenerVerified`. README
`CMD_FRAMED` says that the plugin "verifies that the command listener has successfully
bound before reporting the service as available". `cmd_start` tests
`loader_start_status` (cmd.c:243) and reads it again for its result (cmd.c:245). A thread
that stores 0 between the two, after a time-out, is closed and joined, yet `cmd_start`
returns 0 and `all_is_up` is set with no command thread, until the link drops. In the
model that is `UndoJoin` with `ret = "ok"`; without the conjunct `ret # "ok"` TLC violates
the property by this behaviour.

## What is proved

All theorems hold for every value of the constants allowed by the named `ASSUME`s:
finite sets of clients, descriptors and staged paths, positive limits of clients and of
words, at least one field of PORT, natural sizes, a refusing answer that is none of the
accepting ones, archives whose accepted entries have their paths among the staged
ones, and path arguments at least three characters shorter than `PATH_MAX` (they come
out of `recv_buffer[512]`).

**FtpServerProofs.** `Spec => []P` for `TypeOK` and every invariant of the
safety run, and the action property `NoClientDropped`. None of them is
inductive. `Inv` adds what the code's argument rests on:

* `CurInv`: a client between accept and thread start belongs to the server thread;
* `PhaseInv`: the position of the network thread determines who may hold the mutex,
  whether there is a server thread or a command, and where the list is empty;
* `ListInv`: list, flag, counter, join set and client positions agree. It is what
  makes the array bound of `client_list_thread_end` harmless: the counter equals the
  cardinality of the list, so the scan never ends for lack of room;
* `GateInv`: outside the join phase the gate is set exactly while somebody holds it;
* `JoinInv`: a client that teardown has visited receives no further command and, if
  its data connection is not open yet, will find it aborted. `SingleStream` needs it:
  the gate alone does not protect the join phase;
* `RebootInv`: the guard is set before the count is taken, admission tests it under
  the same mutex, so what was counted stays true until the decision. A client that
  holds the gate is listed, hence an empty list excludes a transfer;
* `ScanInv`: the walk of `ftpreset` visits listed clients only.

There is one lemma per conjunct and under it one step per action that can disturb
it; `Invariance` combines them.

**RetrExtentProofs, StoreStreamProofs.** `ExactProgress`, the exactness of completed
transfers (`ExactExtent`, `WholeUpload`) and `Spec => RefinesCopy`. The invariant says
what the buffer and the sink contain (consecutive offsets, meeting at the position of
the loop) and how the counters determine both; `SequenceLemmas` has the facts about
slices of such sequences.

**CompanionProofs.** All safety invariants of `Companion`, with every fault
allowed and any number of queued events. `LinkViewCurrent` is inductive together with
the types. For the others the invariant ties the position of the network
thread to what is up (`PhaseInv`) and each descriptor to its slot or to the command
thread's hand (`LoaderInv`, `ClientInv`). `OneCommandThread` says that there is never a
second thread, that `cmd_start` never meets one, and that a thread between two polls
means `all_is_up`. The converse is `ListenerVerified`, with the exception described under
the findings. It needs `StatusInv`: a thread that has not tried to bind has no status yet,
and it stores one only once.

**FtpSessionProofs.** Every invariant of `FtpSession`. `SocketInv` says that the open
descriptors are exactly those in the client's three fields and that the fields differ;
from it follows the count in `NoSocketLeak` (the fields in use are numbered by a
bijection onto their descriptors). `FileInv` relates the restart point to what was
asked for.

For `FtpNavigation` the same module has `CwdTracked` and `FileCommandTarget`, for every
set of arguments and every `PATH_MAX`. `NavInv` adds to them what CDUP and CWD rely on:

* `PathForm`: `cur_path` starts with a slash, fits its buffer, and is `/` or has another
  slash, so that `dir_up` always has one to go back to;
* `PathSpelled`: while `track` is exact, the components of `cur_path` are `cwd`. CDUP keeps
  it because cutting a path at its last slash takes its last component away when the path
  does not end in a slash (`LastSlash`), and because `/` is the parent when it does and
  there is one component at most; CWD because joining with one slash joins the components;
* `RenameKept`: `rename_path` spells the file the last accepted RNFR named, if the client
  could know which one that was.

That CWD's added slash fits the buffer (`CwdTargetForm`) uses `PathForm`: a target with
only one slash was built from `/` or from a full path.

The steps rest on what `\o` and cutting at a slash do to the tokens of a text
(`TokensConcat`, `TokensAlone` of `SequenceLemmas`).

**PackageInstallerProofs.** Every invariant of `PackageInstaller` and `CommandRequest`,
for every set of archives, paths, requests and limits. The installer's are proved of
`InstallerSpec`, and `RequestDrivesInstaller` (`Spec => InstallerSpec`) carries them over
to the command server. `InstallInv` has one part for each thing the answer depends on:

* `HeldInv`: what each position of `promote_stage` needs, that what is held is that and
  what the system refused to release, and that the two are apart (`ModulesReleased`);
* `CallInv`, `FilesInv`: the ranges; outside a call no staged file belongs to an archive;
* `StageInv`: once the entries before `index` are extracted, every path holds the last of
  them that has this path, or what the first clean-up left there; the entry under
  extraction is excepted, and `head.bin` from `make_head_bin` on. This is the step from
  "each entry was checked" to "the stage is the archive", which entries of one path and
  leftovers of earlier calls could break;
* `PromotedInv`: the promoted tree is the stage as it was then (`PromotedIsArchive`);
* `ResultInv`: a failure, once recorded, stays, and success means a promotion and nothing
  leaked (`AnswerHonest`).

`SizesInv` says that `total_size` covers the bytes of this archive on the stage and those
of the entry under extraction (`TotalBounded`): a later entry of the same path is counted
again, while its file replaces the earlier one. `RequestInv` has the ranges, that the
installer runs exactly while its command does, and that the title `launch` looks at is
among those seen (`LaunchConfirmed`). `FramedInv` adds that "too long" is answered about
the text that is still in the buffer; with `FirstLine` (a part of a request that has the
newline has the same first line) and `ParseCommand` it gives `CmdFramed`.

**SequenceLemmas, ParserProofs.** `ParseCommand`: for every text, `parse_cmd` returns the
words of the first line, or "too many" exactly when there are more than `arg_list` holds;
`CommandIsWords` follows. `ScanInv` says what the scan has after n characters: while it
goes on, the words of these n, the last one open exactly if the n-th is part of a word;
after a terminal, those before it; after an overflow, that n characters have too many
words, hence the line has (`TokensGrow`).

`PathStaysInside`: `is_safe_archive_path` accepts a path exactly when it plainly spells a
place below the staging directory (`SafePathStaysInside`). The components the loop comes by
are the pieces of the path between its slashes, without the empty one behind a last slash
(`ComponentsArePieces`, from `SplitPieces` and `SplitAtEnd`). If none of them is empty, `.`
or `..`, entering them one after the other appends each, so the place is the list of
components; conversely no place has a component that leads nowhere (`PlaceOfNames`).

`ControlTextIsParsed`: the verb and the argument, the number of REST and the tuple of PORT
are those of the line, and every other line is refused (`ControlTextParsed`). It has three
parts. `ControlLineText` shows that the four cursors of a line are its only meaning: a cursor
stops at one place (`SpanStops`, `UntilStops`), and looking for the end of the argument in
the rest of the line finds that of the line (`UntilInRest`). `RestText` and `PortText` rest
on `DigitLoop`: a loop that adds digit after digit and refuses one that leads above the
maximum holds the number of the digits read while that is at most the maximum, and has
refused for good otherwise, because a number never shrinks by a further digit
(`NumberSteps`). Both the test before the multiplication (REST) and the one behind it (PORT)
are such loops, so the offset never passes its limit on the way. For PORT, `FieldText` says
that the digits at the cursor end where the field between two commas does exactly when the
field is legal, and `PortFields` carries this through the fields, with the blanks allowed
behind the last.

The induction theorems of the library take an operator and cannot be used here. Inductions
over numbers, texts and finite sets are done with the property as a set: `SetInduction`
(from the least number outside the set), `SequenceInduction` and `SubsetInduction`. With
them the recursive functions of `parse_cmd` and PORT, the weights of digits and the
community modules' sums and folds are first shown to exist (`ScanDefined`, `FieldsDefined`,
`WeightsExist`, `SumsDefined`, `FoldExists`).

Only model-checked: the liveness properties (`AbandonedClientsLeave`, `RebootAnswered`,
`FiniCompletes`, `ResetRecovers`, `Terminates` of both loops, `StopCompletes`, `LinkFollowed`,
`RequestAnswered`), because TLAPS does not reason about fairness and `ENABLED` here. Every
invariant and action property of a passing run, and both refinements, are proved.

## Not modelled

* The framing of FTP control input: each receive counts as one line in the code, and
  no document promises more. What is done with a line is in `Parsers`.
* The optional argument of LIST, which is used as it is and not resolved against the
  current directory; PWD and TYPE, which change nothing.
* Bytes of archive entries: the counts and the CRC are one verdict, so `TotalBounded`
  is about declared sizes; a deflated entry that produces more than it declares is
  written before it is refused. `produced_total` is a `uint32_t`, so one that is longer by
  2^32 bytes and has the right CRC is not refused at all. Directories below the stage. Entry names with a NUL
  inside.
* What the foreground is when no application id can be had: `get_foreground_title_id`
  reports `main` for any id that is not positive, a failed query included, and the model
  follows what it reports.
* Where a restart offset lies in its file: the test in `send_file` is a guard of
  `RetrStarts`; what the loop does from any offset is `RetrExtent`.
* The list pointers; the time-out of `ftpvita_init` (after it a server thread may
  listen without an owner, and no property of the core holds without excepting it);
  descriptor reuse between FTP clients when `ftpreset` or teardown aborts a descriptor
  it has just read.
* Listings and logs (formatting), SHA-1 and the head template (third-party code and
  data), the device and custom command tables (filled before they are used).

## Plan

Done: the core, the loops with their abstract specification, the session, navigation,
the life cycle, the parsers, the installer and the command requests around it; proofs of
every safety invariant and action property of these, and of both refinements.

What could follow:

1. `ClientList`: the pointers, shown to implement the set of `FtpServer`.
2. A composition of `Companion` with `FtpServer` over one descriptor table, for the
   aborts of reused descriptors.
