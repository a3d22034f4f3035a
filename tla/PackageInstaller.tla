-------------------------- MODULE PackageInstaller --------------------------
(***************************************************************************)
(* install_vpk (package_installer.c): the staging directory is cleared,    *)
(* the archive is extracted into it entry by entry, a head.bin is made     *)
(* from the title of its param.sfo, the directory is promoted and cleared  *)
(* again.  Every call to the system may fail, and the power may go at any  *)
(* step: memory is lost then, the staging directory is not.                *)
(*                                                                         *)
(* A staged file is followed by where its bytes come from: an entry of     *)
(* the archive (by its index), head.bin made by this call, an unfinished   *)
(* write, or an earlier call.  Directories below the staging directory     *)
(* are not followed.                                                       *)
(***************************************************************************)
EXTENDS Parsers

CONSTANTS
    Archives,           \* what the file at vpk_path can be
    FilePaths,          \* the paths of files below INSTALL_STAGE, as texts
    PARAM_SFO, HEAD_BIN,\* INSTALL_SFO and INSTALL_HEAD among them
    INSTALL_TOTAL_MAX,
    ValidTitles,        \* what valid_title_id accepts
    OldTitle            \* the title in a param.sfo that an earlier call left

IsDirectory(path) == Last(path) = "/"

\* An archive: whether its central directory is found, and its entries.  header
\* and local: the central and local headers pass every test; type: the unix type
\* does; sound: the data has the declared size and CRC; sfo: the table of a
\* param.sfo, each row well-formed or not.
ASSUME InstallerAssumption ==
    /\ PARAM_SFO \in FilePaths /\ HEAD_BIN \in FilePaths /\ PARAM_SFO # HEAD_BIN
    /\ IsFiniteSet(FilePaths) /\ \A p \in FilePaths : ~IsDirectory(p)
    /\ INSTALL_TOTAL_MAX \in Nat
    /\ ValidTitles \cap {"", "none", "error"} = {}
    /\ \A a \in Archives :
         /\ a.central \in BOOLEAN
         /\ a.entries \in Seq([path : Seq(STRING), header : BOOLEAN, type : BOOLEAN, size : Nat,
                               local : BOOLEAN, sound : BOOLEAN,
                               sfo : Seq([key : STRING, good : BOOLEAN, value : STRING])])
         /\ \A i \in DOMAIN a.entries :
              LET path == a.entries[i].path IN
              path # <<>> /\ (is_safe_archive_path(path) /\ ~IsDirectory(path) => path \in FilePaths)

VARIABLES
    pc,         \* the next step of install_vpk, "idle" outside
    archive, index, total_size, title_id, result,
    stage,      \* origin of each file below INSTALL_STAGE
    stage_dir,  \* INSTALL_STAGE exists
    held,       \* what promote_stage has loaded or initialised and not released
    leaked,     \* history: what it failed to release
    cleared,    \* history: the stage was empty when extraction began
    promoted,   \* history: the stage as it was promoted by this call
    answer      \* what cmd_install reports: "none", "error" or a title

installVars == <<pc, archive, index, total_size, title_id, result, stage, stage_dir,
                 held, leaked, cleared, promoted, answer>>
call == <<archive, index, total_size, title_id>>
modules == <<held, leaked>>

Absent == 0
Partial == -1
Old == -2
Fresh == -3         \* head.bin written completely by make_head_bin
Empty == [p \in FilePaths |-> Absent]
NotPromoted == Empty
NoArchive == [central |-> FALSE, entries |-> <<>>]

Steps == {"idle", "clear", "make", "open", "entry", "data", "head", "paf", "util", "init",
          "promote", "exit", "unload_util", "unload_paf", "cleanup", "answer", "returned"}

InstallerInit ==
    /\ pc = "idle" /\ archive = NoArchive /\ index = 1 /\ total_size = 0
    /\ title_id = "" /\ result = "ok"
    /\ stage = Empty /\ stage_dir = FALSE
    /\ held = {} /\ leaked = {} /\ cleared = FALSE
    /\ promoted = NotPromoted /\ answer = "none"

-----------------------------------------------------------------------------
\* result after a later step: the first failure is the one that is reported.
KeepMutant(first, later) == later
Keep(first, later) == IF first = "ok" THEN later ELSE first

\* A step that failed: what is left of install_vpk is the clean-up.
Fail == pc' = "cleanup" /\ result' = "error"

\* Outcomes of remove_tree(INSTALL_STAGE).  A getstat that fails on the
\* directory itself counts as "nothing there"; one that fails further down
\* leaves a file, so that sceIoRmdir fails; any failure stops the walk.
RemoveTree(outcome) ==
    \/ outcome = "ok" /\ stage' = Empty /\ stage_dir' = FALSE
    \/ outcome = "ok" /\ UNCHANGED <<stage, stage_dir>>
    \/ /\ outcome = "error" /\ stage_dir
       /\ stage' \in {[p \in FilePaths |-> IF p \in gone THEN Absent ELSE stage[p]]
                         : gone \in SUBSET FilePaths}
       /\ UNCHANGED stage_dir

\* Outside a call nothing of it is left but the files.
Forget ==
    /\ pc' = "idle" /\ archive' = NoArchive /\ index' = 1 /\ total_size' = 0
    /\ title_id' = "" /\ result' = "ok"
    /\ held' = {} /\ leaked' = {} /\ cleared' = FALSE
    /\ promoted' = NotPromoted /\ answer' = "none"
    /\ stage' = [p \in FilePaths |-> IF stage[p] = Absent THEN Absent ELSE Old]
    /\ UNCHANGED stage_dir

\* cmd_install calls install_vpk with an argument that ends in .vpk.
Install(a) ==
    /\ pc = "idle"
    /\ pc' = "clear" /\ archive' = a
    /\ UNCHANGED <<index, total_size, title_id, result, stage, stage_dir, modules, cleared,
                   promoted, answer>>

\* ... with any other argument.
RefuseArgument ==
    /\ pc = "idle"
    /\ pc' = "answer" /\ result' = "error"
    /\ UNCHANGED <<call, stage, stage_dir, modules, cleared, promoted, answer>>

\* The result of the first remove_tree is not looked at.
ClearStage ==
    /\ pc = "clear"
    /\ \E outcome \in {"ok", "error"} : RemoveTree(outcome)
    /\ cleared' = (stage' = Empty)
    /\ pc' = "make"
    /\ UNCHANGED <<call, result, modules, promoted, answer>>

MakeStage ==
    /\ pc = "make"
    /\ \/ pc' = "open" /\ stage_dir' = TRUE /\ UNCHANGED result
       \/ Fail /\ UNCHANGED stage_dir
    /\ UNCHANGED <<call, stage, modules, cleared, promoted, answer>>

-----------------------------------------------------------------------------
(* extract_vpk *)

Entry == archive.entries[index]
\* The file is opened and its central directory found, or not.
OpenArchive ==
    /\ pc = "open"
    /\ \/ archive.central /\ pc' = "entry" /\ UNCHANGED result
       \/ Fail
    /\ UNCHANGED <<call, stage, stage_dir, modules, cleared, promoted, answer>>

FitsMutant(size) == size <= INSTALL_TOTAL_MAX
\* The declared sizes so far and this one are within the limit.
Fits(size) == size <= INSTALL_TOTAL_MAX - total_size

\* The tests an entry passes before anything is written for it.
Accepted == Entry.header /\ is_safe_archive_path(Entry.path) /\ Entry.type /\ Fits(Entry.size)

\* One of them fails, or a read does.
EntryFails ==
    /\ pc = "entry" /\ index <= Len(archive.entries)
    /\ Fail
    /\ \/ UNCHANGED total_size
       \/ Accepted /\ total_size' = total_size + Entry.size
    /\ UNCHANGED <<archive, index, title_id, stage, stage_dir, modules, cleared, promoted, answer>>

EntryDirectory ==
    /\ pc = "entry" /\ index <= Len(archive.entries)
    /\ Accepted /\ IsDirectory(Entry.path)
    /\ total_size' = total_size + Entry.size
    /\ index' = index + 1
    /\ UNCHANGED <<pc, archive, title_id, result, stage, stage_dir, modules, cleared,
                   promoted, answer>>

\* The local header is right and extract_zip_data truncates the destination.
EntryFile ==
    /\ pc = "entry" /\ index <= Len(archive.entries)
    /\ Accepted /\ ~IsDirectory(Entry.path) /\ Entry.local
    /\ total_size' = total_size + Entry.size
    /\ stage' = [stage EXCEPT ![Entry.path] = Partial]
    /\ pc' = "data"
    /\ UNCHANGED <<archive, index, title_id, result, stage_dir, modules, cleared, promoted, answer>>

VerifiedMutant == TRUE
\* What came out of the stored or deflated data has the declared size and CRC.
Verified == Entry.sound

\* The rest of extract_zip_data.  A failure removes the destination, if it can.
ExtractData ==
    /\ pc = "data"
    /\ \/ /\ Verified
          /\ stage' = [stage EXCEPT ![Entry.path] = index]
          /\ index' = index + 1 /\ pc' = "entry" /\ UNCHANGED result
       \/ /\ stage' \in {stage, [stage EXCEPT ![Entry.path] = Absent]}
          /\ Fail /\ UNCHANGED index
    /\ UNCHANGED <<archive, total_size, title_id, stage_dir, modules, cleared, promoted, answer>>

ExtractDone ==
    /\ pc = "entry" /\ index > Len(archive.entries)
    /\ pc' = "head"
    /\ UNCHANGED <<call, result, stage, stage_dir, modules, cleared, promoted, answer>>

-----------------------------------------------------------------------------
(* make_head_bin *)

\* The value of a key: the first row that has it, unless a row up to it is not
\* well-formed.
sfo_string(sfo, key) ==
    LET stops == {i \in DOMAIN sfo : ~sfo[i].good \/ sfo[i].key = key}
        first == CHOOSE i \in stops : \A j \in stops : i <= j
    IN IF stops = {} THEN Reject ELSE IF sfo[first].good THEN sfo[first].value ELSE Reject

\* The titles that the param.sfo on the stage can give.
StagedTitles ==
    LET origin == stage[PARAM_SFO]
    IN (IF origin = Old THEN {OldTitle}
        ELSE IF origin > 0 THEN {sfo_string(archive.entries[origin].sfo, "TITLE_ID")} ELSE {})
       \cap ValidTitles

\* head.bin is written with one sceIoWrite; a short one leaves it behind.
MakeHead ==
    /\ pc = "head"
    /\ \/ /\ \E title \in StagedTitles : title_id' = title
          /\ stage' = [stage EXCEPT ![HEAD_BIN] = Fresh]
          /\ pc' = "paf" /\ UNCHANGED result
       \/ /\ \/ UNCHANGED stage
             \/ StagedTitles # {} /\ stage' = [stage EXCEPT ![HEAD_BIN] = Partial]
          /\ Fail /\ UNCHANGED title_id
    /\ UNCHANGED <<archive, index, total_size, stage_dir, modules, cleared, promoted, answer>>

-----------------------------------------------------------------------------
(* promote_stage *)

LoadPaf ==
    /\ pc = "paf"
    /\ \/ held' = {"paf"} /\ pc' = "util" /\ UNCHANGED result
       \/ Fail /\ UNCHANGED held
    /\ UNCHANGED <<call, stage, stage_dir, leaked, cleared, promoted, answer>>

\* A call that gives x back, whether it succeeds or not.
Release(x, outcome) ==
    \/ outcome = "ok" /\ held' = held \ {x} /\ UNCHANGED leaked
    \/ outcome = "error" /\ leaked' = leaked \cup {x} /\ UNCHANGED held

LoadPromoterMutant ==
    /\ pc = "util"
    /\ \/ held' = held \cup {"util"} /\ pc' = "init" /\ UNCHANGED <<leaked, result>>
       \/ Fail /\ UNCHANGED <<held, leaked>>
    /\ UNCHANGED <<call, stage, stage_dir, cleared, promoted, answer>>

\* Without the promoter module PAF is unloaded again, result unseen.
LoadPromoter ==
    /\ pc = "util"
    /\ \/ held' = held \cup {"util"} /\ pc' = "init" /\ UNCHANGED <<leaked, result>>
       \/ Fail /\ \E outcome \in {"ok", "error"} : Release("paf", outcome)
    /\ UNCHANGED <<call, stage, stage_dir, cleared, promoted, answer>>

PromoterInit ==
    /\ pc = "init"
    /\ \/ held' = held \cup {"session"} /\ pc' = "promote" /\ UNCHANGED result
       \/ result' = "error" /\ pc' = "unload_util" /\ UNCHANGED held
    /\ UNCHANGED <<call, stage, stage_dir, leaked, cleared, promoted, answer>>

\* scePromoterUtilityPromotePkgWithRif takes the staged tree away, or leaves it.
Promote ==
    /\ pc = "promote"
    /\ \/ promoted' = stage /\ UNCHANGED result
       \/ result' = "error" /\ UNCHANGED promoted
    /\ \/ stage' = Empty /\ stage_dir' = FALSE
       \/ UNCHANGED <<stage, stage_dir>>
    /\ pc' = "exit"
    /\ UNCHANGED <<call, modules, cleared, answer>>

\* One call that releases x, and what it does to the result.
ReleaseStep(at, x, next) ==
    /\ pc = at
    /\ \E outcome \in {"ok", "error"} : Release(x, outcome) /\ result' = Keep(result, outcome)
    /\ pc' = next
    /\ UNCHANGED <<call, stage, stage_dir, cleared, promoted, answer>>

PromoterExit == ReleaseStep("exit", "session", "unload_util")
UnloadPromoter == ReleaseStep("unload_util", "util", "unload_paf")
UnloadPaf == ReleaseStep("unload_paf", "paf", "cleanup")

-----------------------------------------------------------------------------
Cleanup ==
    /\ pc = "cleanup"
    /\ \E outcome \in {"ok", "error"} : RemoveTree(outcome) /\ result' = Keep(result, outcome)
    /\ pc' = "answer"
    /\ UNCHANGED <<call, modules, cleared, promoted, answer>>

\* cmd_install reports the title, or the error.
Answer ==
    /\ pc = "answer"
    /\ answer' = IF result = "ok" THEN title_id ELSE "error"
    /\ pc' = "returned"
    /\ UNCHANGED <<call, result, stage, stage_dir, modules, cleared, promoted>>

Return == pc = "returned" /\ Forget

\* The console loses power: what is on the memory card stays.
PowerLoss == pc # "idle" /\ Forget

\* The steps of install_vpk once it is called.
InstallerStep ==
    \/ ClearStage \/ MakeStage \/ OpenArchive \/ EntryFails \/ EntryDirectory \/ EntryFile
    \/ ExtractData \/ ExtractDone \/ MakeHead \/ LoadPaf \/ LoadPromoter \/ PromoterInit
    \/ Promote \/ PromoterExit \/ UnloadPromoter \/ UnloadPaf \/ Cleanup

InstallerNext ==
    \/ \E a \in Archives : Install(a)
    \/ RefuseArgument \/ InstallerStep \/ Answer \/ Return \/ PowerLoss

InstallerSpec == InstallerInit /\ [][InstallerNext]_installVars

-----------------------------------------------------------------------------
Origins == {Absent, Partial, Old, Fresh} \cup 1..Len(archive.entries)

\* The installer's variables stay in their ranges; an origin is an entry that
\* the archive has.
InstallerTypeOK ==
    /\ pc \in Steps
    /\ archive \in Archives \cup {NoArchive}
    /\ index \in 1..Len(archive.entries) + 1
    /\ total_size \in 0..INSTALL_TOTAL_MAX
    /\ title_id \in ValidTitles \cup {""}
    /\ result \in {"ok", "error"}
    /\ stage \in [FilePaths -> Origins] /\ promoted \in [FilePaths -> Origins]
    /\ stage_dir \in BOOLEAN /\ cleared \in BOOLEAN
    /\ held \subseteq {"paf", "util", "session"} /\ leaked \subseteq held
    /\ answer \in ValidTitles \cup {"none", "error"}

\* Entries that are files at p; the last one is what p holds in the end.
EntriesAt(p) == {i \in DOMAIN archive.entries : archive.entries[i].path = p}
Good(e) == e.header /\ e.type /\ e.local /\ e.sound

\* What is promoted is the archive, checked in full: the last entry of every
\* path it names, each with the right headers, size and CRC, with a head.bin
\* made by this call, and nothing else, unless the first clean-up failed
\* (whose result install_vpk does not look at).  Power losses and failures of
\* earlier calls leave files on the stage and change nothing of this.
PromotedIsArchive ==
    promoted # NotPromoted =>
        /\ promoted[HEAD_BIN] = Fresh
        /\ \A p \in FilePaths \ {HEAD_BIN} :
             IF EntriesAt(p) = {} THEN promoted[p] \in {Absent} \cup (IF cleared THEN {} ELSE {Old})
             ELSE promoted[p] = Max(EntriesAt(p))
        /\ \A i \in DOMAIN archive.entries :
             IsDirectory(archive.entries[i].path) \/ Good(archive.entries[i])

\* The answer tells the truth: a title only for a promotion that succeeded and
\* after which no module or session is held, and it is the title of this archive
\* unless an old param.sfo could not be removed; an error after a promotion
\* only if something was not released or not cleaned up.
AnswerHonest ==
    /\ answer \in ValidTitles =>
         /\ promoted # NotPromoted /\ held = {}
         /\ IF EntriesAt(PARAM_SFO) # {}
            THEN answer = sfo_string(archive.entries[Max(EntriesAt(PARAM_SFO))].sfo, "TITLE_ID")
            ELSE ~cleared /\ answer = OldTitle
    /\ answer = "error" /\ promoted # NotPromoted => leaked # {} \/ stage_dir

\* promote_stage gives back what it took on every path, in the reverse order:
\* between calls only what the system refused to release is held, and no module
\* is unloaded under a session or module that still needs it.
ModulesReleased ==
    /\ pc \in {"idle", "cleanup", "answer", "returned"} => held = leaked
    /\ "session" \in held \ leaked => "util" \in held \ leaked
    /\ "util" \in held \ leaked => "paf" \in held \ leaked

\* The sizes that the entries of archive a declare for the files of a stage s.
Sizes(a, s) == [p \in FilePaths |-> IF s[p] > 0 THEN a.entries[s[p]].size ELSE 0]

\* The files extracted for one archive declare at most INSTALL_TOTAL_MAX bytes
\* together.
TotalBounded == SumFunction(Sizes(archive, stage)) <= INSTALL_TOTAL_MAX
=============================================================================
