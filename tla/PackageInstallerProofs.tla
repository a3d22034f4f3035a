----------------------- MODULE PackageInstallerProofs -----------------------
(***************************************************************************)
(* What promote_stage holds, what the stage and the promoted package       *)
(* contain, and what the command server runs and answers, for every        *)
(* archive, request and limit, and with every call to the system and the   *)
(* power failing at any time.                                              *)
(***************************************************************************)
EXTENDS CommandRequest, SequenceLemmas

\* Before promote_stage has taken anything, and before it releases anything.
Quiet == {"idle", "clear", "make", "open", "entry", "data", "head", "paf"}
Taking == Quiet \cup {"util", "init", "promote", "exit"}

\* Where in promote_stage the installer is, and what is held there and not yet
\* refused by the system.
Needed ==
    CASE pc = "util" -> {"paf"}
      [] pc = "init" -> {"paf", "util"}
      [] pc \in {"promote", "exit"} -> {"paf", "util", "session"}
      [] pc = "unload_util" -> {"paf", "util"}
      [] pc = "unload_paf" -> {"paf"}
      [] OTHER -> {}

\* The inductive part of ModulesReleased: what is held is what the position
\* needs and what could not be released, and the two are apart.
HeldInv ==
    /\ pc \in Steps
    /\ held = Needed \cup leaked
    /\ Needed \cap leaked = {}
    /\ pc \in Taking => leaked = {}
    /\ leaked \subseteq {"paf", "util", "session"}

-----------------------------------------------------------------------------
\* A step that stays outside promote_stage leaves the modules alone.
LEMMA OutsideStep ==
    ASSUME HeldInv, UNCHANGED modules,
           \/ pc \in Quiet \cup {"cleanup", "answer", "returned"} /\ pc' \in {"cleanup", "answer", "returned"}
           \/ pc \in Quiet /\ pc' \in Quiet
    PROVE HeldInv'
<1>1. Needed = {} /\ Needed' = {}
  BY DEF Needed, Quiet
<1>2. held' = held /\ leaked' = leaked
  BY DEF modules
<1>3. pc' \in Steps
  BY DEF Steps, Quiet
<1>4. pc' \in Taking => leaked' = {}
  BY <1>2 DEF HeldInv, Quiet, Taking
<1> QED
  BY <1>1, <1>2, <1>3, <1>4 DEF HeldInv

\* A call that releases x leaves the other modules, and x only if it failed.
LEMMA ReleaseHeld ==
    ASSUME NEW x, NEW outcome, NEW N, x \in N,
           held = N \cup leaked, N \cap leaked = {},
           Release(x, outcome)
    PROVE held' = (N \ {x}) \cup leaked' /\ (N \ {x}) \cap leaked' = {}
BY DEF Release

\* The steps that are a single release.
LEMMA ReleaseStepHeld ==
    ASSUME NEW at, NEW x, NEW next,
           \/ at = "exit" /\ x = "session" /\ next = "unload_util"
           \/ at = "unload_util" /\ x = "util" /\ next = "unload_paf"
           \/ at = "unload_paf" /\ x = "paf" /\ next = "cleanup",
           HeldInv, ReleaseStep(at, x, next)
    PROVE HeldInv'
<1>1. PICK outcome \in {"ok", "error"} : Release(x, outcome)
  BY DEF ReleaseStep
<1>2. pc = at /\ pc' = next
  BY DEF ReleaseStep
<1>3. x \in Needed /\ Needed' = Needed \ {x}
  BY <1>2 DEF Needed
<1>4. held' = Needed' \cup leaked' /\ Needed' \cap leaked' = {}
  BY <1>1, <1>3, ReleaseHeld DEF HeldInv
<1>5. pc' \in Steps /\ pc' \notin Taking
  BY <1>2 DEF Steps, Quiet, Taking
<1>6. leaked' \subseteq {"paf", "util", "session"}
  BY <1>1 DEF Release, HeldInv
<1> QED
  BY <1>4, <1>5, <1>6 DEF HeldInv

\* Every step of the installer keeps what is held in step with the position.
LEMMA HeldStep == HeldInv /\ [InstallerNext]_installVars => HeldInv'
<1> SUFFICES ASSUME HeldInv, [InstallerNext]_installVars PROVE HeldInv'
    OBVIOUS
<1>1. CASE \E a \in Archives : Install(a)
  BY <1>1, OutsideStep DEF Install, Quiet
<1>2. CASE RefuseArgument
  BY <1>2, OutsideStep DEF RefuseArgument, Quiet
<1>3. CASE ClearStage \/ MakeStage \/ OpenArchive \/ EntryFails \/ EntryDirectory
           \/ EntryFile \/ ExtractData \/ ExtractDone \/ MakeHead
  <2>1. UNCHANGED modules
    BY <1>3 DEF ClearStage, MakeStage, OpenArchive, EntryFails, EntryDirectory,
                EntryFile, ExtractData, ExtractDone, MakeHead
  <2>2. pc \in Quiet
    BY <1>3 DEF ClearStage, MakeStage, OpenArchive, EntryFails, EntryDirectory,
                EntryFile, ExtractData, ExtractDone, MakeHead, Quiet
  <2>3. pc' \in Quiet \/ pc' = "cleanup"
    BY <1>3 DEF ClearStage, MakeStage, OpenArchive, EntryFails, EntryDirectory,
                EntryFile, ExtractData, ExtractDone, MakeHead, Fail, Quiet
  <2> QED
    BY <2>1, <2>2, <2>3, OutsideStep
<1>4. CASE LoadPaf
  BY <1>4 DEF LoadPaf, Fail, HeldInv, Needed, Steps, Quiet, Taking
<1>5. CASE LoadPromoter
  <2>1. pc = "util" /\ Needed = {"paf"} /\ leaked = {} /\ held = {"paf"}
    BY <1>5 DEF LoadPromoter, Needed, HeldInv, Taking
  <2>2. CASE held' = held \cup {"util"} /\ pc' = "init" /\ UNCHANGED <<leaked, result>>
    <3>1. Needed' = {"paf", "util"}
      BY <2>2 DEF Needed
    <3> QED
      BY <2>1, <2>2, <3>1 DEF HeldInv, Steps
  <2>3. CASE Fail /\ \E outcome \in {"ok", "error"} : Release("paf", outcome)
    <3>1. Needed' = {} /\ pc' = "cleanup"
      BY <2>3 DEF Fail, Needed
    <3>2. held' = ({"paf"} \ {"paf"}) \cup leaked' /\ ({"paf"} \ {"paf"}) \cap leaked' = {}
      BY <2>1, <2>3, ReleaseHeld
    <3>3. leaked' \subseteq {"paf", "util", "session"}
      BY <2>1, <2>3 DEF Release
    <3> QED
      BY <3>1, <3>2, <3>3 DEF HeldInv, Steps, Quiet, Taking
  <2> QED
    BY <1>5, <2>2, <2>3 DEF LoadPromoter
<1>6. CASE PromoterInit
  <2>1. pc = "init" /\ Needed = {"paf", "util"} /\ leaked = {} /\ leaked' = leaked
    BY <1>6 DEF PromoterInit, Needed, HeldInv, Taking
  <2>2. CASE held' = held \cup {"session"} /\ pc' = "promote"
    <3>1. Needed' = {"paf", "util", "session"}
      BY <2>2 DEF Needed
    <3> QED
      BY <2>1, <2>2, <3>1 DEF HeldInv, Steps
  <2>3. CASE pc' = "unload_util" /\ UNCHANGED held
    <3>1. Needed' = {"paf", "util"}
      BY <2>3 DEF Needed
    <3> QED
      BY <2>1, <2>3, <3>1 DEF HeldInv, Steps
  <2> QED
    BY <1>6, <2>2, <2>3 DEF PromoterInit
<1>7. CASE Promote
  <2>1. pc = "promote" /\ pc' = "exit" /\ held' = held /\ leaked' = leaked
    BY <1>7 DEF Promote, modules
  <2>2. Needed' = Needed
    BY <2>1 DEF Needed
  <2> QED
    BY <2>1, <2>2 DEF HeldInv, Steps, Taking
<1>8. CASE PromoterExit \/ UnloadPromoter \/ UnloadPaf
  BY <1>8, ReleaseStepHeld DEF PromoterExit, UnloadPromoter, UnloadPaf
<1>9. CASE Cleanup \/ Answer
  BY <1>9, OutsideStep DEF Cleanup, Answer
<1>10. CASE Return \/ PowerLoss
  <2>1. pc' = "idle" /\ held' = {} /\ leaked' = {}
    BY <1>10 DEF Return, PowerLoss, Forget
  <2>2. Needed' = {}
    BY <2>1 DEF Needed
  <2> QED
    BY <2>1, <2>2 DEF HeldInv, Steps
<1>11. CASE UNCHANGED installVars
  <2>1. pc' = pc /\ held' = held /\ leaked' = leaked
    BY <1>11 DEF installVars
  <2>2. Needed' = Needed
    BY <2>1 DEF Needed
  <2> QED
    BY <2>1, <2>2 DEF HeldInv
<1> QED
  BY <1>1, <1>2, <1>3, <1>4, <1>5, <1>6, <1>7, <1>8, <1>9, <1>10, <1>11
  DEF InstallerNext, InstallerStep

\* HeldInv holds in every state of the installer.
THEOREM HeldInvariance == InstallerSpec => []HeldInv
<1>1. InstallerInit => HeldInv
  BY DEF InstallerInit, HeldInv, Needed, Steps
<1> QED
  BY <1>1, HeldStep, PTL DEF InstallerSpec

-----------------------------------------------------------------------------
(* What the stage and the promoted package contain.  Everything here is a   *)
(* function of the archive a, of whether the stage was cleared (cl), and of *)
(* the files s: these do not change between extraction and answer.          *)

\* Positions up to the promotion, and those of them behind make_head_bin.
Growing == Quiet \cup {"util", "init", "promote"}
Packing == {"paf", "util", "init", "promote"}
Starting == {"idle", "clear", "make", "open"}

EntriesOf(a, p) == {i \in DOMAIN a.entries : a.entries[i].path = p}
EntriesBefore(a, p, n) == {i \in EntriesOf(a, p) : i < n}
Leftovers(cl) == {Absent} \cup (IF cl THEN {} ELSE {Old})

\* Once the entries before n are extracted, p holds the last of them that has
\* this path, or what was there before the first.
Holds(a, cl, s, p, n) ==
    IF EntriesBefore(a, p, n) = {} THEN s[p] \in Leftovers(cl)
    ELSE s[p] = Max(EntriesBefore(a, p, n))

\* The entries before n were checked.
Checked(a, n) ==
    \A i \in DOMAIN a.entries : i < n => IsDirectory(a.entries[i].path) \/ Good(a.entries[i])

\* The stage as promote_stage gets it.
Packed(a, cl, s) ==
    /\ s[HEAD_BIN] = Fresh
    /\ \A p \in FilePaths \ {HEAD_BIN} : Holds(a, cl, s, p, Len(a.entries) + 1)
    /\ Checked(a, Len(a.entries) + 1)

\* The title that goes with it.
Titled(a, cl, t) ==
    /\ t \in ValidTitles
    /\ IF EntriesOf(a, PARAM_SFO) # {}
       THEN t = sfo_string(a.entries[Max(EntriesOf(a, PARAM_SFO))].sfo, "TITLE_ID")
       ELSE ~cl /\ t = OldTitle

\* An entry that extract_zip_data works on.
Extracting(a, n) ==
    /\ n \in DOMAIN a.entries
    /\ a.entries[n].path \in FilePaths
    /\ a.entries[n].header /\ a.entries[n].type /\ a.entries[n].local

-----------------------------------------------------------------------------
(* The inductive invariant, in five parts. *)

\* Origins of files for the archive a.
OriginsOf(a) == {Absent, Partial, Old, Fresh} \cup 1..Len(a.entries)

CallInv ==
    /\ pc \in Steps
    /\ archive \in Archives \cup {NoArchive}
    /\ index \in 1..Len(archive.entries) + 1
    /\ total_size \in 0..INSTALL_TOTAL_MAX
    /\ title_id \in ValidTitles \cup {""}
    /\ result \in {"ok", "error"}
    /\ stage_dir \in BOOLEAN /\ cleared \in BOOLEAN
    /\ pc \in Starting => index = 1 /\ total_size = 0
    /\ pc = "idle" => archive = NoArchive

FilesInv ==
    /\ stage \in [FilePaths -> OriginsOf(archive)]
    /\ promoted \in [FilePaths -> OriginsOf(archive)]
    /\ pc \in {"idle", "clear"} => \A p \in FilePaths : stage[p] \in {Absent, Old}

StageInv ==
    /\ pc \in {"make", "open"} => \A p \in FilePaths : stage[p] \in Leftovers(cleared)
    /\ pc \in {"entry", "head"} => \A p \in FilePaths : Holds(archive, cleared, stage, p, index)
    /\ pc = "data" =>
         /\ Extracting(archive, index)
         /\ \A p \in FilePaths \ {archive.entries[index].path} :
              Holds(archive, cleared, stage, p, index)
    /\ pc \in {"entry", "data", "head"} => Checked(archive, index)
    /\ pc = "head" => index = Len(archive.entries) + 1
    /\ pc \in Packing => Packed(archive, cleared, stage) /\ Titled(archive, cleared, title_id)

PromotedInv ==
    /\ pc \in Growing => promoted = NotPromoted
    /\ promoted # NotPromoted => /\ Packed(archive, cleared, promoted)
                                 /\ Titled(archive, cleared, title_id)

ResultInv ==
    /\ pc \in Growing => result = "ok"
    /\ result = "ok" => leaked = {}
    /\ pc \notin Growing /\ result = "ok" => promoted # NotPromoted
    /\ result = "error" /\ promoted # NotPromoted =>
         leaked # {} \/ (pc \in {"answer", "returned"} /\ stage_dir)
    /\ answer = IF pc # "returned" THEN "none" ELSE IF result = "ok" THEN title_id ELSE "error"

InstallInv == HeldInv /\ CallInv /\ FilesInv /\ StageInv /\ PromotedInv /\ ResultInv

-----------------------------------------------------------------------------
(* Facts about archives and staged files. *)

\* The entries of what install_vpk may find, and of no archive at all.
LEMMA ArchiveEntries ==
    ASSUME NEW a \in Archives \cup {NoArchive}
    PROVE  /\ Len(a.entries) \in Nat /\ DOMAIN a.entries = 1..Len(a.entries)
           /\ \A i \in DOMAIN a.entries :
                /\ a.entries[i].size \in Nat
                /\ is_safe_archive_path(a.entries[i].path) /\ ~IsDirectory(a.entries[i].path)
                     => a.entries[i].path \in FilePaths
<1>1. CASE a = NoArchive
  BY <1>1 DEF NoArchive
<1>2. CASE a \in Archives
  <2> DEFINE R == [path : Seq(STRING), header : BOOLEAN, type : BOOLEAN, size : Nat,
                   local : BOOLEAN, sound : BOOLEAN,
                   sfo : Seq([key : STRING, good : BOOLEAN, value : STRING])]
  <2>1. a.entries \in Seq(R)
    BY <1>2, InstallerAssumption
  <2> HIDE DEF R
  <2>2. Len(a.entries) \in Nat /\ DOMAIN a.entries = 1..Len(a.entries)
    BY <2>1
  <2>3. \A i \in DOMAIN a.entries : a.entries[i] \in R
    BY <2>1, <2>2
  <2>4. \A i \in DOMAIN a.entries : a.entries[i].size \in Nat
    BY <2>3 DEF R
  <2> QED
    BY <1>2, <2>2, <2>4, InstallerAssumption
<1> QED
  BY <1>1, <1>2

\* Before the first entry p holds what was left on the stage.
LEMMA HoldsFirst ==
    ASSUME NEW a \in Archives \cup {NoArchive}, NEW cl, NEW s, NEW p, s[p] \in Leftovers(cl)
    PROVE  Holds(a, cl, s, p, 1)
  BY ArchiveEntries DEF Holds, EntriesBefore, EntriesOf

\* An entry of another path changes nothing of p.
LEMMA HoldsOther ==
    ASSUME NEW a \in Archives \cup {NoArchive}, NEW cl, NEW s, NEW t, NEW p,
           NEW n \in DOMAIN a.entries, a.entries[n].path # p, Holds(a, cl, s, p, n), t[p] = s[p]
    PROVE  Holds(a, cl, t, p, n + 1)
<1>1. EntriesBefore(a, p, n + 1) = EntriesBefore(a, p, n)
  BY ArchiveEntries DEF EntriesBefore, EntriesOf
<1> QED
  BY <1>1 DEF Holds

\* An entry of the path p takes the place of earlier ones.
LEMMA HoldsLast ==
    ASSUME NEW a \in Archives \cup {NoArchive}, NEW cl, NEW s, NEW p,
           NEW n \in DOMAIN a.entries, a.entries[n].path = p, s[p] = n
    PROVE  Holds(a, cl, s, p, n + 1)
<1> DEFINE E == EntriesBefore(a, p, n + 1)
<1>1. E \subseteq Int /\ n \in E /\ \A i \in E : i <= n
  BY ArchiveEntries DEF EntriesBefore, EntriesOf
<1>2. Max(E) = n
  BY <1>1, MaxIs
<1> QED
  BY <1>1, <1>2 DEF Holds

\* Behind the last entry all entries count.
LEMMA BeforeEnd ==
    ASSUME NEW a \in Archives \cup {NoArchive}, NEW p
    PROVE  EntriesBefore(a, p, Len(a.entries) + 1) = EntriesOf(a, p)
  BY ArchiveEntries DEF EntriesBefore, EntriesOf

\* The next entry is checked too, or is a directory.
LEMMA CheckedNext ==
    ASSUME NEW a \in Archives \cup {NoArchive}, NEW n \in DOMAIN a.entries, Checked(a, n),
           IsDirectory(a.entries[n].path) \/ Good(a.entries[n])
    PROVE  Checked(a, n + 1)
<1> SUFFICES ASSUME NEW i \in DOMAIN a.entries, i < n + 1
             PROVE IsDirectory(a.entries[i].path) \/ Good(a.entries[i])
    BY DEF Checked
<1>1. i < n \/ i = n
  BY ArchiveEntries
<1> QED
  BY <1>1 DEF Checked

-----------------------------------------------------------------------------
(* Every step of the installer keeps the invariant, part by part. *)

\* Outside a call nothing but the files is left, and they are old.
LEMMA ForgetInv == ASSUME InstallInv, Forget PROVE InstallInv'
<1>1. HeldInv'
  <2>1. Needed' = {}
    BY DEF Forget, Needed
  <2> QED
    BY <2>1 DEF Forget, HeldInv, Steps
<1>2. CallInv'
  <2>0. Len(NoArchive.entries) = 0
    BY DEF NoArchive
  <2>1. index' \in 1..Len(archive'.entries) + 1 /\ total_size' \in 0..INSTALL_TOTAL_MAX
    <3>1. archive' = NoArchive /\ index' = 1 /\ total_size' = 0 /\ INSTALL_TOTAL_MAX \in Nat
      BY InstallerAssumption DEF Forget
    <3> QED
      BY <2>0, <3>1
  <2>2. stage_dir' \in BOOLEAN /\ cleared' \in BOOLEAN
    BY DEF Forget, InstallInv, CallInv
  <2> QED
    BY <2>1, <2>2 DEF Forget, CallInv, Steps
<1>3. FilesInv'
  BY DEF Forget, FilesInv, NotPromoted, Empty, OriginsOf, Absent, Old
<1>4. StageInv' /\ PromotedInv'
  BY DEF Forget, StageInv, PromotedInv, Packing
<1>5. ResultInv'
  BY DEF Forget, ResultInv, Growing, Quiet
<1> QED
  BY <1>1, <1>2, <1>3, <1>4, <1>5 DEF InstallInv

\* What remove_tree leaves is absent or what was there.
LEMMA RemoveTreeFiles ==
    ASSUME NEW outcome, RemoveTree(outcome), DOMAIN stage = FilePaths
    PROVE  /\ DOMAIN stage' = FilePaths
           /\ \A p \in FilePaths : stage'[p] \in {Absent, stage[p]}
           /\ stage_dir' \in {FALSE, stage_dir}
           /\ outcome = "error" => stage_dir'
<1>1. CASE outcome = "ok"
  BY <1>1 DEF RemoveTree, Empty
<1>2. CASE outcome = "error"
  <2>1. PICK gone \in SUBSET FilePaths :
             stage' = [p \in FilePaths |-> IF p \in gone THEN Absent ELSE stage[p]]
    BY <1>2 DEF RemoveTree
  <2>2. stage_dir /\ stage_dir' = stage_dir
    BY <1>2 DEF RemoveTree
  <2> QED
    BY <2>1, <2>2
<1> QED
  BY <1>1, <1>2 DEF RemoveTree

\* Where the call stands: the parts of CallInv that a step changes together.
Standing(p, a, n, total) ==
    /\ n \in 1..Len(a.entries) + 1
    /\ total \in 0..INSTALL_TOTAL_MAX
    /\ p \in Starting => n = 1 /\ total = 0

\* The steps outside Forget keep it ...
LEMMA StandingStep ==
    ASSUME InstallInv, InstallerNext, ~Forget PROVE Standing(pc, archive, index, total_size)'
<1>0. /\ Len(archive.entries) \in Nat /\ DOMAIN archive.entries = 1..Len(archive.entries)
      /\ \A i \in DOMAIN archive.entries : archive.entries[i].size \in Nat
  BY ArchiveEntries DEF InstallInv, CallInv
<1>s. Standing(pc, archive, index, total_size) /\ INSTALL_TOTAL_MAX \in Nat
  BY InstallerAssumption DEF InstallInv, CallInv, Standing
<1>1. ASSUME NEW a \in Archives, Install(a) PROVE Standing(pc, archive, index, total_size)'
  <2>1. Len(a.entries) \in Nat
    BY ArchiveEntries
  <2>2. pc = "idle" /\ archive' = a /\ index' = index /\ total_size' = total_size
    BY <1>1 DEF Install
  <2>3. index' = 1 /\ total_size' = 0
    BY <1>s, <2>2 DEF Standing, Starting
  <2> QED
    BY <1>s, <2>1, <2>2, <2>3 DEF Standing
<1>2. CASE EntryFails \/ EntryDirectory \/ EntryFile
  <2>1. index <= Len(archive.entries)
    BY <1>2 DEF EntryFails, EntryDirectory, EntryFile
  <2>2. index \in DOMAIN archive.entries
    BY <1>0, <1>s, <2>1 DEF Standing
  <2>3. archive.entries[index].size \in Nat
    BY <1>0, <2>2
  <2>4. \/ total_size' = total_size
        \/ /\ archive.entries[index].size <= INSTALL_TOTAL_MAX - total_size
           /\ total_size' = total_size + archive.entries[index].size
    BY <1>2 DEF EntryFails, EntryDirectory, EntryFile, Accepted, Fits, Entry
  <2>5. total_size' \in 0..INSTALL_TOTAL_MAX
    BY <1>s, <2>3, <2>4 DEF Standing
  <2>6. index' \in {index, index + 1} /\ archive' = archive /\ pc' \in {"entry", "data", "cleanup"}
    BY <1>2 DEF EntryFails, EntryDirectory, EntryFile, Fail
  <2> QED
    BY <1>0, <1>s, <2>1, <2>5, <2>6 DEF Standing, Starting
<1>3. CASE ExtractData
  <2>1. index \in DOMAIN archive.entries
    BY <1>3 DEF ExtractData, InstallInv, StageInv, Extracting
  <2>2. /\ index' \in {index, index + 1} /\ archive' = archive /\ total_size' = total_size
        /\ pc' \in {"entry", "cleanup"}
    BY <1>3 DEF ExtractData, Fail
  <2> QED
    BY <1>0, <1>s, <2>1, <2>2 DEF Standing, Starting
<1>4. ASSUME archive' = archive, index' = index, total_size' = total_size,
             pc \in Starting \/ pc' \notin Starting
      PROVE Standing(pc, archive, index, total_size)'
  BY <1>s, <1>4 DEF Standing
<1>5. CASE RefuseArgument \/ ClearStage \/ MakeStage \/ OpenArchive \/ ExtractDone \/ MakeHead
           \/ LoadPaf \/ LoadPromoter \/ PromoterInit \/ Promote
  BY <1>4, <1>5 DEF RefuseArgument, ClearStage, MakeStage, OpenArchive, ExtractDone, MakeHead,
                    LoadPaf, LoadPromoter, PromoterInit, Promote, Fail, call, Starting
<1>6. CASE PromoterExit \/ UnloadPromoter \/ UnloadPaf \/ Cleanup \/ Answer
  BY <1>4, <1>6 DEF PromoterExit, UnloadPromoter, UnloadPaf, ReleaseStep, Cleanup, Answer, call,
                    Starting
<1> QED
  BY <1>1, <1>2, <1>3, <1>5, <1>6 DEF InstallerNext, InstallerStep, Return, PowerLoss

\* ... and the ranges of the other variables of the call.
LEMMA CallStep ==
    ASSUME InstallInv, InstallerNext, ~Forget PROVE CallInv'
<1>1. archive' \in Archives \cup {NoArchive} /\ title_id' \in ValidTitles \cup {""}
  <2>1. CASE \E a \in Archives : Install(a)
    BY <2>1 DEF Install, InstallInv, CallInv
  <2>2. CASE MakeHead
    BY <2>2 DEF MakeHead, StagedTitles, InstallInv, CallInv
  <2>3. CASE UNCHANGED <<archive, title_id>>
    BY <2>3 DEF InstallInv, CallInv
  <2> QED
    BY <2>1, <2>2, <2>3
       DEF InstallerNext, InstallerStep, RefuseArgument, ClearStage, MakeStage, OpenArchive,
           EntryFails, EntryDirectory, EntryFile, ExtractData, ExtractDone, LoadPaf, LoadPromoter,
           PromoterInit, Promote, PromoterExit, UnloadPromoter, UnloadPaf, ReleaseStep, Cleanup,
           Answer, Return, PowerLoss, call
<1>2. pc' \in Steps \ {"idle"}
  BY DEF InstallerNext, InstallerStep, Install, RefuseArgument, ClearStage, MakeStage, OpenArchive,
         EntryFails, EntryDirectory, EntryFile, ExtractData, ExtractDone, MakeHead, LoadPaf,
         LoadPromoter, PromoterInit, Promote, PromoterExit, UnloadPromoter, UnloadPaf, ReleaseStep,
         Cleanup, Answer, Return, PowerLoss, Fail, Steps, InstallInv, CallInv
<1>3. result' \in {"ok", "error"}
  <2>1. result \in {"ok", "error"}
    BY DEF InstallInv, CallInv
  <2> QED
    BY <2>1 DEF InstallerNext, InstallerStep, Install, RefuseArgument, ClearStage, MakeStage,
         OpenArchive, EntryFails, EntryDirectory, EntryFile, ExtractData, ExtractDone, MakeHead,
         LoadPaf, LoadPromoter, PromoterInit, Promote, PromoterExit, UnloadPromoter, UnloadPaf,
         ReleaseStep, Cleanup, Answer, Return, PowerLoss, Fail, Keep
<1>4. stage_dir' \in BOOLEAN /\ cleared' \in BOOLEAN
  <2>1. stage_dir \in BOOLEAN /\ cleared \in BOOLEAN /\ DOMAIN stage = FilePaths
    BY DEF InstallInv, CallInv, FilesInv
  <2>2. CASE ClearStage \/ Cleanup
    BY <2>1, <2>2, RemoveTreeFiles DEF ClearStage, Cleanup
  <2>3. CASE UNCHANGED cleared /\ (stage_dir' \in BOOLEAN \/ UNCHANGED stage_dir)
    BY <2>1, <2>3
  <2> QED
    BY <2>2, <2>3
       DEF InstallerNext, InstallerStep, Install, RefuseArgument, MakeStage, OpenArchive,
           EntryFails, EntryDirectory, EntryFile, ExtractData, ExtractDone, MakeHead, LoadPaf,
           LoadPromoter, PromoterInit, Promote, PromoterExit, UnloadPromoter, UnloadPaf,
           ReleaseStep, Answer, Return, PowerLoss
<1> QED
  BY <1>1, <1>2, <1>3, <1>4, StandingStep DEF CallInv, Standing

\* ... and the origins of the files.
LEMMA FilesStep ==
    ASSUME InstallInv, InstallerNext, ~Forget PROVE FilesInv'
<1> USE DEF FilesInv
<1>0. /\ Len(archive.entries) \in Nat /\ DOMAIN archive.entries = 1..Len(archive.entries)
      /\ FilesInv /\ CallInv
  BY ArchiveEntries DEF InstallInv, CallInv
<1>1. ASSUME NEW a \in Archives, Install(a) PROVE FilesInv'
  <2>1. pc = "idle" /\ archive' = a /\ UNCHANGED <<stage, promoted>> /\ pc' = "clear"
    BY <1>1 DEF Install
  <2>2. promoted = NotPromoted
    BY <2>1 DEF InstallInv, PromotedInv, Growing, Quiet
  <2> QED
    BY <1>0, <2>1, <2>2 DEF NotPromoted, Empty, OriginsOf, Absent, Old
<1>2. CASE ClearStage \/ Cleanup
  <2>1. DOMAIN stage' = FilePaths /\ \A p \in FilePaths : stage'[p] \in {Absent, stage[p]}
    BY <1>0, <1>2, RemoveTreeFiles DEF ClearStage, Cleanup
  <2>2. \A p \in FilePaths : stage'[p] \in OriginsOf(archive)
    BY <1>0, <2>1 DEF OriginsOf
  <2>3. UNCHANGED <<archive, promoted>> /\ pc' \notin {"idle", "clear"}
    BY <1>2 DEF ClearStage, Cleanup, call
  <2>4. stage' = [p \in FilePaths |-> stage'[p]]
    BY <1>0, <1>2 DEF ClearStage, Cleanup, RemoveTree, Empty
  <2> QED
    BY <1>0, <2>2, <2>3, <2>4
<1>3. CASE EntryFile
  <2>1. Entry.path \in FilePaths
    <3>1. index \in DOMAIN archive.entries
      <4>1. index <= Len(archive.entries)
        BY <1>3 DEF EntryFile
      <4>2. index \in 1..Len(archive.entries) + 1
        BY <1>0 DEF CallInv
      <4> QED
        BY <1>0, <4>1, <4>2
    <3>2. is_safe_archive_path(Entry.path) /\ ~IsDirectory(Entry.path)
      BY <1>3 DEF EntryFile, Accepted
    <3> QED
      BY <1>0, <3>1, <3>2, ArchiveEntries DEF Entry, CallInv
  <2> QED
    BY <1>0, <1>3, <2>1 DEF EntryFile, OriginsOf
<1>4. CASE ExtractData
  <2>1. index \in 1..Len(archive.entries)
    BY <1>0, <1>4 DEF ExtractData, InstallInv, StageInv, Extracting
  <2> QED
    BY <1>0, <1>4, <2>1 DEF ExtractData, Fail, OriginsOf
<1>5. CASE MakeHead
  BY <1>0, <1>5 DEF MakeHead, Fail, OriginsOf
<1>6. CASE Promote
  BY <1>0, <1>6 DEF Promote, call, OriginsOf, Empty
<1>7. CASE RefuseArgument \/ MakeStage \/ OpenArchive \/ EntryFails \/ EntryDirectory \/ ExtractDone
           \/ LoadPaf \/ LoadPromoter \/ PromoterInit \/ PromoterExit \/ UnloadPromoter \/ UnloadPaf
           \/ Answer
  <2>1. UNCHANGED <<archive, stage, promoted>> /\ pc' \notin {"idle", "clear"}
    BY <1>7 DEF RefuseArgument, MakeStage, OpenArchive, EntryFails, EntryDirectory, ExtractDone,
                LoadPaf, LoadPromoter, PromoterInit, PromoterExit, UnloadPromoter, UnloadPaf,
                ReleaseStep, Answer, Fail, call
  <2> QED
    BY <1>0, <2>1
<1> QED
  BY <1>1, <1>2, <1>3, <1>4, <1>5, <1>6, <1>7
     DEF InstallerNext, InstallerStep, Return, PowerLoss

\* The titles of the staged param.sfo are those that go with the package.
LEMMA StagedTitle ==
    ASSUME InstallInv, pc = "head", NEW t \in StagedTitles PROVE Titled(archive, cleared, t)
<1> DEFINE E == EntriesOf(archive, PARAM_SFO)
<1>1. archive \in Archives \cup {NoArchive} /\ PARAM_SFO \in FilePaths
  BY InstallerAssumption DEF InstallInv, CallInv
<1>2. EntriesBefore(archive, PARAM_SFO, index) = E
  BY <1>1, BeforeEnd DEF InstallInv, StageInv
<1>3. Holds(archive, cleared, stage, PARAM_SFO, index)
  BY <1>1 DEF InstallInv, StageInv
<1>4. /\ t \in ValidTitles
      /\ \/ stage[PARAM_SFO] = Old /\ t = OldTitle
         \/ /\ stage[PARAM_SFO] # Old /\ stage[PARAM_SFO] > 0
            /\ t = sfo_string(archive.entries[stage[PARAM_SFO]].sfo, "TITLE_ID")
  BY DEF StagedTitles
<1>5. CASE E = {}
  <2>1. stage[PARAM_SFO] \in Leftovers(cleared)
    BY <1>2, <1>3, <1>5 DEF Holds
  <2>2. stage[PARAM_SFO] = Old /\ ~cleared
    BY <1>4, <2>1 DEF Leftovers, Absent, Old
  <2> QED
    BY <1>4, <1>5, <2>2 DEF Titled, Old
<1>6. CASE E # {}
  <2>1. stage[PARAM_SFO] = Max(E)
    BY <1>2, <1>3, <1>6 DEF Holds
  <2>2. E \subseteq 1..Len(archive.entries) /\ Len(archive.entries) \in Nat
    BY <1>1, ArchiveEntries DEF EntriesOf
  <2>3. stage[PARAM_SFO] \in {Absent, Old, Partial, Fresh} \cup 1..Len(archive.entries)
    BY <1>1 DEF InstallInv, FilesInv, OriginsOf
  <2>4. Max(E) \in E
    BY <1>6, <2>2, MaxOfPositions
  <2>5. stage[PARAM_SFO] # Old
    BY <2>1, <2>2, <2>4 DEF Old
  <2> QED
    BY <1>4, <1>6, <2>1, <2>5 DEF Titled
<1> QED
  BY <1>5, <1>6

\* Extraction puts the archive's entries on the stage, one after the other.
LEMMA StageStep ==
    ASSUME InstallInv, InstallerNext, ~Forget PROVE StageInv'
<1>0. archive \in Archives \cup {NoArchive} /\ CallInv /\ FilesInv /\ StageInv
  BY DEF InstallInv, CallInv
<1>d. /\ Len(archive.entries) \in Nat /\ DOMAIN archive.entries = 1..Len(archive.entries)
      /\ index \in 1..Len(archive.entries) + 1
  BY <1>0, ArchiveEntries DEF CallInv
<1>1. ASSUME pc' \notin {"make", "open", "entry", "data", "head"} \cup Packing PROVE StageInv'
  BY <1>1 DEF StageInv
<1>2. CASE ClearStage
  <2>1. DOMAIN stage' = FilePaths /\ \A p \in FilePaths : stage'[p] \in {Absent, stage[p]}
    BY <1>0, <1>2, RemoveTreeFiles DEF ClearStage, FilesInv
  <2>2. \A p \in FilePaths : stage'[p] \in {Absent, Old}
    BY <1>0, <1>2, <2>1 DEF ClearStage, FilesInv
  <2>3. cleared' => \A p \in FilePaths : stage'[p] = Absent
    BY <1>2 DEF ClearStage, Empty
  <2>4. pc' = "make"
    BY <1>2 DEF ClearStage
  <2> QED
    BY <2>2, <2>3, <2>4 DEF StageInv, Leftovers, Packing
<1>3. CASE MakeStage
  <2>1. pc = "make" /\ UNCHANGED <<stage, cleared>> /\ pc' \in {"open", "cleanup"}
    BY <1>3 DEF MakeStage, Fail
  <2> QED
    BY <1>0, <2>1 DEF StageInv, Packing
<1>4. CASE OpenArchive
  <2>1. pc = "open" /\ UNCHANGED <<stage, cleared, archive, index>> /\ pc' \in {"entry", "cleanup"}
    BY <1>4 DEF OpenArchive, Fail, call
  <2>2. index = 1 /\ \A p \in FilePaths : stage[p] \in Leftovers(cleared)
    BY <1>0, <2>1 DEF CallInv, Starting, StageInv
  <2>3. \A p \in FilePaths : Holds(archive, cleared, stage, p, index)
    BY <1>0, <2>2, HoldsFirst
  <2>4. Checked(archive, index)
    BY <1>d, <2>2 DEF Checked
  <2> QED
    BY <2>1, <2>3, <2>4 DEF StageInv, Packing
<1>5. CASE EntryDirectory
  <2>1. /\ pc = "entry" /\ pc' = "entry" /\ UNCHANGED <<stage, cleared, archive>>
        /\ index' = index + 1 /\ index <= Len(archive.entries) /\ IsDirectory(archive.entries[index].path)
    BY <1>5 DEF EntryDirectory, Entry
  <2>2. index \in DOMAIN archive.entries
    BY <1>d, <2>1
  <2>3. \A p \in FilePaths : Holds(archive, cleared, stage, p, index + 1)
    <3> SUFFICES ASSUME NEW p \in FilePaths PROVE Holds(archive, cleared, stage, p, index + 1)
        OBVIOUS
    <3>1. archive.entries[index].path # p
      BY <2>1, InstallerAssumption
    <3>2. Holds(archive, cleared, stage, p, index)
      BY <1>0, <2>1 DEF StageInv
    <3> QED
      BY <1>0, <2>2, <3>1, <3>2, HoldsOther
  <2>4. Checked(archive, index + 1)
    BY <1>0, <2>1, <2>2, CheckedNext DEF StageInv
  <2> QED
    BY <2>1, <2>3, <2>4 DEF StageInv, Packing
<1>6. CASE EntryFile
  <2>1. /\ pc = "entry" /\ pc' = "data" /\ UNCHANGED <<cleared, archive, index>>
        /\ stage' = [stage EXCEPT ![archive.entries[index].path] = Partial]
        /\ index <= Len(archive.entries)
    BY <1>6 DEF EntryFile, Entry
  <2>2. /\ archive.entries[index].header /\ archive.entries[index].type /\ archive.entries[index].local
        /\ is_safe_archive_path(archive.entries[index].path)
        /\ ~IsDirectory(archive.entries[index].path)
    BY <1>6 DEF EntryFile, Entry, Accepted
  <2>3. index \in DOMAIN archive.entries
    BY <1>d, <2>1
  <2>4. Extracting(archive, index)
    BY <1>0, <2>2, <2>3, ArchiveEntries DEF Extracting
  <2>5. \A p \in FilePaths \ {archive.entries[index].path} : Holds(archive, cleared, stage', p, index)
    <3> SUFFICES ASSUME NEW p \in FilePaths \ {archive.entries[index].path}
                 PROVE Holds(archive, cleared, stage', p, index)
        OBVIOUS
    <3>1. stage'[p] = stage[p]
      BY <1>0, <2>1 DEF FilesInv
    <3>2. Holds(archive, cleared, stage, p, index)
      BY <1>0, <2>1 DEF StageInv
    <3> QED
      BY <3>1, <3>2 DEF Holds
  <2>6. Checked(archive, index)
    BY <1>0, <2>1 DEF StageInv
  <2> QED
    BY <2>1, <2>4, <2>5, <2>6 DEF StageInv, Packing
<1>7. CASE ExtractData
  <2>1. pc = "data" /\ UNCHANGED <<cleared, archive>>
    BY <1>7 DEF ExtractData
  <2>2. /\ Extracting(archive, index) /\ Checked(archive, index)
        /\ \A p \in FilePaths \ {archive.entries[index].path} : Holds(archive, cleared, stage, p, index)
    BY <1>0, <2>1 DEF StageInv
  <2>3. CASE pc' # "cleanup"
    <3>1. /\ archive.entries[index].sound /\ stage' = [stage EXCEPT ![archive.entries[index].path] = index]
          /\ index' = index + 1 /\ pc' = "entry"
      BY <1>7, <2>3 DEF ExtractData, Fail, Verified, Entry
    <3>2. index \in DOMAIN archive.entries /\ archive.entries[index].path \in FilePaths
      BY <2>2 DEF Extracting
    <3>3. Checked(archive, index + 1)
      BY <1>0, <2>2, <3>1, <3>2, CheckedNext DEF Extracting, Good
    <3>4. \A p \in FilePaths : Holds(archive, cleared, stage', p, index + 1)
      <4> SUFFICES ASSUME NEW p \in FilePaths PROVE Holds(archive, cleared, stage', p, index + 1)
          OBVIOUS
      <4>1. CASE p = archive.entries[index].path
        <5>1. stage'[p] = index
          BY <1>0, <3>1, <4>1 DEF FilesInv
        <5> QED
          BY <1>0, <3>2, <4>1, <5>1, HoldsLast
      <4>2. CASE p # archive.entries[index].path
        <5>1. stage'[p] = stage[p] /\ Holds(archive, cleared, stage, p, index)
          BY <1>0, <2>2, <3>1, <4>2 DEF FilesInv
        <5> QED
          BY <1>0, <3>2, <4>2, <5>1, HoldsOther
      <4> QED
        BY <4>1, <4>2
    <3> QED
      BY <2>1, <3>1, <3>3, <3>4 DEF StageInv, Packing
  <2> QED
    BY <1>1, <2>3 DEF Packing
<1>8. CASE ExtractDone
  <2>1. /\ pc = "entry" /\ pc' = "head" /\ UNCHANGED <<stage, cleared, archive, index>>
        /\ index > Len(archive.entries)
    BY <1>8 DEF ExtractDone, call
  <2>2. index = Len(archive.entries) + 1
    BY <1>d, <2>1
  <2> QED
    BY <1>0, <2>1, <2>2 DEF StageInv, Packing
<1>9. CASE MakeHead
  <2>1. pc = "head" /\ UNCHANGED <<archive, index, cleared>>
    BY <1>9 DEF MakeHead
  <2>2. CASE pc' # "cleanup"
    <3>1. title_id' \in StagedTitles /\ stage' = [stage EXCEPT ![HEAD_BIN] = Fresh] /\ pc' = "paf"
      BY <1>9, <2>2 DEF MakeHead, Fail
    <3>2. Titled(archive, cleared, title_id')
      BY <2>1, <3>1, StagedTitle
    <3>3. index = Len(archive.entries) + 1 /\ Checked(archive, index)
          /\ \A p \in FilePaths : Holds(archive, cleared, stage, p, index)
      BY <1>0, <2>1 DEF StageInv
    <3>4. stage'[HEAD_BIN] = Fresh /\ \A p \in FilePaths \ {HEAD_BIN} : stage'[p] = stage[p]
      BY <1>0, <3>1, InstallerAssumption DEF FilesInv
    <3>5. \A p \in FilePaths \ {HEAD_BIN} : Holds(archive, cleared, stage', p, index)
      BY <3>3, <3>4 DEF Holds
    <3>6. Packed(archive, cleared, stage')
      BY <3>3, <3>4, <3>5 DEF Packed
    <3> QED
      BY <2>1, <3>1, <3>2, <3>6 DEF StageInv
  <2> QED
    BY <1>1, <2>2 DEF Packing
<1>10. CASE LoadPaf \/ LoadPromoter \/ PromoterInit
  <2>1. /\ pc \in Packing /\ UNCHANGED <<archive, cleared, stage, title_id>>
        /\ pc' \in {"util", "init", "promote", "cleanup", "unload_util"}
    BY <1>10 DEF LoadPaf, LoadPromoter, PromoterInit, Fail, call, Packing
  <2> QED
    BY <1>0, <2>1 DEF StageInv
<1>11. CASE (\E a \in Archives : Install(a)) \/ RefuseArgument \/ EntryFails \/ Promote \/ PromoterExit
            \/ UnloadPromoter \/ UnloadPaf \/ Cleanup \/ Answer
  BY <1>1, <1>11 DEF Install, RefuseArgument, EntryFails, Fail, Promote, PromoterExit, UnloadPromoter,
                     UnloadPaf, ReleaseStep, Cleanup, Answer, Packing
<1> QED
  BY <1>2, <1>3, <1>4, <1>5, <1>6, <1>7, <1>8, <1>9, <1>10, <1>11
     DEF InstallerNext, InstallerStep, Return, PowerLoss

\* What is promoted is the stage as it was packed, and it stays recorded.
LEMMA PromotedStep ==
    ASSUME InstallInv, InstallerNext, ~Forget PROVE PromotedInv'
<1>0. PromotedInv /\ StageInv /\ pc \in Steps
  BY DEF InstallInv, CallInv
<1>1. ASSUME pc \in Growing, UNCHANGED promoted PROVE PromotedInv'
  BY <1>0, <1>1 DEF PromotedInv
<1>2. ASSUME pc' \notin Growing, UNCHANGED <<archive, cleared, promoted, title_id>> PROVE PromotedInv'
  BY <1>0, <1>2 DEF PromotedInv
<1>3. CASE (\E a \in Archives : Install(a)) \/ RefuseArgument \/ ClearStage \/ MakeStage \/ OpenArchive
           \/ EntryFails \/ EntryDirectory \/ EntryFile \/ ExtractData \/ ExtractDone \/ MakeHead
           \/ LoadPaf \/ LoadPromoter \/ PromoterInit
  BY <1>1, <1>3 DEF Install, RefuseArgument, ClearStage, MakeStage, OpenArchive, EntryFails,
                    EntryDirectory, EntryFile, ExtractData, ExtractDone, MakeHead, LoadPaf,
                    LoadPromoter, PromoterInit, Growing, Quiet
<1>4. CASE Promote
  <2>1. /\ pc = "promote" /\ pc' = "exit" /\ UNCHANGED <<archive, cleared, title_id>>
        /\ promoted' = stage \/ UNCHANGED promoted
    BY <1>4 DEF Promote, call
  <2>2. Packed(archive, cleared, stage) /\ Titled(archive, cleared, title_id)
    BY <1>0, <2>1 DEF StageInv, Packing
  <2>3. promoted = NotPromoted
    BY <1>0, <2>1 DEF PromotedInv, Growing
  <2> QED
    BY <2>1, <2>2, <2>3 DEF PromotedInv, Growing, Quiet
<1>5. CASE PromoterExit \/ UnloadPromoter \/ UnloadPaf \/ Cleanup \/ Answer
  BY <1>2, <1>5 DEF PromoterExit, UnloadPromoter, UnloadPaf, ReleaseStep, Cleanup, Answer, call,
                    Growing, Quiet
<1> QED
  BY <1>3, <1>4, <1>5 DEF InstallerNext, InstallerStep, Return, PowerLoss

\* The result is an error from the first failure on, and only then.
LEMMA ResultStep ==
    ASSUME InstallInv, InstallerNext, ~Forget PROVE ResultInv'
<1>0. ResultInv /\ StageInv /\ PromotedInv /\ pc \in Steps /\ result \in {"ok", "error"}
  BY DEF InstallInv, CallInv
<1>1. CASE (\E a \in Archives : Install(a)) \/ ClearStage \/ EntryDirectory \/ EntryFile \/ ExtractDone
  <2>1. /\ pc \in Growing /\ pc' \in Growing /\ pc' # "returned" /\ pc # "returned"
        /\ UNCHANGED <<result, leaked, promoted, answer>>
    BY <1>1 DEF Install, ClearStage, EntryDirectory, EntryFile, ExtractDone, modules, Growing, Quiet
  <2> QED
    BY <1>0, <2>1 DEF ResultInv
<1>2. CASE RefuseArgument \/ MakeStage \/ OpenArchive \/ EntryFails \/ ExtractData \/ MakeHead
           \/ LoadPaf \/ LoadPromoter \/ PromoterInit
  <2>1. /\ pc \in Growing /\ pc' # "returned" /\ pc # "returned" /\ UNCHANGED <<promoted, answer>>
        /\ \/ pc' \in Growing /\ UNCHANGED <<result, leaked>>
           \/ pc' \notin Growing /\ result' = "error"
    BY <1>2 DEF RefuseArgument, MakeStage, OpenArchive, EntryFails, ExtractData, MakeHead, LoadPaf,
                LoadPromoter, PromoterInit, Fail, modules, Growing, Quiet
  <2>2. promoted = NotPromoted
    BY <1>0, <2>1 DEF PromotedInv
  <2> QED
    BY <1>0, <2>1, <2>2 DEF ResultInv
<1>3. CASE Promote
  <2>1. /\ pc = "promote" /\ pc' = "exit" /\ UNCHANGED <<leaked, answer>>
        /\ \/ promoted' = stage /\ UNCHANGED result
           \/ result' = "error" /\ UNCHANGED promoted
    BY <1>3 DEF Promote, modules
  <2>2. result = "ok" /\ promoted = NotPromoted /\ leaked = {} /\ answer = "none"
    BY <1>0, <2>1 DEF ResultInv, PromotedInv, Growing
  <2>3. stage # NotPromoted
    <3>1. stage[HEAD_BIN] = Fresh
      BY <1>0, <2>1 DEF StageInv, Packing, Packed
    <3>2. NotPromoted[HEAD_BIN] = Absent
      BY InstallerAssumption DEF NotPromoted, Empty
    <3> QED
      BY <3>1, <3>2 DEF Absent, Fresh
  <2> QED
    BY <2>1, <2>2, <2>3 DEF ResultInv, Growing, Quiet
<1>4. CASE PromoterExit \/ UnloadPromoter \/ UnloadPaf
  <2>1. /\ pc \notin Growing /\ pc' \notin Growing /\ pc' \notin {"answer", "returned"}
        /\ pc \notin {"answer", "returned"} /\ UNCHANGED <<promoted, answer>>
    BY <1>4 DEF PromoterExit, UnloadPromoter, UnloadPaf, ReleaseStep, Growing, Quiet
  <2>2. PICK x \in {"session", "util", "paf"}, outcome \in {"ok", "error"} :
             Release(x, outcome) /\ result' = Keep(result, outcome)
    BY <1>4 DEF PromoterExit, UnloadPromoter, UnloadPaf, ReleaseStep
  <2>3. CASE outcome = "ok"
    BY <1>0, <2>1, <2>2, <2>3 DEF Release, Keep, ResultInv
  <2>4. CASE outcome = "error"
    BY <1>0, <2>1, <2>2, <2>4 DEF Release, Keep, ResultInv
  <2> QED
    BY <2>2, <2>3, <2>4
<1>5. CASE Cleanup
  <2>1. pc = "cleanup" /\ pc' = "answer" /\ UNCHANGED <<leaked, promoted, answer>>
    BY <1>5 DEF Cleanup, modules
  <2>2. PICK outcome \in {"ok", "error"} : RemoveTree(outcome) /\ result' = Keep(result, outcome)
    BY <1>5 DEF Cleanup
  <2>3. outcome = "error" => stage_dir'
    BY <2>2, RemoveTreeFiles DEF InstallInv, FilesInv
  <2>4. pc \notin Growing /\ pc' \notin Growing
    BY <2>1 DEF Growing, Quiet
  <2> QED
    BY <1>0, <2>1, <2>2, <2>3, <2>4 DEF ResultInv, Keep
<1>6. CASE Answer
  <2>1. /\ pc = "answer" /\ pc' = "returned" /\ UNCHANGED <<result, leaked, promoted, stage_dir, title_id>>
        /\ answer' = IF result = "ok" THEN title_id ELSE "error"
    BY <1>6 DEF Answer, call, modules
  <2> QED
    BY <1>0, <2>1 DEF ResultInv, Growing, Quiet
<1> QED
  BY <1>1, <1>2, <1>3, <1>4, <1>5, <1>6 DEF InstallerNext, InstallerStep, Return, PowerLoss

\* InstallInv holds in every state of the installer.
THEOREM InstallInvariance == InstallerSpec => []InstallInv
<1>1. InstallerInit => InstallInv
  <2> SUFFICES ASSUME InstallerInit PROVE InstallInv
      OBVIOUS
  <2>1. HeldInv
    BY DEF InstallerInit, HeldInv, Needed, Steps
  <2>2. CallInv
    <3>1. Len(NoArchive.entries) = 0
      BY DEF NoArchive
    <3>2. index \in 1..Len(archive.entries) + 1 /\ total_size \in 0..INSTALL_TOTAL_MAX
      <4>1. archive = NoArchive /\ index = 1 /\ total_size = 0 /\ INSTALL_TOTAL_MAX \in Nat
        BY InstallerAssumption DEF InstallerInit
      <4> QED
        BY <3>1, <4>1
    <3> QED
      BY <3>2 DEF InstallerInit, CallInv, Steps
  <2>3. FilesInv
    BY DEF InstallerInit, FilesInv, OriginsOf, Empty, NotPromoted
  <2>4. StageInv /\ PromotedInv /\ ResultInv
    BY DEF InstallerInit, StageInv, PromotedInv, ResultInv, Packing, Growing, Quiet
  <2> QED
    BY <2>1, <2>2, <2>3, <2>4 DEF InstallInv
<1>2. InstallInv /\ [InstallerNext]_installVars => InstallInv'
  <2> SUFFICES ASSUME InstallInv, [InstallerNext]_installVars PROVE InstallInv'
      OBVIOUS
  <2>1. HeldInv'
    BY HeldStep DEF InstallInv
  <2>2. CASE InstallerNext /\ ~Forget
    BY <2>1, <2>2, CallStep, FilesStep, StageStep, PromotedStep, ResultStep DEF InstallInv
  <2>3. CASE Forget
    BY <2>3, ForgetInv
  <2>4. CASE UNCHANGED installVars
    <3>1. /\ pc' = pc /\ archive' = archive /\ index' = index /\ total_size' = total_size
          /\ title_id' = title_id /\ result' = result /\ stage' = stage /\ stage_dir' = stage_dir
          /\ leaked' = leaked /\ cleared' = cleared /\ promoted' = promoted /\ answer' = answer
      BY <2>4 DEF installVars
    <3>2. CallInv' /\ FilesInv'
      BY <3>1 DEF InstallInv, CallInv, FilesInv
    <3>3. StageInv'
      BY <3>1 DEF InstallInv, StageInv
    <3>4. PromotedInv' /\ ResultInv'
      BY <3>1 DEF InstallInv, PromotedInv, ResultInv
    <3> QED
      BY <2>1, <3>2, <3>3, <3>4 DEF InstallInv
  <2> QED
    BY <2>2, <2>3, <2>4
<1> QED
  BY <1>1, <1>2, PTL DEF InstallerSpec

\* The command server drives install_vpk only as InstallerSpec allows: whatever
\* the thread, the peer and the power do, the installer sees one call at a time,
\* its own steps, and the return.
THEOREM RequestDrivesInstaller == Spec => InstallerSpec
<1>1. Init => InstallerInit
  BY DEF Init
<1>2. [Next]_vars => [InstallerNext]_installVars
  <2> SUFFICES ASSUME [Next]_vars PROVE [InstallerNext]_installVars
      OBVIOUS
  <2>1. CASE Accept \/ Receive \/ ReceiveEnd \/ ReceiveFails \/ RunSimple \/ RunOnArgument
             \/ RunQuery \/ RunScreenshot \/ RunLaunch \/ ConfirmLaunch \/ LaunchUnconfirmed \/ ForegroundChanges
             \/ UNCHANGED vars
    <3>1. UNCHANGED installVars
      BY <2>1 DEF Accept, Receive, ReceiveEnd, ReceiveFails, RunSimple, RunOnArgument, RunQuery, RunScreenshot,
                  RunLaunch, ConfirmLaunch, LaunchUnconfirmed, ForegroundChanges, vars
    <3> QED
      BY <3>1
  <2>2. CASE RunInstall
    BY <2>2 DEF RunInstall, InstallerNext
  <2>3. CASE Installing \/ InstallAnswered
    BY <2>3 DEF Installing, InstallAnswered, InstallerNext
  <2>4. CASE Send
    BY <2>4 DEF Send, InstallerNext
  <2>5. CASE Restart
    BY <2>5 DEF Restart, InstallerNext
  <2> QED
    BY <2>1, <2>2, <2>3, <2>4, <2>5 DEF Next, Thread
<1> QED
  BY <1>1, <1>2, PTL DEF Spec, InstallerSpec

\* promote_stage (package_installer.c) gives back PAF, the promoter module and
\* its session on every path through it, failed calls included, in the reverse
\* of the order it took them in.
THEOREM ModulesAreReleased == Spec => []ModulesReleased
<1>1. HeldInv => ModulesReleased
  <2> SUFFICES ASSUME HeldInv PROVE ModulesReleased
      OBVIOUS
  <2>1. held \ leaked = Needed
    BY DEF HeldInv
  <2>2. pc \in {"idle", "cleanup", "answer", "returned"} => held = leaked
    BY DEF HeldInv, Needed
  <2>3. ("session" \in Needed => "util" \in Needed) /\ ("util" \in Needed => "paf" \in Needed)
    BY DEF Needed, HeldInv, Steps
  <2> QED
    BY <2>1, <2>2, <2>3 DEF ModulesReleased
<1> QED
  BY <1>1, HeldInvariance, RequestDrivesInstaller, PTL

\* install_vpk (package_installer.c) promotes the archive it was given, checked
\* in full, and nothing of earlier calls that the first clean-up took away,
\* whatever fails and whenever the power goes.
THEOREM ArchiveIsPromoted == Spec => []PromotedIsArchive
<1>1. InstallInv => PromotedIsArchive
  <2> SUFFICES ASSUME InstallInv, promoted # NotPromoted
               PROVE  /\ promoted[HEAD_BIN] = Fresh
                      /\ \A p \in FilePaths \ {HEAD_BIN} :
                           IF EntriesAt(p) = {} THEN promoted[p] \in Leftovers(cleared)
                           ELSE promoted[p] = Max(EntriesAt(p))
                      /\ \A i \in DOMAIN archive.entries :
                           IsDirectory(archive.entries[i].path) \/ Good(archive.entries[i])
      BY DEF PromotedIsArchive, Leftovers
  <2>1. Packed(archive, cleared, promoted) /\ archive \in Archives \cup {NoArchive}
    BY DEF InstallInv, PromotedInv, CallInv
  <2>2. \A i \in DOMAIN archive.entries : i < Len(archive.entries) + 1
    BY <2>1, ArchiveEntries
  <2>3. \A p \in FilePaths \ {HEAD_BIN} :
           IF EntriesAt(p) = {} THEN promoted[p] \in Leftovers(cleared)
           ELSE promoted[p] = Max(EntriesAt(p))
    <3> SUFFICES ASSUME NEW p \in FilePaths \ {HEAD_BIN}
                 PROVE IF EntriesAt(p) = {} THEN promoted[p] \in Leftovers(cleared)
                       ELSE promoted[p] = Max(EntriesAt(p))
        OBVIOUS
    <3>1. EntriesBefore(archive, p, Len(archive.entries) + 1) = EntriesAt(p)
      BY <2>1, BeforeEnd DEF EntriesAt, EntriesOf
    <3> QED
      BY <2>1, <3>1 DEF Packed, Holds
  <2> QED
    BY <2>1, <2>2, <2>3 DEF Packed, Checked
<1> QED
  BY <1>1, InstallInvariance, RequestDrivesInstaller, PTL

\* cmd_install (cmd_definitions.c) reports a title only for a package that was
\* promoted and completely cleaned up behind, with the title that is in it, and
\* an error after a promotion only if something really stayed behind.
THEOREM AnswerIsHonest == Spec => []AnswerHonest
<1>1. InstallInv => AnswerHonest
  <2> SUFFICES ASSUME InstallInv PROVE AnswerHonest
      OBVIOUS
  <2>0. ResultInv /\ PromotedInv /\ HeldInv /\ result \in {"ok", "error"}
        /\ "none" \notin ValidTitles /\ "error" \notin ValidTitles
    BY InstallerAssumption DEF InstallInv, CallInv
  <2>1. ASSUME answer \in ValidTitles
        PROVE  /\ promoted # NotPromoted /\ held = {}
               /\ IF EntriesAt(PARAM_SFO) # {}
                  THEN answer = sfo_string(archive.entries[Max(EntriesAt(PARAM_SFO))].sfo, "TITLE_ID")
                  ELSE ~cleared /\ answer = OldTitle
    <3>1. pc = "returned" /\ result = "ok" /\ answer = title_id
      BY <2>0, <2>1 DEF ResultInv
    <3>2. promoted # NotPromoted /\ leaked = {}
      BY <2>0, <3>1 DEF ResultInv, Growing, Quiet
    <3>3. held = {}
      BY <2>0, <3>1, <3>2 DEF HeldInv, Needed
    <3>4. Titled(archive, cleared, answer)
      BY <2>0, <3>1, <3>2 DEF PromotedInv
    <3> QED
      BY <3>2, <3>3, <3>4 DEF Titled, EntriesAt, EntriesOf
  <2>2. ASSUME answer = "error", promoted # NotPromoted PROVE leaked # {} \/ stage_dir
    <3>1. pc = "returned"
      BY <2>0, <2>2 DEF ResultInv
    <3>2. CASE result = "ok"
      <4>1. title_id \in ValidTitles /\ answer = title_id
        BY <2>0, <2>2, <3>1, <3>2 DEF PromotedInv, Titled, ResultInv
      <4> QED
        BY <2>0, <2>2, <4>1
    <3>3. CASE result = "error"
      BY <2>0, <2>2, <3>3 DEF ResultInv
    <3> QED
      BY <2>0, <3>2, <3>3
  <2> QED
    BY <2>1, <2>2 DEF AnswerHonest
<1> QED
  BY <1>1, InstallInvariance, RequestDrivesInstaller, PTL

\* The installer's variables stay in their ranges.
LEMMA InstallerTypes == InstallInv => InstallerTypeOK
<1> SUFFICES ASSUME InstallInv PROVE InstallerTypeOK
    OBVIOUS
<1>1. Origins = OriginsOf(archive)
  BY DEF Origins, OriginsOf
<1>2. held \subseteq {"paf", "util", "session"} /\ leaked \subseteq held
  BY DEF InstallInv, HeldInv, Needed
<1>3. answer \in ValidTitles \cup {"none", "error"}
  <2>1. ResultInv /\ PromotedInv /\ result \in {"ok", "error"}
    BY DEF InstallInv, CallInv
  <2>2. CASE pc = "returned" /\ result = "ok"
    <3>1. promoted # NotPromoted
      BY <2>1, <2>2 DEF ResultInv, Growing, Quiet
    <3> QED
      BY <2>1, <2>2, <3>1 DEF PromotedInv, Titled, ResultInv
  <2>3. CASE ~(pc = "returned" /\ result = "ok")
    BY <2>1, <2>3 DEF ResultInv
  <2> QED
    BY <2>2, <2>3
<1> QED
  BY <1>1, <1>2, <1>3 DEF InstallInv, CallInv, FilesInv, InstallerTypeOK

-----------------------------------------------------------------------------
(* The request around the installer. *)

\* The ranges of the request's own variables.
BufferInv ==
    /\ text \in Requests \cup {<<>>} /\ used \in 0..Len(text)
    /\ attempt \in 0..LAUNCH_CONFIRM_ATTEMPTS

SystemInv ==
    /\ step \in {"accept", "receive", "run", "confirm", "install", "send"}
    /\ reply \in Replies /\ shellshot \in {"unknown", "available", "missing"}
    /\ foreground \in Titles \cup {NoTitle} /\ seen \subseteq Titles

\* The installer is called by its command and by nothing else.
CallerInv ==
    /\ pc \in Steps
    /\ pc \notin {"idle", "returned"} <=> step = "install"
    /\ pc = "returned" => step = "send"

\* While launch polls, what it looks at is among the titles seen, and only its
\* own answer is "launched".
LaunchInv ==
    /\ step = "confirm" => foreground \in seen
    /\ reply = "launched" => step = "send" /\ \E t \in seen : Upper(t) = Upper(args[2])

RequestInv == BufferInv /\ SystemInv /\ CallerInv /\ LaunchInv

\* Steps that do not touch the text, or drop it, and leave the attempts alone.
LEMMA BufferSame ==
    ASSUME BufferInv, UNCHANGED buffer \/ Dropped, attempt' \in {attempt, 0} PROVE BufferInv'
<1>1. 0 \in 0..LAUNCH_CONFIRM_ATTEMPTS /\ 0 \in 0..Len(<<>>)
  BY RequestAssumption
<1> QED
  BY <1>1 DEF BufferInv, buffer, Dropped

\* The text that is received stays a request, however it is cut.
LEMMA BufferStep == ASSUME BufferInv, Next PROVE BufferInv'
<1>0. \A r \in Requests \cup {<<>>} : Len(r) \in Nat /\ 0 \in 0..Len(r)
  BY RequestAssumption
<1>1. CASE Accept
  <2>1. text' \in Requests /\ used' = 0 /\ attempt' = attempt
    BY <1>1 DEF Accept
  <2> QED
    BY <1>0, <2>1 DEF BufferInv
<1>2. CASE Receive
  <2>1. text' = text /\ attempt' = attempt /\ used' \in used + 1..Len(text)
    BY <1>2 DEF Receive
  <2>2. used \in 0..Len(text) /\ Len(text) \in Nat
    BY <1>0 DEF BufferInv
  <2>3. used' \in 0..Len(text)
    BY <2>1, <2>2
  <2> QED
    BY <2>1, <2>3 DEF BufferInv
<1>3. CASE ConfirmLaunch
  <2>1. UNCHANGED buffer /\ attempt < LAUNCH_CONFIRM_ATTEMPTS /\ attempt' \in {attempt, attempt + 1}
    BY <1>3 DEF ConfirmLaunch, MoreAttempts, NextAttempt
  <2>2. attempt' \in 0..LAUNCH_CONFIRM_ATTEMPTS
    BY <2>1, RequestAssumption DEF BufferInv
  <2> QED
    BY <2>1, <2>2 DEF BufferInv, buffer
<1>4. CASE ReceiveEnd \/ ReceiveFails \/ RunSimple \/ RunOnArgument \/ RunQuery \/ RunScreenshot
           \/ RunLaunch \/ LaunchUnconfirmed \/ RunInstall \/ Installing \/ InstallAnswered \/ Send
           \/ ForegroundChanges \/ Restart
  BY <1>4, BufferSame
     DEF ReceiveEnd, ReceiveFails, RunSimple, RunOnArgument, RunQuery, RunScreenshot, RunLaunch,
         LaunchUnconfirmed, RunInstall, Installing, InstallAnswered, Send, ForegroundChanges, Restart,
         requestVars, buffer
<1> QED
  BY <1>1, <1>2, <1>3, <1>4 DEF Next, Thread

\* What cmd_thread does with a request, as far as the reply is concerned.
LEMMA FramedReply ==
    ASSUME NEW n, Framed(n)
    PROVE  \/ step' = "send" /\ reply' \in {"error", "too_long"} /\ args' = args
           \/ step' = "run" /\ reply' = reply
  BY DEF Framed, Respond

LEMMA SystemStep == ASSUME SystemInv, Next PROVE SystemInv'
<1> USE DEF SystemInv, Replies
<1>1. CASE Accept \/ ReceiveFails \/ RunSimple \/ RunOnArgument \/ RunQuery \/ LaunchUnconfirmed
  BY <1>1 DEF Accept, ReceiveFails, RunSimple, RunOnArgument, RunQuery, LaunchUnconfirmed, Respond, system
<1>2. CASE Receive \/ ReceiveEnd
  <2>1. UNCHANGED system
    BY <1>2 DEF Receive, ReceiveEnd
  <2>2. step' \in {step, "send", "run"} /\ reply' \in {reply, "error", "too_long"}
    BY <1>2, FramedReply DEF Receive, ReceiveEnd
  <2> QED
    BY <2>1, <2>2 DEF system
<1>3. CASE RunScreenshot
  BY <1>3 DEF RunScreenshot, Respond
<1>4. CASE RunLaunch \/ ForegroundChanges
  BY <1>4 DEF RunLaunch, ForegroundChanges, Respond
<1>5. CASE ConfirmLaunch
  BY <1>5 DEF ConfirmLaunch, Respond, system
<1>6. CASE RunInstall \/ Installing \/ InstallAnswered
  BY <1>6 DEF RunInstall, Installing, InstallAnswered, Respond, system, requestVars
<1>7. CASE Send \/ Restart
  BY <1>7 DEF Send, Restart
<1> QED
  BY <1>1, <1>2, <1>3, <1>4, <1>5, <1>6, <1>7 DEF Next, Thread

\* The steps of install_vpk begin and end inside it.
LEMMA InstallerStepInside ==
    ASSUME InstallerStep
    PROVE  pc' \in Steps \ {"idle", "returned"} /\ pc \in Steps \ {"idle", "returned"}
  BY DEF InstallerStep, ClearStage, MakeStage, OpenArchive, EntryFails, EntryDirectory, EntryFile,
         ExtractData, ExtractDone, MakeHead, LoadPaf, LoadPromoter, PromoterInit, Promote,
         PromoterExit, UnloadPromoter, UnloadPaf, ReleaseStep, Cleanup, Fail, Steps

LEMMA CallerStep == ASSUME CallerInv, SystemInv, Next PROVE CallerInv'
<1> USE DEF CallerInv
<1>1. CASE Accept \/ ReceiveFails \/ RunSimple \/ RunOnArgument \/ RunQuery \/ RunScreenshot \/ RunLaunch
           \/ ConfirmLaunch \/ LaunchUnconfirmed \/ ForegroundChanges
  <2>1. pc' = pc /\ step \notin {"install", "send"}
    BY <1>1 DEF Accept, ReceiveFails, RunSimple, RunOnArgument, RunQuery, RunScreenshot, RunLaunch,
                ConfirmLaunch, LaunchUnconfirmed, ForegroundChanges, Runs, installVars
  <2>2. step' # "install"
    BY <1>1 DEF Accept, ReceiveFails, RunSimple, RunOnArgument, RunQuery, RunScreenshot, RunLaunch,
                ConfirmLaunch, LaunchUnconfirmed, ForegroundChanges, Respond
  <2> QED
    BY <2>1, <2>2
<1>2. CASE Receive \/ ReceiveEnd
  <2>1. pc' = pc /\ step = "receive"
    BY <1>2 DEF Receive, ReceiveEnd, installVars
  <2>2. step' \in {"receive", "send", "run"}
    BY <1>2, FramedReply DEF Receive, ReceiveEnd
  <2> QED
    BY <2>1, <2>2
<1>3. CASE RunInstall
  BY <1>3 DEF RunInstall, Runs, Install, RefuseArgument, Steps
<1>4. CASE Installing
  BY <1>4, InstallerStepInside DEF Installing, requestVars
<1>5. CASE InstallAnswered
  BY <1>5 DEF InstallAnswered, Answer, Respond, Steps
<1>6. CASE Send
  BY <1>6 DEF Send, Return, Forget, installVars, Steps
<1>7. CASE Restart
  BY <1>7 DEF Restart, PowerLoss, Forget, Steps
<1> QED
  BY <1>1, <1>2, <1>3, <1>4, <1>5, <1>6, <1>7 DEF Next, Thread

LEMMA LaunchStep == ASSUME LaunchInv, CallerInv, Next PROVE LaunchInv'
<1> USE DEF LaunchInv
<1>1. CASE Accept \/ ReceiveFails \/ RunSimple \/ RunOnArgument \/ RunQuery \/ RunScreenshot \/ LaunchUnconfirmed
  <2>1. step' # "confirm" /\ reply' # "launched"
    BY <1>1 DEF Accept, ReceiveFails, RunSimple, RunOnArgument, RunQuery, RunScreenshot,
                LaunchUnconfirmed, Respond
  <2> QED
    BY <2>1
<1>2. CASE Receive \/ ReceiveEnd
  <2>1. step = "receive"
    BY <1>2 DEF Receive, ReceiveEnd
  <2>2. step' \in {"receive", "send", "run"} /\ reply' \in {reply, "error", "too_long"}
    BY <1>2, <2>1, FramedReply DEF Receive, ReceiveEnd
  <2> QED
    BY <2>1, <2>2
<1>3. CASE RunLaunch
  BY <1>3 DEF RunLaunch, Respond, Runs
<1>4. CASE ConfirmLaunch
  <2>1. step = "confirm" /\ UNCHANGED <<args, foreground, seen>>
    BY <1>4 DEF ConfirmLaunch, system
  <2>2. CASE title_ids_equal(foreground, args[2])
    BY <1>4, <2>1, <2>2 DEF ConfirmLaunch, Respond, title_ids_equal
  <2>3. CASE UNCHANGED <<step, reply>>
    BY <2>1, <2>3
  <2> QED
    BY <1>4, <2>2, <2>3 DEF ConfirmLaunch
<1>5. CASE ForegroundChanges
  BY <1>5 DEF ForegroundChanges
<1>6. CASE RunInstall
  BY <1>6 DEF RunInstall, Runs
<1>7. CASE Installing
  BY <1>7 DEF Installing, requestVars
<1>8. CASE InstallAnswered
  BY <1>8 DEF InstallAnswered, Respond
<1>9. CASE Send \/ Restart
  BY <1>9 DEF Send, Restart
<1> QED
  BY <1>1, <1>2, <1>3, <1>4, <1>5, <1>6, <1>7, <1>8, <1>9 DEF Next, Thread

\* RequestInv holds in every state of the command server.
THEOREM RequestInvariance == Spec => []RequestInv
<1>1. Init => RequestInv
  <2> SUFFICES ASSUME Init PROVE RequestInv
      OBVIOUS
  <2>1. BufferInv
    <3>1. 0 \in 0..LAUNCH_CONFIRM_ATTEMPTS /\ 0 \in 0..Len(<<>>)
      BY RequestAssumption
    <3> QED
      BY <3>1 DEF Init, BufferInv
  <2>2. SystemInv /\ CallerInv /\ LaunchInv
    BY DEF Init, InstallerInit, SystemInv, CallerInv, LaunchInv, Replies, Steps
  <2> QED
    BY <2>1, <2>2 DEF RequestInv
<1>2. RequestInv /\ [Next]_vars => RequestInv'
  <2> SUFFICES ASSUME RequestInv, [Next]_vars PROVE RequestInv'
      OBVIOUS
  <2>1. CASE Next
    BY <2>1, BufferStep, SystemStep, CallerStep, LaunchStep DEF RequestInv
  <2>2. CASE UNCHANGED vars
    BY <2>2 DEF RequestInv, BufferInv, SystemInv, CallerInv, LaunchInv, vars, requestVars, installVars
  <2> QED
    BY <2>1, <2>2
<1> QED
  BY <1>1, <1>2, PTL DEF Spec

\* All variables of the command server and its installer stay in their ranges,
\* and the installer runs exactly while cmd_install does.
THEOREM RequestTypeCorrect == Spec => []RequestTypeOK
<1>1. InstallInv /\ RequestInv => RequestTypeOK
  BY InstallerTypes DEF RequestInv, BufferInv, SystemInv, CallerInv, RequestTypeOK
<1> QED
  BY <1>1, InstallInvariance, RequestDrivesInstaller, RequestInvariance, PTL

\* cmd_launch (cmd_definitions.c) answers "Launched" only if the title was in
\* the foreground after the system accepted the launch.
THEOREM LaunchIsConfirmed == Spec => []LaunchConfirmed
<1>1. RequestInv => LaunchConfirmed
  BY DEF RequestInv, LaunchInv, LaunchConfirmed
<1> QED
  BY <1>1, RequestInvariance, PTL
-----------------------------------------------------------------------------
(* The bytes on the stage. *)

\* total_size counts what is staged for this archive, and the entry being
\* extracted, though entries of one path replace each other.
SizesInv ==
    SumFunction(Sizes(archive, stage)) + (IF pc = "data" THEN Entry.size ELSE 0) <= total_size

LEMMA SizesType ==
    ASSUME NEW a \in Archives \cup {NoArchive}, NEW s \in [FilePaths -> OriginsOf(a)]
    PROVE  /\ IsFiniteSet(FilePaths) /\ Sizes(a, s) \in [FilePaths -> Nat]
           /\ SumFunction(Sizes(a, s)) \in Nat
<1>1. IsFiniteSet(FilePaths)
  BY InstallerAssumption
<1>2. ASSUME NEW p \in FilePaths, s[p] > 0 PROVE a.entries[s[p]].size \in Nat
  <2>1. /\ Len(a.entries) \in Nat /\ DOMAIN a.entries = 1..Len(a.entries)
        /\ \A i \in DOMAIN a.entries : a.entries[i].size \in Nat
    BY ArchiveEntries
  <2>2. s[p] \in 1..Len(a.entries)
    BY <1>2 DEF OriginsOf, Absent, Partial, Old, Fresh
  <2> QED
    BY <2>1, <2>2
<1>3. Sizes(a, s) \in [FilePaths -> Nat]
  BY <1>2 DEF Sizes
<1> QED
  BY <1>1, <1>3, SumOfNaturals

\* Files that go, or turn into ones that are not the archive's, leave no more
\* bytes than there were.
LEMMA SizesShrink ==
    ASSUME NEW a \in Archives \cup {NoArchive},
           NEW s \in [FilePaths -> OriginsOf(a)], NEW t \in [FilePaths -> OriginsOf(a)],
           \A p \in FilePaths : t[p] \in {s[p], Absent, Partial, Fresh}
    PROVE  SumFunction(Sizes(a, t)) <= SumFunction(Sizes(a, s))
<1>1. IsFiniteSet(FilePaths) /\ Sizes(a, s) \in [FilePaths -> Nat] /\ Sizes(a, t) \in [FilePaths -> Nat]
  BY SizesType
<1>2. ASSUME NEW p \in FilePaths PROVE Sizes(a, t)[p] <= Sizes(a, s)[p]
  <2>1. Sizes(a, s)[p] \in Nat
    BY <1>1
  <2>2. CASE t[p] = s[p]
    <3>1. Sizes(a, t)[p] = Sizes(a, s)[p]
      BY <2>2 DEF Sizes
    <3> QED
      BY <2>1, <3>1
  <2>3. CASE t[p] \in {Absent, Partial, Fresh}
    <3>1. ~(t[p] > 0)
      BY <2>3 DEF Absent, Partial, Fresh
    <3>2. Sizes(a, t)[p] = 0
      BY <3>1 DEF Sizes
    <3> QED
      BY <2>1, <3>2
  <2> QED
    BY <2>2, <2>3
<1> QED
  BY <1>1, <1>2, SumMonotone

\* A stage without a file of this archive.
LEMMA SizesNone ==
    ASSUME NEW a \in Archives \cup {NoArchive}, NEW s \in [FilePaths -> OriginsOf(a)],
           \A p \in FilePaths : s[p] \in {Absent, Old}
    PROVE  SumFunction(Sizes(a, s)) = 0
<1>1. IsFiniteSet(FilePaths) /\ Sizes(a, s) \in [FilePaths -> Nat]
  BY SizesType
<1>2. ASSUME NEW p \in FilePaths PROVE Sizes(a, s)[p] = 0
  <2>1. ~(s[p] > 0)
    BY DEF Absent, Old
  <2> QED
    BY <2>1 DEF Sizes
<1> QED
  BY <1>1, <1>2, SumOfNaturals

LEMMA SizesStep ==
    ASSUME InstallInv, InstallInv', SizesInv, InstallerNext PROVE SizesInv'
<1> DEFINE sum == SumFunction(Sizes(archive, stage))
           more == IF pc = "data" THEN Entry.size ELSE 0
<1>0. CallInv /\ FilesInv /\ CallInv' /\ FilesInv' /\ StageInv /\ StageInv'
  BY DEF InstallInv
<1>t. /\ archive \in Archives \cup {NoArchive} /\ archive' \in Archives \cup {NoArchive}
      /\ stage \in [FilePaths -> OriginsOf(archive)] /\ stage' \in [FilePaths -> OriginsOf(archive')]
  BY <1>0 DEF CallInv, FilesInv
<1>1. /\ sum \in Nat /\ sum' \in Nat /\ total_size \in Nat /\ total_size' \in Nat
  <2>1. sum \in Nat /\ sum' \in Nat
    BY <1>t, SizesType
  <2>2. total_size \in 0..INSTALL_TOTAL_MAX /\ total_size' \in 0..INSTALL_TOTAL_MAX
    BY <1>0 DEF CallInv
  <2>3. INSTALL_TOTAL_MAX \in Nat
    BY InstallerAssumption
  <2> HIDE DEF sum
  <2> QED
    BY <2>1, <2>2, <2>3
<1>2. more \in Nat /\ more' \in Nat
  <2>1. pc = "data" => Entry.size \in Nat
    BY <1>0, ArchiveEntries DEF CallInv, StageInv, Extracting, Entry
  <2>2. pc' = "data" => Entry'.size \in Nat
    BY <1>0, ArchiveEntries DEF CallInv, StageInv, Extracting, Entry
  <2> QED
    BY <2>1, <2>2
<1>3. sum + more <= total_size
  BY DEF SizesInv
<1>4. SUFFICES sum' + more' <= total_size'
  BY DEF SizesInv
<1>5. ASSUME archive' = archive, pc' # "data", total_size' >= total_size,
             \A p \in FilePaths : stage'[p] \in {stage[p], Absent, Partial, Fresh}
      PROVE  sum' + more' <= total_size'
  <2>1. sum' <= sum
    BY <1>t, <1>5, SizesShrink
  <2>2. more' = 0 /\ total_size' >= total_size
    BY <1>5
  <2> HIDE DEF sum, more
  <2>3. sum <= total_size
    BY <1>1, <1>2, <1>3
  <2>4. sum' <= total_size'
    BY <1>1, <2>1, <2>2, <2>3
  <2>5. \A x, y \in Nat : x <= y => x + 0 <= y
    OBVIOUS
  <2> QED
    BY <1>1, <2>2, <2>4, <2>5
<1>6. ASSUME pc' \in {"idle", "clear"} PROVE sum' + more' <= total_size'
  <2>1. \A p \in FilePaths : stage'[p] \in {Absent, Old}
    BY <1>0, <1>6 DEF FilesInv
  <2>2. sum' = 0
    BY <1>t, <2>1, SizesNone
  <2>3. more' = 0
    BY <1>6
  <2> HIDE DEF sum, more
  <2> QED
    BY <1>1, <2>2, <2>3
<1>7. CASE (\E a \in Archives : Install(a)) \/ Return \/ PowerLoss
  BY <1>6, <1>7 DEF Install, Return, PowerLoss, Forget
<1>8. CASE EntryFile
  <2>1. /\ pc = "entry" /\ pc' = "data" /\ archive' = archive /\ index' = index
        /\ total_size' = total_size + Entry.size /\ stage' = [stage EXCEPT ![Entry.path] = Partial]
    BY <1>8 DEF EntryFile
  <2>2. sum' <= sum
    <3>1. stage \in [FilePaths -> OriginsOf(archive)]
      BY <1>0 DEF FilesInv
    <3>2. \A p \in FilePaths : stage'[p] \in {stage[p], Absent, Partial, Fresh}
      BY <2>1, <3>1
    <3> QED
      BY <1>t, <2>1, <3>2, SizesShrink
  <2>3. more = 0 /\ more' = Entry.size
    BY <2>1 DEF Entry
  <2> HIDE DEF sum, more
  <2> QED
    BY <1>1, <1>2, <1>3, <2>1, <2>2, <2>3
<1>9. CASE ExtractData
  <2>1. pc = "data" /\ archive' = archive /\ total_size' = total_size /\ pc' # "data"
    BY <1>9 DEF ExtractData, Fail
  <2>2. stage \in [FilePaths -> OriginsOf(archive)] /\ stage' \in [FilePaths -> OriginsOf(archive')]
    BY <1>0 DEF FilesInv
  <2>3. CASE stage' = [stage EXCEPT ![Entry.path] = index]
    <3> DEFINE d == Entry.path
               f == Sizes(archive, stage)
               h == Sizes(archive, stage)'
    <3>1. d \in FilePaths /\ index \in DOMAIN archive.entries
      BY <1>0, <2>1 DEF StageInv, Extracting, Entry
    <3>2. index > 0
      <4>1. DOMAIN archive.entries = 1..Len(archive.entries) /\ Len(archive.entries) \in Nat
        BY <1>t, ArchiveEntries
      <4> QED
        BY <3>1, <4>1
    <3>3. stage'[d] = index /\ \A p \in FilePaths \ {d} : stage'[p] = stage[p]
      BY <2>2, <2>3, <3>1
    <3>4. h[d] = Entry.size
      BY <2>1, <3>1, <3>2, <3>3 DEF Sizes, Entry
    <3>5. \A p \in FilePaths \ {d} : f[p] = h[p]
      BY <2>1, <3>3 DEF Sizes
    <3>6. IsFiniteSet(FilePaths) /\ f \in [FilePaths -> Nat] /\ h \in [FilePaths -> Nat]
      BY <1>t, SizesType
    <3>9. sum = SumFunction(f) /\ sum' = SumFunction(h)
      OBVIOUS
    <3> HIDE DEF f, h, d
    <3>7. SumFunction(f) + h[d] = SumFunction(h) + f[d]
      BY <3>1, <3>5, <3>6, SumUpdate
    <3>8. more = Entry.size /\ more' = 0 /\ f[d] \in Nat
      BY <2>1, <3>1, <3>6
    <3> HIDE DEF sum, more
    <3> QED
      BY <1>1, <1>2, <1>3, <2>1, <3>4, <3>7, <3>8, <3>9
  <2>4. CASE stage' \in {stage, [stage EXCEPT ![Entry.path] = Absent]}
    <3>1. \A p \in FilePaths : stage'[p] \in {stage[p], Absent, Partial, Fresh}
      BY <2>2, <2>4
    <3>2. total_size' >= total_size
      BY <1>1, <2>1
    <3> QED
      BY <1>5, <2>1, <3>1, <3>2
  <2> QED
    BY <1>9, <2>3, <2>4 DEF ExtractData
<1>10. CASE EntryFails \/ EntryDirectory
  <2>1. archive' = archive /\ pc' # "data" /\ stage' = stage
    BY <1>10 DEF EntryFails, EntryDirectory, Fail
  <2>2. total_size' = total_size \/ total_size' = total_size + Entry.size
    BY <1>10 DEF EntryFails, EntryDirectory
  <2>3. Entry.size \in Nat
    <3>1. index <= Len(archive.entries) /\ index \in 1..Len(archive.entries) + 1
      BY <1>0, <1>10 DEF EntryFails, EntryDirectory, CallInv
    <3>2. /\ Len(archive.entries) \in Nat /\ DOMAIN archive.entries = 1..Len(archive.entries)
          /\ \A i \in DOMAIN archive.entries : archive.entries[i].size \in Nat
      BY <1>0, ArchiveEntries DEF CallInv
    <3>3. index \in DOMAIN archive.entries
      BY <3>1, <3>2
    <3> QED
      BY <3>2, <3>3 DEF Entry
  <2>4. total_size' >= total_size
    BY <1>1, <2>2, <2>3
  <2> QED
    BY <1>5, <2>1, <2>4
<1>11. CASE ClearStage \/ Cleanup \/ MakeHead \/ Promote
  <2>1. archive' = archive /\ pc' # "data" /\ total_size' >= total_size
    BY <1>1, <1>11 DEF ClearStage, Cleanup, MakeHead, Promote, Fail, call
  <2>2. stage \in [FilePaths -> OriginsOf(archive)]
    BY <1>0 DEF FilesInv
  <2>3. \A p \in FilePaths : stage'[p] \in {stage[p], Absent, Partial, Fresh}
    BY <1>11, <2>2 DEF ClearStage, Cleanup, MakeHead, Promote, RemoveTree, Empty
  <2> QED
    BY <1>5, <2>1, <2>3
<1>12. CASE RefuseArgument \/ MakeStage \/ OpenArchive \/ ExtractDone \/ LoadPaf \/ LoadPromoter
            \/ PromoterInit \/ PromoterExit \/ UnloadPromoter \/ UnloadPaf \/ Answer
  <2>1. archive' = archive /\ pc' # "data" /\ total_size' = total_size /\ stage' = stage
    BY <1>12 DEF RefuseArgument, MakeStage, OpenArchive, ExtractDone, LoadPaf, LoadPromoter,
                 PromoterInit, PromoterExit, UnloadPromoter, UnloadPaf, ReleaseStep, Answer, Fail, call
  <2>2. total_size' >= total_size
    BY <1>1, <2>1
  <2> QED
    BY <1>5, <2>1, <2>2
<1> QED
  BY <1>7, <1>8, <1>9, <1>10, <1>11, <1>12 DEF InstallerNext, InstallerStep

\* extract_vpk (package_installer.c) never has files of one archive on the stage
\* that declare more than INSTALL_TOTAL_MAX bytes together, for every archive.
THEOREM TotalIsBounded == InstallerSpec => []TotalBounded
<1>1. InstallerInit => SizesInv
  <2> SUFFICES ASSUME InstallerInit PROVE SizesInv
      OBVIOUS
  <2>1. pc # "data" /\ total_size = 0 /\ stage = Empty
    BY DEF InstallerInit
  <2>2. Sizes(archive, stage) = [p \in FilePaths |-> 0]
    BY <2>1 DEF Sizes, Empty, Absent
  <2>3. Sizes(archive, stage) \in [FilePaths -> Nat] /\ \A p \in FilePaths : Sizes(archive, stage)[p] = 0
    BY <2>2
  <2> HIDE DEF Sizes
  <2>4. SumFunction(Sizes(archive, stage)) = 0
    BY <2>3, InstallerAssumption, SumOfNaturals
  <2> QED
    BY <2>1, <2>4 DEF SizesInv
<1>2. InstallInv /\ InstallInv' /\ SizesInv /\ [InstallerNext]_installVars => SizesInv'
  <2> SUFFICES ASSUME InstallInv, InstallInv', SizesInv, [InstallerNext]_installVars PROVE SizesInv'
      OBVIOUS
  <2>1. CASE InstallerNext
    BY <2>1, SizesStep
  <2>2. CASE UNCHANGED installVars
    BY <2>2 DEF SizesInv, Sizes, Entry, installVars
  <2> QED
    BY <2>1, <2>2
<1>3. InstallInv /\ SizesInv => TotalBounded
  <2> SUFFICES ASSUME InstallInv, SizesInv PROVE TotalBounded
      OBVIOUS
  <2>1. CallInv /\ FilesInv /\ StageInv
    BY DEF InstallInv
  <2>2. SumFunction(Sizes(archive, stage)) \in Nat
    BY <2>1, SizesType DEF CallInv, FilesInv
  <2>3. pc = "data" => Entry.size \in Nat
    BY <2>1, ArchiveEntries DEF CallInv, StageInv, Extracting, Entry
  <2>4. total_size \in 0..INSTALL_TOTAL_MAX /\ INSTALL_TOTAL_MAX \in Nat
    BY <2>1, InstallerAssumption DEF CallInv
  <2>5. SumFunction(Sizes(archive, stage)) <= total_size
    BY <2>2, <2>3, <2>4 DEF SizesInv
  <2> QED
    BY <2>2, <2>4, <2>5 DEF TotalBounded
<1> QED
  BY <1>1, <1>2, <1>3, InstallInvariance, PTL DEF InstallerSpec
-----------------------------------------------------------------------------
(* The request that runs. *)

\* "too long" is the answer to the text that is still there.
FramedInv ==
    /\ step = "run" => /\ args = Words(Before(text, Terminals))
                       /\ HasNewline(Received) \/ used = Len(text)
    /\ reply = "too_long" =>
         /\ step = "send"
         /\ Len(text) >= CMD_REQUEST_BYTES /\ ~HasNewline(SubSeq(text, 1, CMD_REQUEST_BYTES))

\* A request is a text of characters.
LEMMA RequestText ==
    ASSUME BufferInv
    PROVE  text \in Seq(STRING) /\ Len(text) \in Nat /\ used \in 0..Len(text)
<1>1. text \in Seq(STRING)
  <2>1. CASE text \in Requests
    BY <2>1, RequestAssumption
  <2>2. CASE text = <<>>
    BY <2>2
  <2> QED
    BY <2>1, <2>2 DEF BufferInv
<1> QED
  BY <1>1, LenProperties DEF BufferInv

\* The first line of a part of the request is that of the request when the part
\* has its newline, or is all of it.
LEMMA FirstLine ==
    ASSUME NEW t \in Seq(STRING), NEW n \in 0..Len(t),
           HasNewline(SubSeq(t, 1, n)) \/ n = Len(t)
    PROVE  /\ SubSeq(t, 1, n) \in Seq(STRING)
           /\ Before(SubSeq(t, 1, n), Terminals) = Before(t, Terminals)
<1> DEFINE p == SubSeq(t, 1, n)
<1>1. Len(t) \in Nat /\ \A i \in 1..Len(t) : t[i] \in STRING
  BY LenProperties, ElementOfSeq
<1>2. p \in Seq(STRING) /\ Len(p) = n /\ \A i \in 1..n : p[i] = t[i]
  <2>1. \A i \in 1..n : t[i] \in STRING
    BY <1>1
  <2>2. /\ p \in Seq(STRING) /\ Len(p) = IF 1 <= n THEN n - 1 + 1 ELSE 0
        /\ \A i \in 1..n - 1 + 1 : p[i] = t[1 + i - 1]
    BY <1>1, <2>1, SubSeqProperties
  <2> QED
    BY <1>1, <2>2
<1>3. CASE n = Len(t)
  <2>1. p = t
    BY <1>3, SubSeqFull
  <2> QED
    BY <1>2, <2>1
<1>4. CASE HasNewline(p)
  <2> HIDE DEF p
  <2> DEFINE M == {i \in 1..n : p[i] \in Terminals}
  <2>1. PICK k \in DOMAIN p : p[k] = "nl"
    BY <1>4 DEF HasNewline, Range
  <2>2. k \in M
    <3>1. k \in 1..n
      BY <1>2, <2>1, LenProperties
    <3> QED
      BY <2>1, <3>1 DEF Terminals
  <2>3. PICK m \in M : \A i \in M : m <= i
    <3>1. M \subseteq Nat /\ M # {}
      BY <2>2
    <3> HIDE DEF M
    <3> QED
      BY <3>1, LeastElement
  <2>4. /\ m \in 1..n /\ p[m] \in Terminals /\ t[m] \in Terminals
    BY <1>2, <2>3
  <2>5. \A i \in 1..m - 1 : i \in 1..n /\ p[i] \notin Terminals
    <3> SUFFICES ASSUME NEW i \in 1..m - 1 PROVE i \in 1..n /\ p[i] \notin Terminals
        OBVIOUS
    <3>1. i \in 1..n /\ ~(m <= i)
      BY <1>1, <2>4
    <3> QED
      BY <2>3, <3>1
  <2> HIDE DEF M
  <2>6. \A i \in 1..m - 1 : t[i] \notin Terminals
    BY <1>2, <2>5
  <2>7. m \in 1..Len(p) + 1 /\ m \in 1..Len(t) + 1
    BY <1>1, <1>2, <2>4
  <2>8. Before(p, Terminals) = SubSeq(p, 1, m - 1)
    BY <1>2, <2>4, <2>5, <2>7, BeforeIs
  <2>9. Before(t, Terminals) = SubSeq(t, 1, m - 1)
    BY <2>4, <2>6, <2>7, BeforeIs
  <2>10. SubSeq(p, 1, m - 1) = SubSeq(t, 1, m - 1)
    <3>1. CASE m = 1
      <4>1. SubSeq(p, 1, 0) = <<>> /\ SubSeq(t, 1, 0) = <<>>
        BY SubSeqEmpty
      <4> QED
        BY <3>1, <4>1
    <3>2. CASE m # 1
      <4>1. n \in 1..Len(t) /\ 1 \in 1..Len(t) /\ 1 \in 1..n - 1 + 1 /\ m - 1 \in 1..n - 1 + 1
        BY <1>1, <2>4, <3>2
      <4>2. SubSeq(SubSeq(t, 1, n), 1, m - 1) = SubSeq(t, 1 + 1 - 1, 1 + (m - 1) - 1)
        BY <4>1, SubSeqOfSubSeq
      <4> QED
        BY <1>1, <2>4, <4>2 DEF p
    <3> QED
      BY <3>1, <3>2
  <2> QED
    BY <1>2, <2>8, <2>9, <2>10 DEF p
<1> QED
  BY <1>3, <1>4

\* What cmd_thread does with a request whose first line is there, or that filled
\* the buffer.
LEMMA FramedIs ==
    ASSUME BufferInv, NEW n \in 0..Len(text), Framed(n),
           HasNewline(SubSeq(text, 1, n)) \/ n = CMD_REQUEST_BYTES \/ n = Len(text)
    PROVE  /\ step' = "run" => /\ args' = Words(Before(text, Terminals)) /\ reply' = reply
                               /\ HasNewline(SubSeq(text, 1, n)) \/ n = Len(text)
           /\ step' = "send" => \/ reply' = "error"
                                \/ /\ reply' = "too_long" /\ Len(text) >= CMD_REQUEST_BYTES
                                   /\ ~HasNewline(SubSeq(text, 1, CMD_REQUEST_BYTES))
           /\ step' \in {"run", "send"}
<1>1. text \in Seq(STRING) /\ Len(text) \in Nat
  BY RequestText
<1>2. CASE n = CMD_REQUEST_BYTES /\ ~HasNewline(SubSeq(text, 1, n))
  <2>1. step' = "send" /\ reply' = "too_long"
    BY <1>2 DEF Framed, Respond
  <2>2. Len(text) >= CMD_REQUEST_BYTES
    BY <1>1, <1>2
  <2> QED
    BY <1>2, <2>1, <2>2
<1>3. CASE ~(n = CMD_REQUEST_BYTES /\ ~HasNewline(SubSeq(text, 1, n)))
  <2> DEFINE p == SubSeq(text, 1, n)
             parsed == parse_cmd(p, ARG_MAX)
  <2>1. HasNewline(p) \/ n = Len(text)
    BY <1>3
  <2>2. p \in Seq(STRING) /\ Before(p, Terminals) = Before(text, Terminals)
    BY <1>1, <2>1, FirstLine
  <2>3. ~parsed.too_many => parsed.args = Words(Before(text, Terminals))
    <3> HIDE DEF p
    <3>1. ~parsed.too_many => parsed.args = Tokens(Before(p, Terminals), Separators)
      BY <2>2, RequestAssumption, ParseCommand
    <3> QED
      BY <2>2, <3>1 DEF Words
  <2>4. \/ step' = "send" /\ reply' = "error"
        \/ step' = "run" /\ reply' = reply /\ args' = parsed.args /\ ~parsed.too_many
    BY <1>3 DEF Framed, Respond
  <2> QED
    BY <2>1, <2>3, <2>4
<1> QED
  BY <1>2, <1>3

LEMMA FramedStep == ASSUME FramedInv, BufferInv, CallerInv, Next PROVE FramedInv'
<1> USE DEF FramedInv
<1>1. CASE Receive
  <2>1. PICK n \in used + 1..Len(text) :
          /\ used' = n
          /\ IF LoopEnds(n) THEN Framed(n) ELSE UNCHANGED <<step, reply, args>>
    BY <1>1 DEF Receive
  <2>2. text' = text /\ step = "receive"
    BY <1>1 DEF Receive
  <2>3. n \in 0..Len(text)
    BY <2>1, RequestText
  <2>4. CASE LoopEnds(n)
    <3>1. Framed(n) /\ (HasNewline(SubSeq(text, 1, n)) \/ n = CMD_REQUEST_BYTES)
      BY <2>1, <2>4 DEF LoopEnds
    <3>2. /\ step' = "run" => /\ args' = Words(Before(text, Terminals)) /\ reply' = reply
                              /\ HasNewline(SubSeq(text, 1, n)) \/ n = Len(text)
          /\ step' = "send" => \/ reply' = "error"
                               \/ /\ reply' = "too_long" /\ Len(text) >= CMD_REQUEST_BYTES
                                  /\ ~HasNewline(SubSeq(text, 1, CMD_REQUEST_BYTES))
          /\ step' \in {"run", "send"}
      BY <2>3, <3>1, FramedIs
    <3> QED
      BY <2>1, <2>2, <3>2 DEF Received
  <2>5. CASE ~LoopEnds(n)
    BY <2>1, <2>2, <2>5
  <2> QED
    BY <2>4, <2>5
<1>2. CASE ReceiveEnd
  <2>1. step = "receive" /\ used = Len(text) /\ Framed(used) /\ text' = text /\ used' = used
    BY <1>2 DEF ReceiveEnd, buffer
  <2>2. used \in 0..Len(text)
    BY RequestText
  <2>3. /\ step' = "run" => args' = Words(Before(text, Terminals)) /\ reply' = reply
        /\ step' = "send" => \/ reply' = "error"
                             \/ /\ reply' = "too_long" /\ Len(text) >= CMD_REQUEST_BYTES
                                /\ ~HasNewline(SubSeq(text, 1, CMD_REQUEST_BYTES))
        /\ step' \in {"run", "send"}
    BY <2>1, <2>2, FramedIs
  <2> QED
    BY <2>1, <2>3
<1>3. CASE Accept \/ ReceiveFails \/ RunSimple \/ RunOnArgument \/ RunQuery \/ RunScreenshot \/ RunLaunch
           \/ LaunchUnconfirmed \/ RunInstall \/ Send \/ Restart
  BY <1>3 DEF Accept, ReceiveFails, RunSimple, RunOnArgument, RunQuery, RunScreenshot, RunLaunch,
              LaunchUnconfirmed, RunInstall, Send, Restart, Respond, Runs
<1>4. CASE ConfirmLaunch \/ ForegroundChanges
  BY <1>4 DEF ConfirmLaunch, ForegroundChanges, Respond
<1>5. CASE Installing
  <2>1. step = "install"
    BY <1>5, InstallerStepInside DEF Installing, CallerInv
  <2> QED
    BY <1>5, <2>1 DEF Installing, requestVars
<1>6. CASE InstallAnswered
  BY <1>6 DEF InstallAnswered, Respond
<1> QED
  BY <1>1, <1>2, <1>3, <1>4, <1>5, <1>6 DEF Next, Thread

\* receive_command and parse_cmd (cmd.c, parser.c) run the words of the first
\* line of what the peer sent, for every request, limit and way TCP cuts it, and
\* call no request too long that would have fitted.
THEOREM CommandIsFramed == Spec => []CmdFramed
<1>1. Init => FramedInv
  BY DEF Init, FramedInv
<1>2. FramedInv /\ RequestInv /\ [Next]_vars => FramedInv'
  <2> SUFFICES ASSUME FramedInv, RequestInv, [Next]_vars PROVE FramedInv'
      OBVIOUS
  <2>1. CASE Next
    BY <2>1, FramedStep DEF RequestInv
  <2>2. CASE UNCHANGED vars
    BY <2>2 DEF FramedInv, vars, requestVars, Received
  <2> QED
    BY <2>1, <2>2
<1>3. FramedInv => CmdFramed
  BY DEF FramedInv, CmdFramed
<1> QED
  BY <1>1, <1>2, <1>3, RequestInvariance, PTL DEF Spec
=============================================================================
