--------------------------- MODULE Updater_proofs ---------------------------
(***************************************************************************)
(* The safety of Updater, for any number of launches and installations:    *)
(* the files on the disk (FileInv), the stop of a transfer (StopInv), the  *)
(* request and its answer (RequestInv), the report of success, and the     *)
(* types.                                                                  *)
(***************************************************************************)
EXTENDS Updater, TLAPS

-----------------------------------------------------------------------------
\* What the proofs need of the types.
Targets == {<<"app", "home">>, <<"app">>, <<"home">>}

FilesType ==
    /\ file \in [Paths -> Content] /\ old \in [Paths -> Content]
    /\ download \in [Paths -> Content]
    /\ targets \in Targets /\ item \in 1 .. Len(targets)

\* The steps that work on a verified download.
Copying == {"copy", "fill"}
Replacing == {"rename", "dropOld", "aside", "place"}

\* What lies on the disk at each step of the replacement.
ReplaceInv ==
    /\ installer \in Copying => item > 1 /\ download[Launched] = "released"
    /\ installer \in Replacing => download[Target] = "released"
    /\ installer \in Replacing \union {"unneeded"} /\ item > 1
          => download[Launched] = "released"
    /\ installer \in {"dropOld", "aside"} => file[Target] # "none"
    /\ installer \in {"place", "rollback"} => file[Target] = "none" /\ old[Target] \in Whole
    /\ installer = "unneeded" => file[Target] = "released"

FileInv == FilesType /\ ReplaceInv /\ Recoverable

\* The paths of a launch are different, and the extra one is item 2.
LEMMA TargetsKnown ==
    ASSUME FilesType
    PROVE  /\ Launched \in Paths /\ Target \in Paths /\ item \in 1 .. 2
           /\ item = 1 => Target = Launched
           /\ item > 1 => Target # Launched
           /\ Len(targets) \in 1 .. 2
  BY SMT DEF FilesType, Targets, Launched, Target, Paths

\* The files of a fresh installation.
LEMMA InitFiles == Init => FileInv
  BY SMT DEF Init, FileInv, FilesType, ReplaceInv, Recoverable, Paths, Content, Whole, Targets,
         Copying, Replacing

\* The steps of the worker, in the order of a run.
Quiet == Copying \union Replacing \union {"unneeded", "rollback"}

\* A step that touches no file and does not enter the replacement.
LEMMA Elsewhere ==
    ASSUME FileInv, UNCHANGED <<diskVars, targets, item>>,
           installer' = installer \/ installer' \notin Quiet
    PROVE  FileInv'
  BY SMT DEF FileInv, FilesType, ReplaceInv, Recoverable, diskVars, Target, Launched, Copying,
         Replacing, Quiet

\* A step that touches downloads only and leaves the replacement.
LEMMA Leaves ==
    ASSUME FileInv, UNCHANGED <<file, old, targets>>, item' \in 1 .. Len(targets),
           download' \in [Paths -> Content], installer' \notin Quiet
    PROVE  FileInv'
  BY SMT DEF FileInv, FilesType, ReplaceInv, Recoverable, Target, Launched, Copying,
         Replacing, Quiet

\* A launch begins with the check, whatever the last one left on the disk.
LEMMA LaunchFiles == ASSUME FileInv, NEW p \in Paths, Launch(p) PROVE FileInv'
  <1>1. targets' \in Targets /\ item' = 1 /\ installer' = "check"
    BY DEF Launch, ProcessStarts, TargetsOf, Paths, Targets
  <1>2. item' \in 1 .. Len(targets')
    BY <1>1, SMT DEF Targets
  <1> QED
    BY <1>1, <1>2, SMT DEF FileInv, FilesType, ReplaceInv, Recoverable, Launch, diskVars, Copying,
       Replacing

\* Removing downloads leaves downloads.
LEMMA RemovedType ==
    ASSUME download \in [Paths -> Content], NEW ps, Removed(ps)
    PROVE  download' \in [Paths -> Content]
  BY SMT DEF Removed, Content

\* What a transfer writes goes to a download.
LEMMA TransferFiles == ASSUME FileInv, Transfer PROVE FileInv'
  <1>1. \/ UNCHANGED download
        \/ \E c \in {"released", "partial"} : download' = [download EXCEPT ![Launched] = c]
    BY DEF Transfer
  <1>2. download' \in [Paths -> Content]
    BY <1>1, SMT DEF FileInv, FilesType, Content, Whole
  <1> QED
    BY <1>2, Leaves, SMT DEF Transfer, Unmoved, FileInv, FilesType, Quiet, Copying, Replacing

\* The download is opened, or removed after it failed.
LEMMA DownloadFiles ==
    ASSUME FileInv, OpenDownload \/ Downloaded
    PROVE  FileInv'
  <1>1. CASE OpenDownload
    <2>1. download' \in [Paths -> Content]
      BY <1>1, SMT DEF OpenDownload, FileInv, FilesType, Content
    <2> QED
      BY <1>1, <2>1, Leaves, SMT DEF OpenDownload, BeginFetch, Ends, Unmoved, FileInv, FilesType,
         Quiet, Copying, Replacing
  <1>2. CASE Downloaded
    <2>1. download' \in [Paths -> Content]
      BY <1>2, RemovedType, SMT DEF Downloaded, FileInv, FilesType
    <2> QED
      BY <1>2, <2>1, Leaves, SMT DEF Downloaded, Ends, Unmoved, FileInv, FilesType,
         Quiet, Copying, Replacing
  <1> QED
    BY <1>1, <1>2

\* A verified download is whole and the first target is the extra one.
LEMMA VerifyFiles == ASSUME FileInv, Verify PROVE FileInv'
  <1>1. CASE DigestMatches /\ UNCHANGED download /\ item' = Len(targets)
             /\ installer' = IF Len(targets) > 1 THEN "copy" ELSE "rename"
    BY <1>1, TargetsKnown, SMT DEF Verify, DigestMatches, Unmoved, FileInv, FilesType, ReplaceInv,
       Recoverable, Target, Launched, Copying, Replacing
  <1>2. CASE Ends("failed") /\ Removed({Launched}) /\ UNCHANGED item
    BY <1>2, RemovedType, Leaves, SMT DEF Verify, Ends, Unmoved, FileInv, FilesType, Quiet,
       Copying,
       Replacing
  <1> QED
    BY <1>1, <1>2 DEF Verify

\* The copy for the extra target is whole before it is used.
LEMMA CopyFiles == ASSUME FileInv, CopyOpen \/ CopyFill PROVE FileInv'
  <1>1. FilesType /\ item > 1 /\ download[Launched] = "released"
    BY SMT DEF FileInv, ReplaceInv, CopyOpen, CopyFill, Worker, Copying
  <1>2. Launched \in Paths /\ Target \in Paths /\ Target # Launched
    BY <1>1, TargetsKnown
  <1>3. CASE CopyOpen
    <2>1. /\ download' = [download EXCEPT ![Target] = "partial"] /\ installer' = "fill"
          /\ UNCHANGED <<file, old, targets, item>>
      BY <1>3 DEF CopyOpen, Unmoved, Target
    <2> QED
      BY <2>1, <1>1, <1>2, SMT DEF FileInv, FilesType, ReplaceInv, Recoverable, Target, Launched,
         Copying, Replacing, Content, Whole
  <1>4. CASE CopyFill /\ installer' = "rename"
    <2>1. /\ download' = [download EXCEPT ![Target] = "released"]
          /\ UNCHANGED <<file, old, targets, item>>
      BY <1>4, <1>1 DEF CopyFill, Unmoved, Target, Ends
    <2> QED
      BY <2>1, <1>4, <1>1, <1>2, SMT DEF FileInv, FilesType, ReplaceInv, Recoverable, Target,
         Launched, Copying, Replacing, Content, Whole
  <1>5. CASE CopyFill /\ installer' = "idle" /\ Removed({Target, Launched})
    BY <1>5, <1>1, RemovedType, Leaves, SMT DEF CopyFill, Unmoved, FileInv, FilesType, Quiet,
       Copying, Replacing
  <1> QED
    BY <1>3, <1>4, <1>5 DEF CopyFill, Ends, Target

\* A replacement step that fails removes the downloads and leaves the files.
LEMMA FailedFiles ==
    ASSUME FileInv, Failed, UNCHANGED <<file, old, targets, item>>
    PROVE  FileInv'
  BY RemovedType, Leaves, SMT DEF Failed, Ends, FileInv, FilesType, Quiet, Copying, Replacing

\* What a step of the replacement finds.
LEMMA ReplaceFacts ==
    ASSUME FileInv, installer \in Replacing \union {"unneeded", "rollback"}
    PROVE  /\ FilesType /\ Launched \in Paths /\ Target \in Paths
           /\ item \in 1 .. 2 /\ Len(targets) \in 1 .. 2
           /\ item = 1 => Target = Launched
           /\ item > 1 => Target # Launched
  BY TargetsKnown DEF FileInv

\* After the file is in its place the next target follows, or the worker idles.
LEMMA ReplacedFiles ==
    ASSUME FilesType, FilesType', Recoverable', Replaced, UNCHANGED targets,
           item > 1 => download'[Launched] = "released",
           installer \in {"rename", "unneeded"}
    PROVE  FileInv'
  <1>1. item \in 1 .. 2 /\ Launched \in Paths
    BY TargetsKnown
  <1>2. CASE item > 1
    <2>1. item' = 1 /\ installer' = "rename" /\ Target' = Launched /\ Launched' = Launched
      BY <1>1, <1>2, SMT DEF Replaced, Target, Launched
    <2> QED
      BY <1>2, <2>1, SMT DEF FileInv, ReplaceInv, Copying, Replacing
  <1>3. CASE ~(item > 1)
    <2>1. installer' = "idle"
      BY <1>3 DEF Replaced, Ends
    <2> QED
      BY <2>1, SMT DEF FileInv, ReplaceInv, Copying, Replacing
  <1> QED
    BY <1>2, <1>3

\* The direct rename, where there is no file in the way.
LEMMA RenameFiles == ASSUME FileInv, Rename PROVE FileInv'
  <1>1. installer = "rename" /\ UNCHANGED <<targets>>
    BY DEF Rename, ReplaceStep, Worker, Unmoved
  <1>2. /\ FilesType /\ Launched \in Paths /\ Target \in Paths /\ item \in 1 .. 2
        /\ item > 1 => Target # Launched
    BY <1>1, ReplaceFacts DEF Replacing
  <1>3. /\ download[Target] = "released"
        /\ item > 1 => download[Launched] = "released"
    BY <1>1, SMT DEF FileInv, ReplaceInv, Replacing
  <1>4. CASE Placed /\ Replaced /\ UNCHANGED old
    <2>1. /\ file' = [file EXCEPT ![Target] = "released"]
          /\ download' = [download EXCEPT ![Target] = "none"]
      BY <1>4, <1>3 DEF Placed
    <2>2. item' \in 1 .. Len(targets)
      BY <1>4, <1>2, SMT DEF Replaced, FilesType
    <2>3. FilesType'
      BY <1>1, <1>2, <1>4, <2>1, <2>2, SMT DEF FilesType, Content, Whole
    <2>4. Recoverable'
      BY <1>2, <1>4, <2>1, SMT DEF Recoverable, FileInv, FilesType, Whole
    <2>5. item > 1 => download'[Launched] = "released"
      BY <1>2, <1>3, <2>1, SMT DEF FilesType
    <2> QED
      BY <1>1, <1>2, <1>4, <2>3, <2>4, <2>5, ReplacedFiles
  <1>5. CASE file[Target] # "none" /\ installer' = "dropOld" /\ UNCHANGED <<diskVars, item,
                update>>
    BY <1>1, <1>3, <1>5, SMT DEF diskVars, FileInv, FilesType, ReplaceInv, Recoverable, Target,
       Launched,
       Copying, Replacing
  <1>6. CASE Failed /\ UNCHANGED <<file, old, item>>
    BY <1>1, <1>6, FailedFiles
  <1> QED
    BY <1>4, <1>5, <1>6 DEF Rename

\* A backup of an earlier replacement is dropped while the file is there.
LEMMA DropOldFiles == ASSUME FileInv, DropOld PROVE FileInv'
  <1>1. installer = "dropOld" /\ UNCHANGED <<targets>>
    BY DEF DropOld, ReplaceStep, Worker, Unmoved
  <1>2. FilesType /\ Target \in Paths
    BY <1>1, ReplaceFacts DEF Replacing
  <1>3. CASE Failed /\ UNCHANGED <<file, old, item>>
    BY <1>1, <1>3, FailedFiles
  <1>4. CASE /\ old' = [old EXCEPT ![Target] = "none"] /\ installer' = "aside"
             /\ UNCHANGED <<file, download, item, update>>
    <2>1. file[Target] # "none"
      BY <1>1, SMT DEF FileInv, ReplaceInv
    <2> QED
      BY <1>1, <1>2, <1>4, <2>1, SMT DEF FileInv, FilesType, ReplaceInv, Recoverable, Target,
         Launched,
         Copying, Replacing, Content, Whole
  <1> QED
    BY <1>3, <1>4 DEF DropOld

\* The file becomes its backup.
LEMMA AsideFiles == ASSUME FileInv, Aside PROVE FileInv'
  <1>1. installer = "aside" /\ UNCHANGED <<targets>>
    BY DEF Aside, ReplaceStep, Worker, Unmoved
  <1>2. FilesType /\ Target \in Paths
    BY <1>1, ReplaceFacts DEF Replacing
  <1>3. CASE Failed /\ UNCHANGED <<file, old, item>>
    BY <1>1, <1>3, FailedFiles
  <1>4. CASE /\ old' = [old EXCEPT ![Target] = file[Target]]
             /\ file' = [file EXCEPT ![Target] = "none"] /\ installer' = "place"
             /\ UNCHANGED <<download, item, update>>
    <2>1. file[Target] \in Whole
      BY <1>1, <1>2, SMT DEF FileInv, ReplaceInv, Recoverable
    <2> QED
      BY <1>1, <1>2, <1>4, <2>1, SMT DEF FileInv, FilesType, ReplaceInv, Recoverable, Target,
         Launched,
         Copying, Replacing, Content, Whole
  <1> QED
    BY <1>3, <1>4 DEF Aside

\* The download becomes the file, or the backup will be taken back.
LEMMA PlaceFiles == ASSUME FileInv, Place PROVE FileInv'
  <1>1. installer = "place" /\ UNCHANGED <<targets, item, old>>
    BY DEF Place, ReplaceStep, Worker, Unmoved
  <1>2. /\ FilesType /\ Launched \in Paths /\ Target \in Paths /\ item \in 1 .. 2
        /\ item > 1 => Target # Launched
    BY <1>1, ReplaceFacts DEF Replacing
  <1>3. CASE Placed /\ installer' = "unneeded"
    <2>1. download[Target] = "released"
      BY <1>1, SMT DEF FileInv, ReplaceInv, Replacing
    <2>2. /\ file' = [file EXCEPT ![Target] = "released"]
          /\ download' = [download EXCEPT ![Target] = "none"]
      BY <1>3, <2>1 DEF Placed
    <2> QED
      BY <1>1, <1>2, <1>3, <2>2, SMT DEF FileInv, FilesType, ReplaceInv, Recoverable, Target,
         Launched, Copying, Replacing, Content, Whole
  <1>4. CASE installer' = "rollback" /\ UNCHANGED <<file, download>>
    BY <1>1, <1>4, SMT DEF FileInv, FilesType, ReplaceInv, Recoverable, Target, Launched,
       Copying, Replacing
  <1> QED
    BY <1>3, <1>4 DEF Place

\* The backup goes when the new file is in its place.
LEMMA UnneededFiles == ASSUME FileInv, Unneeded PROVE FileInv'
  <1>1. /\ installer = "unneeded" /\ UNCHANGED <<targets, file, download>> /\ Replaced
        /\ old' \in {old, [old EXCEPT ![Target] = "none"]}
    BY DEF Unneeded, ReplaceStep, Worker, Unmoved
  <1>2. FilesType /\ Launched \in Paths /\ Target \in Paths /\ item \in 1 .. 2
    BY <1>1, ReplaceFacts
  <1>3. /\ file[Target] = "released"
        /\ item > 1 => download[Launched] = "released"
    BY <1>1, SMT DEF FileInv, ReplaceInv
  <1>4. item' \in 1 .. Len(targets)
    BY <1>1, <1>2, SMT DEF Replaced, FilesType
  <1>5. FilesType'
    BY <1>1, <1>2, <1>4, SMT DEF FilesType, Content
  <1>6. Recoverable'
    BY <1>1, <1>2, <1>3, SMT DEF Recoverable, FileInv, FilesType, Whole
  <1> QED
    BY <1>1, <1>2, <1>3, <1>5, <1>6, ReplacedFiles

\* The backup is taken back, or stays.
LEMMA RollbackFiles == ASSUME FileInv, Rollback PROVE FileInv'
  <1>1. /\ installer = "rollback" /\ UNCHANGED <<targets, item>> /\ Failed
        /\ \/ /\ file' = [file EXCEPT ![Target] = old[Target]]
              /\ old' = [old EXCEPT ![Target] = "none"]
           \/ UNCHANGED <<file, old>>
    BY DEF Rollback, ReplaceStep, Worker, Unmoved
  <1>2. FilesType /\ Target \in Paths
    BY <1>1, ReplaceFacts
  <1>3. old[Target] \in Whole
    BY <1>1, SMT DEF FileInv, ReplaceInv
  <1>4. CASE UNCHANGED <<file, old>>
    BY <1>1, <1>4, FailedFiles
  <1>5. CASE /\ file' = [file EXCEPT ![Target] = old[Target]]
             /\ old' = [old EXCEPT ![Target] = "none"]
    <2>1. FilesType'
      BY <1>1, <1>2, <1>3, <1>5, RemovedType, SMT DEF FilesType, Failed, Content, Whole
    <2>2. Recoverable'
      BY <1>2, <1>3, <1>5, SMT DEF Recoverable, FileInv, FilesType, Whole
    <2>3. installer' = "idle"
      BY <1>1 DEF Failed, Ends
    <2> QED
      BY <2>1, <2>2, <2>3, SMT DEF FileInv, ReplaceInv, Copying, Replacing
  <1> QED
    BY <1>1, <1>4, <1>5

\* The steps that touch no file: the main thread's, the end of the process, and
\* the worker's outside the replacement.
LEMMA QuietFiles ==
    ASSUME FileInv,
           \/ Check \/ PublishToken \/ Admit \/ Resolve \/ EndScope
           \/ Checked \/ Idle \/ Installing \/ Listed
           \/ PollUpdate \/ ConfirmUpdate \/ Dismiss
           \/ RequestStop \/ StopCancel \/ StopSignal \/ Joined \/ Crash
    PROVE  FileInv'
  <1>1. CASE Check \/ PublishToken \/ Admit \/ Resolve \/ EndScope
    BY <1>1, Elsewhere, SMT DEF Check, PublishToken, Admit, Resolve, EndScope, BeginFetch,
       Unmoved,
       diskVars, Quiet, Copying, Replacing
  <1>2. CASE Checked \/ Idle \/ Installing \/ Listed
    BY <1>2, Elsewhere, SMT DEF Checked, Idle, Installing, Listed, Ends, SetStatus, BeginFetch,
       Unmoved, diskVars, Quiet, Copying, Replacing
  <1>3. CASE PollUpdate \/ ConfirmUpdate \/ Dismiss
    BY <1>3, Elsewhere, SMT DEF PollUpdate, ConfirmUpdate, Dismiss, Signalled, diskVars, Quiet,
       Copying, Replacing
  <1>4. CASE RequestStop \/ StopCancel \/ StopSignal \/ Joined \/ Crash
    BY <1>4, Elsewhere, SMT DEF RequestStop, StopCancel, StopSignal, Joined, Crash, Signalled,
       diskVars, Quiet, Copying, Replacing
  <1> QED
    BY <1>1, <1>2, <1>3, <1>4

\* Every step of the program keeps what lies on the disk.
LEMMA StepFiles == FileInv /\ [Next]_updaterVars => FileInv'
  <1> SUFFICES ASSUME FileInv, [Next]_updaterVars PROVE FileInv'
    OBVIOUS
  <1>1. CASE UNCHANGED updaterVars
    BY <1>1, Elsewhere DEF updaterVars
  <1>2. CASE Transfer \/ OpenDownload \/ Downloaded \/ Verify \/ CopyOpen \/ CopyFill
    BY <1>2, TransferFiles, DownloadFiles, VerifyFiles, CopyFiles
  <1>3. CASE Rename \/ DropOld \/ Aside \/ Place \/ Unneeded \/ Rollback
    BY <1>3, RenameFiles, DropOldFiles, AsideFiles, PlaceFiles, UnneededFiles, RollbackFiles
  <1>4. CASE \E p \in Paths : Launch(p)
    BY <1>4, LaunchFiles
  <1>5. CASE \/ Check \/ PublishToken \/ Admit \/ Resolve \/ EndScope
             \/ Checked \/ Idle \/ Installing \/ Listed
             \/ PollUpdate \/ ConfirmUpdate \/ Dismiss
             \/ RequestStop \/ StopCancel \/ StopSignal \/ Joined \/ Crash
    BY <1>5, QuietFiles
  <1> QED
    BY <1>1, <1>2, <1>3, <1>4, <1>5 DEF Next, InstallerStep

\* Whatever step is interrupted by a crash or fails, every installed copy is
\* whole, or its whole predecessor is there as .old (file_replace.c).
THEOREM RecoverableHolds == Spec => []Recoverable
  <1>1. FileInv => Recoverable
    BY DEF FileInv
  <1> QED
    BY InitFiles, StepFiles, <1>1, PTL DEF Spec

-----------------------------------------------------------------------------
\* The two orders of the end of the program and of a transfer: the main thread
\* stores the flag and then reads the token, the worker publishes the token and
\* then reads the flag, so that one of them sees the other.
Stopping == {"cancel", "cancelling", "signal", "joining"}

StopInv ==
    /\ scope.token \in Nat /\ scope = [token |-> scope.token, cancelled |-> scope.cancelled]
    /\ owner \in {"running", "off"} \union Stopping
    /\ owner \in Stopping => updateStop
    /\ installer = "publish" => scope.token > 0
    /\ installer \in {"admit", "resolve"} => dnsHandle = scope.token /\ scope.token > 0
    /\ owner = "cancelling" /\ installer = "resolve" => seen = scope.token
    /\ StopReachesTransfer

\* No stop and no transfer at the start of the program.
LEMMA InitStop == Init => StopInv
  BY SMT DEF Init, StopInv, Stopping, StopReachesTransfer, NoScope

\* The worker never writes what the main thread alone keeps.
LEMMA WorkerUnmoved == ASSUME InstallerStep PROVE UNCHANGED mainVars
  BY SMT DEF InstallerStep, Check, PublishToken, Admit, Resolve, Transfer, EndScope, Checked,
     Idle,
     Installing, Listed, OpenDownload, Downloaded, Verify, CopyOpen, CopyFill, Rename, DropOld,
     Aside, Place, Unneeded, Rollback, ReplaceStep, Unmoved

\* A step of the worker that leaves its scope alone and does not begin to wait.
LEMMA OutsideTransfer ==
    ASSUME StopInv, UNCHANGED <<mainVars, scope>>,
           installer' \notin {"publish", "admit", "resolve"}
    PROVE  StopInv'
  BY SMT DEF StopInv, Stopping, StopReachesTransfer, mainVars

\* A transfer begins with a scope of its own, whose token is not published yet.
LEMMA BeginStop ==
    ASSUME StopInv, UNCHANGED mainVars, NEW what, BeginFetch(what)
    PROVE  StopInv'
  BY SMT DEF StopInv, Stopping, StopReachesTransfer, mainVars, BeginFetch

\* The worker's side: only the steps of a transfer enter it.
LEMMA WorkerStop == ASSUME StopInv, InstallerStep PROVE StopInv'
  <1>1. UNCHANGED mainVars
    BY WorkerUnmoved
  <1>2. CASE Check \/ Installing
    BY <1>1, <1>2, BeginStop DEF Check, Installing
  <1>3. CASE PublishToken
    BY <1>1, <1>3, SMT DEF PublishToken, Worker, StopInv, Stopping, StopReachesTransfer, mainVars
  <1>4. CASE Admit
    BY <1>1, <1>4, SMT DEF Admit, Admitted, Worker, StopInv, Stopping, StopReachesTransfer,
       mainVars, transferVars
  <1>5. CASE Resolve \/ Transfer
    BY <1>1, <1>5, OutsideTransfer, SMT DEF Resolve, Transfer, transferVars
  <1>6. CASE EndScope
    BY <1>1, <1>6, SMT DEF EndScope, StopInv, Stopping, StopReachesTransfer, mainVars
  <1>7. CASE Checked \/ Idle \/ Listed \/ Downloaded \/ Verify \/ CopyOpen \/ CopyFill
    BY <1>1, <1>7, OutsideTransfer, SMT DEF Checked, Idle, Listed, Downloaded, Verify, CopyOpen,
       CopyFill, Ends, transferVars
  <1>8. CASE OpenDownload
    BY <1>1, <1>8, BeginStop, OutsideTransfer, SMT DEF OpenDownload, Ends, transferVars
  <1>9. CASE Rename \/ DropOld \/ Aside \/ Place \/ Unneeded \/ Rollback
    BY <1>1, <1>9, OutsideTransfer, SMT DEF Rename, DropOld, Aside, Place, Unneeded, Rollback,
       ReplaceStep, Replaced, Failed, Ends, transferVars
  <1> QED
    BY <1>2, <1>3, <1>4, <1>5, <1>6, <1>7, <1>8, <1>9 DEF InstallerStep

\* The main thread's side, the crash and the next launch.
LEMMA MainStop ==
    ASSUME StopInv,
           \/ PollUpdate \/ ConfirmUpdate \/ Dismiss
           \/ RequestStop \/ StopCancel \/ StopSignal \/ Joined \/ Crash
           \/ \E p \in Paths : Launch(p)
    PROVE  StopInv'
  <1>1. CASE PollUpdate \/ ConfirmUpdate \/ Dismiss
    BY <1>1, SMT DEF PollUpdate, ConfirmUpdate, Dismiss, Signalled, transferVars, StopInv,
       Stopping, StopReachesTransfer
  <1>2. CASE RequestStop
    BY <1>2, SMT DEF RequestStop, StopStore, StopLoad, transferVars, StopInv, Stopping,
       StopReachesTransfer
  <1>3. CASE StopCancel
    <2>1. /\ owner = "cancelling" /\ owner' = "signal"
          /\ UNCHANGED <<installer, dnsHandle, updateStop>>
          /\ scope' = [scope EXCEPT !.cancelled = @ \/ (seen # 0 /\ scope.token = seen)]
      BY <1>3 DEF StopCancel
    <2>2. /\ scope'.token = scope.token
          /\ scope' = [token |-> scope'.token, cancelled |-> scope'.cancelled]
      BY <2>1, SMT DEF StopInv
    <2>3. ASSUME installer = "resolve" PROVE scope'.cancelled
      <3>1. seen = scope.token /\ scope.token > 0 /\ scope.token \in Nat
        BY <2>1, <2>3, SMT DEF StopInv
      <3>2. seen # 0
        BY <3>1, SMT
      <3>3. scope = [token |-> scope.token, cancelled |-> scope.cancelled]
        BY DEF StopInv
      <3> QED
        BY <2>1, <3>1, <3>2, <3>3, Zenon
    <2> QED
      BY <2>1, <2>2, <2>3, SMT DEF StopInv, Stopping, StopReachesTransfer
  <1>4. CASE StopSignal
    BY <1>4, SMT DEF StopSignal, Signalled, transferVars, StopInv, Stopping,
       StopReachesTransfer
  <1>5. CASE Joined \/ Crash
    BY <1>5, SMT DEF Joined, Crash, transferVars, StopInv, Stopping, StopReachesTransfer
  <1>6. CASE \E p \in Paths : Launch(p)
    BY <1>6, SMT DEF Launch, ProcessStarts, NoScope, StopInv, Stopping, StopReachesTransfer
  <1> QED
    BY <1>1, <1>2, <1>3, <1>4, <1>5, <1>6

\* A transfer never waits in a scope that the end of the program did not cancel,
\* in whatever order the flag, the token and the cancellation meet.
THEOREM StopReachesTransferHolds == Spec => []StopReachesTransfer
  <1>1. StopInv /\ [Next]_updaterVars => StopInv'
    <2> SUFFICES ASSUME StopInv, [Next]_updaterVars PROVE StopInv'
      OBVIOUS
    <2>1. CASE UNCHANGED updaterVars
      BY <2>1, SMT DEF updaterVars, transferVars, mainVars, StopInv, Stopping, StopReachesTransfer
    <2> QED
      BY <2>1, WorkerStop, MainStop DEF Next
  <1>2. StopInv => StopReachesTransfer
    BY DEF StopInv
  <1> QED
    BY InitStop, <1>1, <1>2, PTL DEF Spec

-----------------------------------------------------------------------------
\* The request for an installation and its answer, which cross between the main
\* thread and the worker under the lock.
Transferring == {"publish", "admit", "resolve", "transfer", "end", "answer"}
Loop == {"idle", "waiting", "finished"}
Checking == installer = "check" \/ (installer \in Transferring /\ fetching = "api")
AtWork == installer \notin Loop \union {"took"} /\ ~Checking
AtFiles == installer \notin Loop \union Transferring \union {"check", "took"}
Offered == update.state \in {"available", "failed"} /\ ~update.changed

RequestType ==
    /\ update = [state |-> update.state, changed |-> update.changed]
    /\ update.changed \in BOOLEAN /\ wanted \in BOOLEAN /\ updateStop \in BOOLEAN

\* Where the worker is, by its request and its status.
WorkerInv ==
    /\ Checking => update.state = "checking" /\ ~update.changed /\ ~wanted
    /\ AtFiles => fetching # "api"
    /\ installer = "took" => Offered /\ ~wanted
    /\ AtWork => update.state = "installing" /\ ~wanted
    /\ wanted => Offered /\ installer \in Loop \ {"waiting"}
    /\ update.state = "installed" => installer \in Loop

\* What each page knows of it.
PageInv ==
    /\ page = "closing" => owner # "running"
    /\ owner = "running" => ~updateStop /\ installer # "finished"
    /\ Checking => page \in {"home", "closing"}
    /\ page \in {"offer", "failed"} => ~wanted /\ Offered /\ installer \in Loop
    /\ page \in {"home", "succeeded"} => ~wanted /\ (installer \in Loop \/ Checking)
    /\ page = "home" => update.state \in {"checking", "current", "available"} \/ Offered
    /\ wanted => page \in {"updating", "closing"}
    /\ page = "succeeded" => update.state = "installed"
    /\ update.state = "installing" /\ owner = "running" => installer \notin Loop
    /\ page = "updating" /\ owner = "running" =>
          \/ update.state = "installing" \/ wanted \/ installer = "took"
          \/ update.changed /\ update.state \in {"installed", "failed"}

RequestInv == RequestType /\ WorkerInv /\ PageInv

\* A launch starts with the check on the home page.
LEMMA InitRequest == Init => RequestInv
  <1> SUFFICES ASSUME Init PROVE RequestInv
    OBVIOUS
  <1>1. /\ update = [state |-> "checking", changed |-> FALSE] /\ wanted = FALSE
        /\ installer = "check" /\ page = "home" /\ updateStop = FALSE
    BY DEF Init
  <1>2. RequestType /\ update.state = "checking" /\ ~update.changed
    BY <1>1 DEF RequestType
  <1>3. Checking /\ ~AtWork
    BY <1>1 DEF Checking, AtWork
  <1>4. WorkerInv
    BY <1>1, <1>2, <1>3, SMT DEF WorkerInv, AtFiles
  <1>5. PageInv
    BY <1>1, <1>2, <1>3, SMT DEF PageInv
  <1> QED
    BY <1>2, <1>4, <1>5 DEF RequestInv

\* A step of the worker within its work, or within its check.
LEMMA WithinRequest ==
    ASSUME RequestInv, UNCHANGED <<mainVars, update, wanted>>,
           installer \notin Loop \union {"took"}, installer' \notin Loop \union {"took"},
           Checking' <=> Checking,
           AtFiles' => fetching' # "api"
    PROVE  RequestInv'
  <1>1. /\ installer # "took" /\ installer' # "took"
        /\ installer # "finished" /\ installer' # "finished"
    BY SMT DEF Loop
  <1>2. (AtWork' <=> AtWork) /\ (Offered' <=> Offered)
    BY DEF AtWork, AtFiles, Offered
  <1>3. RequestType'
    BY DEF RequestInv, RequestType, mainVars
  <1>4. WorkerInv'
    BY <1>1, <1>2 DEF RequestInv, WorkerInv
  <1>5. PageInv'
    BY <1>1, <1>2 DEF RequestInv, PageInv, mainVars
  <1> QED
    BY <1>3, <1>4, <1>5 DEF RequestInv

\* The end of the work: the status is published and the worker loops.
LEMMA EndsRequest ==
    ASSUME RequestInv, UNCHANGED <<mainVars, wanted>>, AtWork,
           NEW result \in {"installed", "failed"}, Ends(result)
    PROVE  RequestInv'
  BY SMT DEF RequestInv, RequestType, WorkerInv, PageInv, Checking, AtWork, AtFiles, Offered,
     mainVars,
         Transferring, Loop, Quiet, Copying, Replacing, Ends, SetStatus

\* A step of the worker keeps the request and its pages in step.
LEMMA WorkerRequest == ASSUME RequestInv, InstallerStep PROVE RequestInv'
  <1>1. UNCHANGED mainVars
    BY WorkerUnmoved
  <1>2. CASE Check
    <2>1. installer = "check" /\ installer' = "publish" /\ fetching' = "api"
      BY <1>2 DEF Check, Worker, BeginFetch
    <2> QED
      BY <1>1, <1>2, <2>1, WithinRequest, SMT DEF Check, Checking, AtFiles, Transferring, Loop
  <1>3. CASE PublishToken \/ Admit \/ Resolve \/ Transfer \/ EndScope
    <2>1. /\ installer \in Transferring /\ installer' \in Transferring
          /\ UNCHANGED <<fetching, update, wanted>>
      BY <1>3, SMT DEF PublishToken, Admit, Resolve, Transfer, EndScope, Worker, transferVars,
         Transferring
    <2>2. /\ installer \notin Loop \union {"took"} /\ installer' \notin Loop \union {"took"}
          /\ ~AtFiles'
          /\ installer # "check" /\ installer' # "check"
      BY <2>1, SMT DEF Transferring, Loop, AtFiles
    <2>3. Checking' <=> Checking
      BY <2>1, <2>2 DEF Checking
    <2> QED
      BY <1>1, <2>1, <2>2, <2>3, WithinRequest
  <1>4. CASE Checked
    BY <1>1, <1>4, SMT DEF Checked, Worker, transferVars, mainVars, RequestInv, RequestType,
       WorkerInv, PageInv, Checking, AtWork, AtFiles, Offered, Transferring, Loop, Quiet,
       Copying, Replacing
  <1>5. CASE Idle
    <2>1. /\ UNCHANGED <<mainVars, fetching, update>> /\ installer = "idle"
          /\ \/ updateStop /\ installer' = "finished" /\ UNCHANGED wanted
             \/ wanted /\ installer' = "took" /\ wanted' = FALSE
             \/ ~wanted /\ installer' = "waiting" /\ UNCHANGED wanted
      BY <1>1, <1>5 DEF Idle, Worker, transferVars
    <2>2. RequestType'
      BY <2>1 DEF RequestInv, RequestType, mainVars
    <2>3. WorkerInv'
      BY <2>1, SMT DEF RequestInv, WorkerInv, Checking, AtWork, AtFiles, Offered, Transferring,
         Loop, Quiet,
         Copying, Replacing
    <2>4. PageInv'
      BY <2>1, SMT DEF RequestInv, WorkerInv, PageInv, Checking, Offered, Transferring, Loop,
         mainVars
    <2> QED
      BY <2>2, <2>3, <2>4 DEF RequestInv
  <1>6. CASE Installing
    BY <1>1, <1>6, SMT DEF Installing, BeginFetch, SetStatus, Worker, mainVars, RequestInv,
       RequestType, WorkerInv, PageInv, Checking, AtWork, AtFiles, Offered, Transferring, Loop,
       Quiet,
       Copying, Replacing
  <1>7. CASE Listed \/ OpenDownload \/ Downloaded \/ Verify \/ CopyOpen \/ CopyFill
    <2>1. installer \in {"answer", "open", "verify", "copy", "fill"} /\ fetching # "api"
      BY <1>7, SMT DEF Listed, OpenDownload, Downloaded, Verify, CopyOpen, CopyFill, Worker,
         RequestInv, WorkerInv, AtFiles, Loop, Transferring
    <2>2. AtWork /\ UNCHANGED wanted
      BY <1>7, <2>1, SMT DEF AtWork, AtFiles, Checking, Loop, Transferring, Listed,
         OpenDownload, Downloaded,
         Verify, CopyOpen, CopyFill
    <2>3. CASE Ends("failed")
      BY <1>1, <2>2, <2>3, EndsRequest
    <2>4. CASE /\ UNCHANGED update
               /\ installer' \in {"open", "publish", "verify", "copy", "rename", "fill"}
               /\ fetching' # "api"
      BY <1>1, <2>1, <2>2, <2>4, WithinRequest, SMT DEF Checking, AtFiles, Transferring, Loop,
         Quiet,
         Copying, Replacing
    <2> QED
      BY <1>7, <2>1, <2>3, <2>4, SMT DEF Listed, OpenDownload, Downloaded, Verify, CopyOpen,
         CopyFill, BeginFetch, transferVars
  <1>8. CASE Rename \/ DropOld \/ Aside \/ Place \/ Unneeded \/ Rollback
    <2>1. installer \in {"rename", "dropOld", "aside", "place", "unneeded", "rollback"}
      BY <1>8 DEF Rename, DropOld, Aside, Place, Unneeded, Rollback, ReplaceStep, Worker
    <2>2. UNCHANGED <<wanted, fetching>>
      BY <1>8 DEF Rename, DropOld, Aside, Place, Unneeded, Rollback, ReplaceStep, transferVars
    <2>3. fetching # "api" /\ AtWork
      BY <2>1, SMT DEF RequestInv, WorkerInv, AtWork, AtFiles, Checking, Loop, Transferring,
         Quiet, Copying,
         Replacing
    <2>4. CASE Ends("failed") \/ Ends("installed")
      BY <1>1, <2>2, <2>3, <2>4, EndsRequest
    <2>5. CASE UNCHANGED update /\ installer' \in Quiet
      BY <1>1, <2>1, <2>2, <2>3, <2>5, WithinRequest, SMT DEF Checking, AtFiles, Transferring,
         Loop, Quiet,
         Copying, Replacing
    <2> QED
      BY <1>8, <2>4, <2>5, SMT DEF Rename, DropOld, Aside, Place, Unneeded, Rollback, ReplaceStep,
         Failed, Replaced, Ends, Quiet, Copying, Replacing
  <1> QED
    BY <1>2, <1>3, <1>4, <1>5, <1>6, <1>7, <1>8 DEF InstallerStep

\* The poll takes the status to the page that waits for it.
LEMMA PollRequest == ASSUME RequestInv, PollUpdate PROVE RequestInv'
  <1>1. /\ RequestType /\ WorkerInv /\ PageInv
        /\ update = [state |-> update.state, changed |-> update.changed]
    BY DEF RequestInv, RequestType
  <1>2. /\ owner = "running" /\ update' = [update EXCEPT !.changed = FALSE]
        /\ UNCHANGED <<installer, fetching, wanted, updateStop, owner>>
    BY DEF PollUpdate, transferVars
  <1>3. update' = [state |-> update.state, changed |-> FALSE]
    BY <1>1, <1>2
  <1>4. update'.state = update.state /\ ~update'.changed
    BY <1>3, Zenon
  <1>5. (Checking' <=> Checking) /\ (AtWork' <=> AtWork) /\ (Offered => Offered')
    BY <1>2, <1>4 DEF Checking, AtWork, AtFiles, Offered
  <1>6. RequestType'
    BY <1>1, <1>2, <1>3, <1>4 DEF RequestType
  <1>7. WorkerInv'
    <2>1. /\ installer' = installer /\ fetching' = fetching /\ wanted' = wanted
          /\ update'.state = update.state
      BY <1>2, <1>4
    <2>2. Checking' => update'.state = "checking" /\ ~update'.changed /\ ~wanted'
      BY <1>1, <1>4, <1>5, <2>1 DEF WorkerInv
    <2>3. AtFiles' => fetching' # "api"
      BY <1>1, <2>1 DEF WorkerInv, AtFiles
    <2>4. installer' = "took" => Offered' /\ ~wanted'
      BY <1>1, <1>5, <2>1 DEF WorkerInv
    <2>5. /\ AtWork' => update'.state = "installing" /\ ~wanted'
          /\ wanted' => Offered' /\ installer' \in Loop \ {"waiting"}
          /\ update'.state = "installed" => installer' \in Loop
      BY <1>1, <1>5, <2>1 DEF WorkerInv
    <2> QED
      BY <2>2, <2>3, <2>4, <2>5 DEF WorkerInv
  <1>8. CASE page' = page /\ (page = "updating" => update.state \notin {"installed", "failed"})
    <2>1. page = "updating" => update.state = "installing" \/ wanted \/ installer = "took"
      BY <1>1, <1>2, <1>8 DEF PageInv
    <2> QED
      BY <1>1, <1>2, <1>4, <1>5, <1>6, <1>7, <1>8, <2>1 DEF PageInv, RequestInv
  <1>9. CASE page' = "offer" /\ update.state = "available" /\ page = "home"
    <2>1. ~Checking
      BY <1>1, <1>9, SMT DEF WorkerInv
    <2>2. ~wanted /\ installer \in Loop
      BY <1>1, <1>9, <2>1 DEF PageInv
    <2>3. Offered'
      BY <1>4, <1>9 DEF Offered
    <2>4. installer # "finished"
      BY <1>1, <1>2 DEF PageInv
    <2>5. PageInv'
      BY <1>1, <1>2, <1>4, <1>5, <1>9, <2>1, <2>2, <2>3, <2>4, SMT DEF PageInv
    <2> QED
      BY <1>6, <1>7, <2>5 DEF RequestInv
  <1>10. CASE /\ page = "updating"
              /\ \/ page' = "succeeded" /\ update.state = "installed"
                 \/ page' = "failed" /\ update.state = "failed"
    <2>1. ~Checking
      BY <1>1, <1>10, SMT DEF WorkerInv
    <2>2. update.state # "installing" /\ update.state \in {"installed", "failed"}
      BY <1>10
    <2>3. ~wanted /\ installer # "took"
      BY <1>1, <1>2 DEF WorkerInv, Offered, PollUpdate
    <2>4. ~AtWork
      BY <1>1, <2>2 DEF WorkerInv
    <2>5. installer \in Loop /\ installer # "finished"
      BY <1>1, <1>2, <2>1, <2>3, <2>4 DEF AtWork, PageInv
    <2>6. page' = "failed" => Offered'
      BY <1>4, <1>10, SMT DEF Offered
    <2>7. PageInv'
      BY <1>1, <1>2, <1>4, <1>5, <1>10, <2>1, <2>2, <2>3, <2>5, <2>6, SMT DEF PageInv
    <2> QED
      BY <1>6, <1>7, <2>7 DEF RequestInv
  <1>11. \/ page' = "offer" /\ update.state = "available" /\ page = "home"
         \/ page' = "succeeded" /\ update.state = "installed" /\ page = "updating"
         \/ page' = "failed" /\ update.state = "failed" /\ page = "updating"
         \/ page' = page /\ (page = "updating" => update.state \notin {"installed", "failed"})
    BY SMT DEF PollUpdate
  <1> QED
    BY <1>8, <1>9, <1>10, <1>11

\* The main thread's side, the crash and the next launch.
LEMMA MainRequest ==
    ASSUME RequestInv,
           \/ PollUpdate \/ ConfirmUpdate \/ Dismiss
           \/ RequestStop \/ StopCancel \/ StopSignal \/ Joined \/ Crash
           \/ \E p \in Paths : Launch(p)
    PROVE  RequestInv'
  <1> USE DEF RequestInv, WorkerInv, PageInv, Checking, AtWork, AtFiles, Offered, Transferring,
                Loop, Quiet,
              Copying, Replacing
  <1>1. CASE PollUpdate
    BY <1>1, PollRequest
  <1>2. CASE ConfirmUpdate
    <2>1. RequestType'
      BY <1>2 DEF ConfirmUpdate, RequestType
    <2>2. WorkerInv'
      BY <1>2, SMT DEF ConfirmUpdate, InstallAccepted, Signalled, transferVars
    <2>3. PageInv'
      BY <1>2, SMT DEF ConfirmUpdate, InstallAccepted, Signalled, transferVars
    <2> QED
      BY <2>1, <2>2, <2>3
  <1>3. CASE Dismiss
    <2>1. /\ page \in {"offer", "failed"} /\ page' = "home"
          /\ UNCHANGED <<installer, fetching, update, wanted, updateStop, owner>>
      BY <1>3 DEF Dismiss, transferVars
    <2>2. RequestType' /\ WorkerInv'
      BY <2>1, Zenon DEF RequestType
    <2>3. PageInv'
      BY <2>1, SMT
    <2> QED
      BY <2>2, <2>3
  <1>4. CASE RequestStop \/ StopCancel \/ Joined
    <2>1. /\ UNCHANGED <<installer, fetching, update, wanted>>
          /\ owner' # "running" /\ page' \in {page, "closing"}
      BY <1>4, SMT DEF RequestStop, StopStore, StopLoad, StopCancel, Joined, transferVars
    <2>2. UNCHANGED updateStop \/ updateStop' = TRUE
      BY <1>4 DEF RequestStop, StopStore, StopLoad, StopCancel, Joined
    <2>3. RequestType' /\ WorkerInv'
      BY <2>1, <2>2, Zenon DEF RequestType
    <2>4. PageInv'
      BY <2>1, SMT
    <2> QED
      BY <2>3, <2>4
  <1>5. CASE StopSignal
    <2>1. /\ UNCHANGED <<fetching, update, wanted, page, updateStop>> /\ owner' = "joining"
          /\ installer' = IF installer = "waiting" THEN "idle" ELSE installer
      BY <1>5 DEF StopSignal, Signalled, transferVars
    <2>2. RequestType'
      BY <2>1 DEF RequestType
    <2>3. WorkerInv'
      BY <2>1, SMT
    <2>4. PageInv'
      BY <2>1, SMT
    <2> QED
      BY <2>2, <2>3, <2>4
  <1>6. CASE Crash
    <2>1. /\ UNCHANGED <<fetching, update, wanted, page, updateStop>>
          /\ owner' = "off" /\ installer' = "finished"
      BY <1>6 DEF Crash, transferVars
    <2>2. RequestType'
      BY <2>1 DEF RequestType
    <2>3. WorkerInv'
      BY <2>1, SMT
    <2>4. PageInv'
      BY <2>1, SMT
    <2> QED
      BY <2>2, <2>3, <2>4
  <1>7. CASE \E p \in Paths : Launch(p)
    <2>1. /\ update' = [state |-> "checking", changed |-> FALSE] /\ wanted' = FALSE
          /\ installer' = "check" /\ page' = "home" /\ updateStop' = FALSE
      BY <1>7 DEF Launch, ProcessStarts
    <2>2. RequestType' /\ update'.state = "checking" /\ ~update'.changed
      BY <2>1 DEF RequestType
    <2>3. WorkerInv'
      BY <2>1, <2>2, SMT
    <2>4. PageInv'
      BY <2>1, <2>2, SMT
    <2> QED
      BY <2>2, <2>3, <2>4
  <1> QED
    BY <1>1, <1>2, <1>3, <1>4, <1>5, <1>6, <1>7

\* The request crosses without being lost, whoever steps.
LEMMA StepRequest == RequestInv /\ [Next]_updaterVars => RequestInv'
  <1> SUFFICES ASSUME RequestInv, [Next]_updaterVars PROVE RequestInv'
    OBVIOUS
  <1>1. CASE UNCHANGED updaterVars
    BY <1>1 DEF updaterVars, transferVars, mainVars, RequestInv, RequestType, WorkerInv, PageInv,
       Checking, AtWork, AtFiles, Offered
  <1> QED
    BY <1>1, WorkerRequest, MainRequest DEF Next

\* A confirmed installation is answered: the page without a way back has a
\* request that is not lost, a worker that is at it, or a result to poll.
THEOREM AnswerUnderWayHolds == Spec => []AnswerUnderWay
  <1>1. RequestInv => AnswerUnderWay
    <2> SUFFICES ASSUME RequestInv, page = "updating", owner = "running",
                        installer # "took",
                        ~(update.changed /\ update.state \in {"installed", "failed"})
                 PROVE  \/ wanted /\ installer # "waiting"
                        \/ /\ installer \notin {"check", "idle", "waiting", "finished"}
                           /\ fetching # "api"
      BY DEF AnswerUnderWay
    <2>1. WorkerInv /\ PageInv
      BY DEF RequestInv
    <2>2. CASE wanted
      BY <2>1, <2>2, SMT DEF WorkerInv, Loop
    <2>3. CASE update.state = "installing"
      <3>1. installer \notin Loop /\ ~Checking
        BY <2>1, <2>3, SMT DEF PageInv
      <3>3. CASE installer \in Transferring
        BY <2>3, <3>1, <3>3, SMT DEF Checking, Loop
      <3>4. CASE installer \notin Transferring
        BY <2>1, <3>1, <3>4, SMT DEF WorkerInv, AtFiles, Checking, Loop
      <3> QED
        BY <3>3, <3>4
    <2> QED
      BY <2>1, <2>2, <2>3 DEF PageInv
  <1> QED
    BY InitRequest, StepRequest, <1>1, PTL DEF Spec

-----------------------------------------------------------------------------
\* The report of success: the extra target is done when the launched file's turn
\* comes, and nothing moves a file after the result is published.
Moving == Replacing \union {"unneeded", "rollback"}
Everywhere == \A i \in DOMAIN targets : file[targets[i]] = "released"

SuccessInv ==
    /\ update.state = "installed" => Everywhere
    /\ installer \in Moving /\ item < Len(targets) => file[targets[2]] = "released"

InstallInv == FileInv /\ RequestInv /\ SuccessInv

\* The two forms of a launch's targets, and what is replaced at each item.
LEMMA TargetsByItem ==
    ASSUME FilesType
    PROVE  /\ item \in 1 .. Len(targets) /\ Len(targets) \in 1 .. 2
           /\ DOMAIN targets = 1 .. Len(targets)
           /\ \A i \in DOMAIN targets : targets[i] \in Paths
           /\ Len(targets) = 2 => targets[1] # targets[2]
           /\ item = 1 => Target = targets[1]
           /\ item = 2 => Target = targets[2]
           /\ item > 1 => item = Len(targets)
  <1>1. CASE targets = <<"app", "home">>
    <2>1. Len(targets) = 2 /\ item \in 1 .. 2 /\ DOMAIN targets = 1 .. 2
      BY <1>1, SMT DEF FilesType
    <2>2. targets[1] = "app" /\ targets[2] = "home"
      BY <1>1, SMT
    <2> QED
      BY <2>1, <2>2, SMT DEF Target, Paths
  <1>2. CASE \E p \in Paths : targets = <<p>>
    <2>1. Len(targets) = 1 /\ item = 1 /\ DOMAIN targets = 1 .. 1 /\ targets[1] \in Paths
      BY <1>2, SMT DEF FilesType
    <2> QED
      BY <2>1, SMT DEF Target
  <1> QED
    BY <1>1, <1>2 DEF FilesType, Targets, Paths

\* A step that moves no file and publishes no success.
LEMMA SameSuccess ==
    ASSUME SuccessInv, UNCHANGED <<file, targets>>,
           update'.state = "installed" => update.state = "installed",
           \/ installer' \notin Moving
           \/ installer \in Moving /\ item' = item
           \/ item' = Len(targets)
    PROVE  SuccessInv'
  BY SMT DEF SuccessInv, Everywhere

\* While files move the status is not a success.
LEMMA MovingStatus ==
    ASSUME RequestInv, installer \in Moving
    PROVE  update.state # "installed"
  BY SMT DEF RequestInv, WorkerInv, Moving, Replacing, Loop

\* After the turn of the launched file every target is released.
LEMMA ReplacedSuccess ==
    ASSUME FilesType, RequestInv, SuccessInv, installer \in {"rename", "unneeded"}, Replaced,
           UNCHANGED targets, file' \in [Paths -> Content], file'[Target] = "released",
           \A p \in Paths \ {Target} : file'[p] = file[p]
    PROVE  SuccessInv'
  <1>1. /\ item \in 1 .. Len(targets) /\ Len(targets) \in 1 .. 2
        /\ DOMAIN targets = 1 .. Len(targets)
        /\ \A i \in DOMAIN targets : targets[i] \in Paths
        /\ Len(targets) = 2 => targets[1] # targets[2]
        /\ item = 1 => Target = targets[1]
        /\ item = 2 => Target = targets[2]
    BY TargetsByItem
  <1>2. installer \in Moving /\ update.state # "installed"
    BY MovingStatus DEF Moving, Replacing
  <1>3. CASE item > 1
    <2>1. item' = 1 /\ UNCHANGED update /\ Target = targets[2]
      BY <1>1, <1>3, SMT DEF Replaced
    <2> QED
      BY <1>2, <2>1 DEF SuccessInv
  <1>4. CASE ~(item > 1)
    <2>1. item = 1 /\ Target = targets[1] /\ installer' = "idle"
      BY <1>1, <1>4, SMT DEF Replaced, Ends
    <2>2. Len(targets) = 2 => file[targets[2]] = "released"
      BY <1>1, <1>2, <2>1, SMT DEF SuccessInv
    <2>3. Len(targets) = 2 => file'[targets[2]] = "released"
      BY <1>1, <2>1, <2>2, SMT
    <2>4. Everywhere'
      BY <1>1, <2>1, <2>3, SMT DEF Everywhere
    <2>5. installer' \notin Moving
      BY <2>1 DEF Moving, Replacing
    <2> QED
      BY <2>4, <2>5 DEF SuccessInv
  <1> QED
    BY <1>3, <1>4

\* A step that moves the target's file to another place keeps the other one.
LEMMA MovedSuccess ==
    ASSUME FilesType, RequestInv, SuccessInv, installer \in Moving,
           UNCHANGED <<targets, item>>, update'.state # "installed",
           file' \in [Paths -> Content], \A p \in Paths \ {Target} : file'[p] = file[p]
    PROVE  SuccessInv'
  BY TargetsByItem, SMT DEF SuccessInv

\* The worker outside the replacement moves no file.
LEMMA FetchSuccess ==
    ASSUME FileInv, SuccessInv,
           \/ Check \/ PublishToken \/ Admit \/ Resolve \/ Transfer \/ EndScope
           \/ Checked \/ Idle \/ Installing \/ Listed \/ OpenDownload \/ Downloaded
           \/ Verify \/ CopyOpen \/ CopyFill
    PROVE  SuccessInv'
  <1>1. CASE \/ Check \/ PublishToken \/ Admit \/ Resolve \/ Transfer \/ EndScope
             \/ Checked \/ Idle \/ Installing \/ Listed \/ OpenDownload \/ Downloaded
    <2>1. UNCHANGED <<file, targets>>
      BY <1>1 DEF Check, PublishToken, Admit, Resolve, Transfer, EndScope, Checked, Idle,
         Installing, Listed, OpenDownload, Downloaded, Unmoved, diskVars
    <2>2. installer' \notin Moving
      BY <1>1, SMT DEF Check, PublishToken, Admit, Resolve, Transfer, EndScope, Checked, Idle,
         Installing, Listed, OpenDownload, Downloaded, BeginFetch, Ends, Moving, Replacing
    <2>3. update' = update \/ update'.state # "installed"
      BY <1>1, SMT DEF Check, PublishToken, Admit, Resolve, Transfer, EndScope, Checked, Idle,
         Installing, Listed, OpenDownload, Downloaded, Ends, SetStatus
    <2> QED
      BY <2>1, <2>2, <2>3, SameSuccess
  <1>2. CASE Verify \/ CopyOpen \/ CopyFill
    <2>1. UNCHANGED <<file, targets>>
      BY <1>2 DEF Verify, CopyOpen, CopyFill, Unmoved
    <2>2. update' = update \/ update'.state # "installed"
      BY <1>2, SMT DEF Verify, CopyOpen, CopyFill, Ends, SetStatus
    <2>3. installer' \notin Moving \/ item' = Len(targets)
      <3>1. CASE Verify \/ CopyOpen
        BY <3>1, SMT DEF Verify, CopyOpen, Ends, Moving, Replacing
      <3>2. CASE CopyFill
        <4>1. item > 1 /\ item' = item
          BY <3>2, SMT DEF CopyFill, Worker, FileInv, ReplaceInv, Copying
        <4>2. item = Len(targets)
          BY <4>1, TargetsByItem DEF FileInv
        <4> QED
          BY <2>1, <4>1, <4>2
      <3> QED
        BY <1>2, <3>1, <3>2
    <2> QED
      BY <2>1, <2>2, <2>3, SameSuccess
  <1> QED
    BY <1>1, <1>2

\* The replacement itself.
LEMMA ReplacementSuccess ==
    ASSUME FileInv, FileInv', RequestInv, SuccessInv,
           Rename \/ DropOld \/ Aside \/ Place \/ Unneeded \/ Rollback
    PROVE  SuccessInv'
  <1>1. /\ FilesType /\ file \in [Paths -> Content] /\ file' \in [Paths -> Content]
        /\ Target \in Paths
    BY TargetsKnown DEF FileInv, FilesType
  <1>2. /\ UNCHANGED targets
        /\ installer \in {"rename", "dropOld", "aside", "place", "unneeded", "rollback"}
    BY DEF Rename, DropOld, Aside, Place, Unneeded, Rollback, ReplaceStep, Worker, Unmoved
  <1>3. installer \in Moving /\ update.state # "installed"
    BY <1>2, MovingStatus, SMT DEF Moving, Replacing
  <1>4. CASE Replaced /\ file'[Target] = "released" /\ installer \in {"rename", "unneeded"}
             /\ \A p \in Paths \ {Target} : file'[p] = file[p]
    BY <1>1, <1>2, <1>4, ReplacedSuccess
  <1>5. CASE /\ item' = item /\ \A p \in Paths \ {Target} : file'[p] = file[p]
             /\ update' = update \/ update'.state = "failed"
    BY <1>1, <1>2, <1>3, <1>5, MovedSuccess
  <1>6. CASE Rename
    <2>1. download[Target] = "released"
      BY <1>6, SMT DEF Rename, ReplaceStep, Worker, FileInv, ReplaceInv, Replacing
    <2>2. CASE Placed /\ Replaced
      <3>1. file'[Target] = "released" /\ \A p \in Paths \ {Target} : file'[p] = file[p]
        BY <1>1, <2>1, <2>2, SMT DEF Placed
      <3>2. installer = "rename"
        BY <1>6 DEF Rename, ReplaceStep, Worker
      <3> QED
        BY <1>4, <2>2, <3>1, <3>2
    <2>3. CASE UNCHANGED <<file, item>> /\ (update' = update \/ Failed)
      BY <1>5, <2>3, SMT DEF Failed, Ends, SetStatus
    <2> QED
      BY <1>6, <2>2, <2>3 DEF Rename, diskVars
  <1>7. CASE DropOld
    BY <1>5, <1>7, SMT DEF DropOld, Failed, Ends, SetStatus
  <1>8. CASE Aside \/ Place \/ Rollback
    <2>1. \/ UNCHANGED file
          \/ \E c \in Content : file' = [file EXCEPT ![Target] = c]
      BY <1>1, <1>8, SMT DEF Aside, Place, Rollback, Placed, FileInv, FilesType, Content
    <2>2. \A p \in Paths \ {Target} : file'[p] = file[p]
      BY <1>1, <2>1, SMT
    <2>3. item' = item /\ (update' = update \/ update'.state = "failed")
      BY <1>8, SMT DEF Aside, Place, Rollback, Failed, Ends, SetStatus
    <2> QED
      BY <1>5, <2>2, <2>3
  <1>9. CASE Unneeded
    <2>1. installer = "unneeded" /\ Replaced /\ UNCHANGED file
      BY <1>9 DEF Unneeded, ReplaceStep, Worker
    <2>2. file'[Target] = "released"
      BY <2>1, SMT DEF FileInv, ReplaceInv
    <2> QED
      BY <1>4, <2>1, <2>2
  <1> QED
    BY <1>6, <1>7, <1>8, <1>9

\* The main thread moves no file; a launch begins with the check.
LEMMA MainSuccess ==
    ASSUME RequestInv, SuccessInv,
           \/ PollUpdate \/ ConfirmUpdate \/ Dismiss
           \/ RequestStop \/ StopCancel \/ StopSignal \/ Joined \/ Crash
           \/ \E p \in Paths : Launch(p)
    PROVE  SuccessInv'
  <1>1. CASE \/ PollUpdate \/ ConfirmUpdate \/ Dismiss
             \/ RequestStop \/ StopCancel \/ StopSignal \/ Joined \/ Crash
    <2>1. UNCHANGED <<file, targets, item>>
      BY <1>1 DEF PollUpdate, ConfirmUpdate, Dismiss, RequestStop, StopCancel, StopSignal, Joined,
         Crash, diskVars
    <2>2. UNCHANGED update \/ update' = [update EXCEPT !.changed = FALSE]
      BY <1>1 DEF PollUpdate, ConfirmUpdate, Dismiss, RequestStop, StopCancel, StopSignal, Joined,
         Crash
    <2>3. update'.state = update.state
      <3>1. update = [state |-> update.state, changed |-> update.changed]
        BY DEF RequestInv, RequestType
      <3> QED
        BY <2>2, <3>1, Zenon
    <2>4. installer' = installer \/ installer' \in {"idle", "finished"}
      BY <1>1, SMT DEF PollUpdate, ConfirmUpdate, Dismiss, RequestStop, StopCancel, StopSignal,
         Joined, Crash, Signalled
    <2>5. installer' \notin Moving \/ (installer \in Moving /\ item' = item)
      BY <2>1, <2>4 DEF Moving, Replacing
    <2> QED
      BY <2>1, <2>3, <2>5, SameSuccess
  <1>2. CASE \E p \in Paths : Launch(p)
    <2>1. installer' = "check" /\ update' = [state |-> "checking", changed |-> FALSE]
      BY <1>2 DEF Launch, ProcessStarts
    <2>2. installer' \notin Moving /\ update'.state # "installed"
      BY <2>1, SMT DEF Moving, Replacing
    <2> QED
      BY <2>2 DEF SuccessInv
  <1> QED
    BY <1>1, <1>2

\* The page that reports success tells the truth of every copy that this launch
\* set out to replace, also when earlier attempts had failed half way.
THEOREM SuccessIsEverywhereHolds == Spec => []SuccessIsEverywhere
  <1>1. Init => InstallInv
    <2>1. Init => SuccessInv
      BY SMT DEF Init, SuccessInv, Moving, Replacing
    <2> QED
      BY <2>1, InitFiles, InitRequest DEF InstallInv
  <1>2. InstallInv /\ [Next]_updaterVars => InstallInv'
    <2> SUFFICES ASSUME InstallInv, [Next]_updaterVars PROVE InstallInv'
      OBVIOUS
    <2>1. FileInv /\ RequestInv /\ SuccessInv /\ FileInv' /\ RequestInv'
      BY StepFiles, StepRequest DEF InstallInv
    <2>2. CASE UNCHANGED updaterVars
      <3>1. UNCHANGED <<file, targets, item, installer, update>>
        BY <2>2 DEF updaterVars, diskVars
      <3>2. SuccessInv'
        BY <2>1, <3>1 DEF SuccessInv, Everywhere
      <3> QED
        BY <2>1, <3>2 DEF InstallInv
    <2>3. CASE InstallerStep
      BY <2>1, <2>3, FetchSuccess, ReplacementSuccess DEF InstallerStep, InstallInv
    <2>4. CASE Next /\ ~InstallerStep
      BY <2>1, <2>4, MainSuccess DEF Next, InstallInv
    <2> QED
      BY <2>2, <2>3, <2>4
  <1>3. InstallInv => SuccessIsEverywhere
    BY DEF InstallInv, RequestInv, PageInv, SuccessInv, SuccessIsEverywhere, Everywhere
  <1> QED
    BY <1>1, <1>2, <1>3, PTL DEF Spec
-----------------------------------------------------------------------------
\* The types: those of the files and of the request are known from their
\* invariants, the rest is kept by every step.
InstallerPlaces == {"check", "idle", "waiting", "took", "finished",
           "publish", "admit", "resolve", "transfer", "end", "answer",
           "open", "verify", "copy", "fill",
           "rename", "dropOld", "aside", "place", "unneeded", "rollback"}

PlaceTypes ==
    /\ installer \in InstallerPlaces
    /\ fetching \in {"api", "sums", "nro"} /\ fetched \in BOOLEAN

TransferScope ==
    /\ scope \in [token : Nat, cancelled : BOOLEAN]
    /\ dnsHandle \in {0, scope.token} /\ seen \in Nat

MainTypes ==
    /\ wanted \in BOOLEAN /\ updateStop \in BOOLEAN
    /\ page \in {"home", "offer", "updating", "succeeded", "failed", "closing"}
    /\ owner \in {"running", "cancel", "cancelling", "signal", "joining", "off"}
    /\ launches \in 1 .. MaxRuns /\ installs \in 0 .. MaxInstalls

StatusType ==
    update \in [state : {"checking", "current", "available", "installing", "installed",
                         "failed"}, changed : BOOLEAN]

WorkTypes == PlaceTypes /\ TransferScope /\ MainTypes /\ StatusType

\* The first process.
LEMMA InitWork == Init => WorkTypes
  <1> SUFFICES ASSUME Init PROVE WorkTypes
    OBVIOUS
  <1>1. PlaceTypes
    BY DEF Init, PlaceTypes, InstallerPlaces
  <1>2. TransferScope
    BY SMT DEF Init, TransferScope, NoScope
  <1>3. MainTypes
    <2>1. 1 \in 1 .. MaxRuns /\ 0 \in 0 .. MaxInstalls
      BY UpdaterAssumption, SMT
    <2> QED
      BY <2>1 DEF Init, MainTypes
  <1>4. StatusType
    BY DEF Init, StatusType
  <1> QED
    BY <1>1, <1>2, <1>3, <1>4 DEF WorkTypes

\* The worker goes from place to place.
LEMMA WorkerPlaces == ASSUME PlaceTypes, InstallerStep PROVE PlaceTypes'
  <1>1. CASE Check \/ Installing \/ OpenDownload
    BY <1>1 DEF Check, Installing, OpenDownload, BeginFetch, Ends, transferVars, PlaceTypes,
       InstallerPlaces
  <1>2. CASE PublishToken \/ Admit \/ Resolve \/ Transfer \/ EndScope
    BY <1>2 DEF PublishToken, Admit, Resolve, Transfer, EndScope, transferVars, PlaceTypes,
       InstallerPlaces
  <1>3. CASE Checked \/ Idle \/ Listed \/ Downloaded \/ Verify \/ CopyOpen \/ CopyFill
    BY <1>3 DEF Checked, Idle, Listed, Downloaded, Verify, CopyOpen, CopyFill, Ends, transferVars,
       PlaceTypes, InstallerPlaces
  <1>4. CASE Rename \/ DropOld \/ Aside \/ Place \/ Unneeded \/ Rollback
    BY <1>4 DEF Rename, DropOld, Aside, Place, Unneeded, Rollback, ReplaceStep, Replaced, Failed,
       Ends, transferVars, PlaceTypes, InstallerPlaces
  <1> QED
    BY <1>1, <1>2, <1>3, <1>4 DEF InstallerStep

\* The main thread wakes the worker; the process ends or begins.
LEMMA MainPlaces ==
    ASSUME PlaceTypes,
           \/ PollUpdate \/ ConfirmUpdate \/ Dismiss
           \/ RequestStop \/ StopCancel \/ StopSignal \/ Joined \/ Crash
           \/ \E p \in Paths : Launch(p)
    PROVE  PlaceTypes'
  <1>1. CASE PollUpdate \/ ConfirmUpdate \/ Dismiss
    BY <1>1 DEF PollUpdate, ConfirmUpdate, Dismiss, Signalled, transferVars, PlaceTypes,
       InstallerPlaces
  <1>2. CASE RequestStop \/ StopCancel \/ StopSignal \/ Joined \/ Crash
    BY <1>2 DEF RequestStop, StopCancel, StopSignal, Joined, Crash, Signalled, transferVars,
       PlaceTypes, InstallerPlaces
  <1>3. CASE \E p \in Paths : Launch(p)
    BY <1>3 DEF Launch, ProcessStarts, PlaceTypes, InstallerPlaces
  <1> QED
    BY <1>1, <1>2, <1>3

\* A scope that the worker opens, publishes, or ends.
LEMMA WorkerScopes == ASSUME TransferScope, InstallerStep PROVE TransferScope'
  <1>0. UNCHANGED seen
    BY WorkerUnmoved DEF mainVars
  <1>1. ASSUME NEW what, BeginFetch(what) PROVE TransferScope'
    BY <1>0, <1>1, SMT DEF BeginFetch, TransferScope
  <1>2. CASE UNCHANGED <<scope, dnsHandle>>
    BY <1>0, <1>2 DEF TransferScope
  <1>3. CASE PublishToken
    BY <1>0, <1>3 DEF PublishToken, TransferScope
  <1>4. CASE EndScope
    BY <1>0, <1>4, SMT DEF EndScope, TransferScope
  <1>5. \/ \E what \in {"api", "sums", "nro"} : BeginFetch(what)
        \/ UNCHANGED <<scope, dnsHandle>> \/ PublishToken \/ EndScope
    BY DEF InstallerStep, Check, Admit, Resolve, Transfer, Checked, Idle, Installing, Listed,
       OpenDownload, Downloaded, Verify, CopyOpen, CopyFill, Rename, DropOld, Aside, Place,
       Unneeded, Rollback, ReplaceStep, transferVars
  <1> QED
    BY <1>1, <1>2, <1>3, <1>4, <1>5

\* The main thread reads the token and cancels the scope; a launch has none.
LEMMA MainScopes ==
    ASSUME TransferScope,
           \/ PollUpdate \/ ConfirmUpdate \/ Dismiss
           \/ RequestStop \/ StopCancel \/ StopSignal \/ Joined \/ Crash
           \/ \E p \in Paths : Launch(p)
    PROVE  TransferScope'
  <1>1. CASE PollUpdate \/ ConfirmUpdate \/ Dismiss \/ StopSignal \/ Joined \/ Crash
    BY <1>1 DEF PollUpdate, ConfirmUpdate, Dismiss, StopSignal, Joined, Crash, transferVars,
       TransferScope
  <1>2. CASE RequestStop
    <2>1. UNCHANGED <<scope, dnsHandle>> /\ (seen' = seen \/ seen' = dnsHandle)
      BY <1>2 DEF RequestStop, StopStore, StopLoad, transferVars
    <2>2. dnsHandle \in Nat
      BY SMT DEF TransferScope
    <2> QED
      BY <2>1, <2>2 DEF TransferScope
  <1>3. CASE StopCancel
    <2>1. /\ UNCHANGED <<dnsHandle, seen>>
          /\ scope' = [scope EXCEPT !.cancelled = @ \/ (seen # 0 /\ scope.token = seen)]
      BY <1>3 DEF StopCancel
    <2>2. scope = [token |-> scope.token, cancelled |-> scope.cancelled] /\ scope.token \in Nat
      BY DEF TransferScope
    <2>3. PICK c \in BOOLEAN : scope' = [scope EXCEPT !.cancelled = c]
      BY <2>1, Zenon
    <2>4. scope' = [token |-> scope.token, cancelled |-> c]
      BY <2>2, <2>3, Zenon
    <2>5. scope' \in [token : Nat, cancelled : BOOLEAN] /\ scope'.token = scope.token
      BY <2>2, <2>4, Zenon
    <2> QED
      BY <2>1, <2>5 DEF TransferScope
  <1>4. CASE \E p \in Paths : Launch(p)
    BY <1>4, SMT DEF Launch, ProcessStarts, NoScope, TransferScope
  <1> QED
    BY <1>1, <1>2, <1>3, <1>4

\* The main thread's own variables, within the bounds of the model.
LEMMA StepMain == ASSUME MainTypes, Next PROVE MainTypes'
  <1>1. CASE InstallerStep
    <2>1. UNCHANGED <<page, updateStop, owner, launches, installs>>
      BY <1>1 DEF InstallerStep, Check, PublishToken, Admit, Resolve, Transfer, EndScope, Checked,
         Idle, Installing, Listed, OpenDownload, Downloaded, Verify, CopyOpen, CopyFill, Rename,
         DropOld, Aside, Place, Unneeded, Rollback, ReplaceStep, Unmoved, mainVars
    <2>2. wanted' = wanted \/ wanted' = FALSE
      BY <1>1 DEF InstallerStep, Check, PublishToken, Admit, Resolve, Transfer, EndScope, Checked,
         Idle, Installing, Listed, OpenDownload, Downloaded, Verify, CopyOpen, CopyFill, Rename,
         DropOld, Aside, Place, Unneeded, Rollback, ReplaceStep
    <2> QED
      BY <2>1, <2>2 DEF MainTypes
  <1>2. CASE PollUpdate \/ Dismiss \/ RequestStop \/ StopCancel \/ StopSignal \/ Joined \/ Crash
    <2>1. UNCHANGED <<wanted, launches, installs>>
      BY <1>2 DEF PollUpdate, Dismiss, RequestStop, StopCancel, StopSignal, Joined, Crash
    <2> QED
      BY <1>2, <2>1 DEF PollUpdate, Dismiss, RequestStop, StopStore, StopLoad, StopCancel,
         StopSignal, Joined, Crash, MainTypes
  <1>3. CASE ConfirmUpdate
    <2>1. installs' \in 0 .. MaxInstalls
      BY <1>3, UpdaterAssumption, SMT DEF ConfirmUpdate, MainTypes
    <2> QED
      BY <1>3, <2>1 DEF ConfirmUpdate, MainTypes
  <1>4. CASE \E p \in Paths : Launch(p)
    <2>1. launches' \in 1 .. MaxRuns /\ installs' \in 0 .. MaxInstalls
      BY <1>4, UpdaterAssumption, SMT DEF Launch, ProcessStarts, MainTypes
    <2> QED
      BY <1>4, <2>1 DEF Launch, ProcessStarts, MainTypes
  <1> QED
    BY <1>1, <1>2, <1>3, <1>4 DEF Next

\* The status is set whole, or marked as polled.
LEMMA StepStatus == ASSUME StatusType, Next PROVE StatusType'
  <1>1. CASE InstallerStep
    <2>1. \/ UNCHANGED update
          \/ \E state \in {"current", "available", "installing", "installed", "failed"} :
                SetStatus(state)
      BY <1>1, Zenon DEF InstallerStep, Check, PublishToken, Admit, Resolve, Transfer, EndScope,
         Checked, Idle, Installing, Listed, OpenDownload, Downloaded, Verify, CopyOpen, CopyFill,
         Rename, DropOld, Aside, Place, Unneeded, Rollback, Replaced, Failed, Ends, SetStatus
    <2>2. ASSUME NEW state \in {"current", "available", "installing", "installed", "failed"},
                 SetStatus(state)
          PROVE  StatusType'
      <3>1. update' = [state |-> state, changed |-> TRUE]
        BY <2>2 DEF SetStatus
      <3>2. state \in {"checking", "current", "available", "installing", "installed", "failed"}
        OBVIOUS
      <3> QED
        BY <3>1, <3>2, Zenon DEF StatusType
    <2>3. CASE UNCHANGED update
      BY <2>3 DEF StatusType
    <2> QED
      BY <2>1, <2>2, <2>3
  <1>2. CASE PollUpdate
    BY <1>2 DEF PollUpdate, StatusType
  <1>3. CASE \/ ConfirmUpdate \/ Dismiss \/ RequestStop \/ StopCancel \/ StopSignal
             \/ Joined \/ Crash
    BY <1>3 DEF ConfirmUpdate, Dismiss, RequestStop, StopCancel, StopSignal, Joined, Crash,
       StatusType
  <1>4. CASE \E p \in Paths : Launch(p)
    BY <1>4 DEF Launch, ProcessStarts, StatusType
  <1> QED
    BY <1>1, <1>2, <1>3, <1>4 DEF Next

\* Every step of the program keeps the types that are not those of files.
LEMMA StepWork == WorkTypes /\ [Next]_updaterVars => WorkTypes'
  <1> SUFFICES ASSUME WorkTypes, [Next]_updaterVars PROVE WorkTypes'
    OBVIOUS
  <1>1. CASE UNCHANGED updaterVars
    BY <1>1 DEF updaterVars, transferVars, mainVars, WorkTypes, PlaceTypes, TransferScope,
       MainTypes,
       StatusType
  <1>2. CASE Next
    <2>1. PlaceTypes'
      BY <1>2, WorkerPlaces, MainPlaces DEF Next, WorkTypes
    <2>2. TransferScope'
      BY <1>2, WorkerScopes, MainScopes DEF Next, WorkTypes
    <2>3. MainTypes' /\ StatusType'
      BY <1>2, StepMain, StepStatus DEF WorkTypes
    <2> QED
      BY <2>1, <2>2, <2>3 DEF WorkTypes
  <1> QED
    BY <1>1, <1>2

\* The two together are the types of the model.
LEMMA UpdaterTypes == FileInv /\ WorkTypes => UpdaterTypeOK
  <1>1. FileInv => targets \in {<<"app", "home">>, <<"app">>, <<"home">>}
    BY Zenon DEF FileInv, FilesType, Targets
  <1> QED
    BY <1>1, Zenon DEF FileInv, FilesType, WorkTypes, PlaceTypes, InstallerPlaces, TransferScope,
       MainTypes,
       StatusType, UpdaterTypeOK

\* The updater keeps to its types, for any number of launches and installations.
THEOREM UpdaterTypesHold == Spec => []UpdaterTypeOK
  BY InitFiles, StepFiles, InitWork, StepWork, UpdaterTypes, PTL DEF Spec
=============================================================================

