------------------------------ MODULE Updater ------------------------------
(***************************************************************************)
(* The update worker (updater.c) with the replacement of files             *)
(* (file_replace.c) it uses, the main thread's side of it (application.c,  *)
(* ui_model.c, ui_events.c) and the file system, which survives a crash of *)
(* the process between any two steps.                                      *)
(*                                                                         *)
(* A step of the worker is one system call on a file, one atomic access,   *)
(* or one critical section of the updater's lock.  A transfer opens a DNS  *)
(* scope, publishes its token, looks at the stop flag and only then waits; *)
(* the main thread stores the stop flag before it reads the token.         *)
(*                                                                         *)
(* Abstracted: a file is whole and of the installed or of the released     *)
(* version, or it is partial; the release listing and the digest decide    *)
(* only whether a download is whole.  External: the server, the file       *)
(* system's errors, and the moment of a crash.                             *)
(***************************************************************************)
EXTENDS Naturals, Sequences

CONSTANTS
    MaxRuns,       \* bound on the launches of the program
    MaxInstalls    \* bound on the confirmed installations of one launch

ASSUME UpdaterAssumption == MaxRuns \in Nat \ {0} /\ MaxInstalls \in Nat

VARIABLES
    file,          \* per path: the NRO itself
    old,           \* per path: <path>.old
    download,      \* per path: <path>.download
    targets,       \* the paths this launch replaces, the launched one first
    installer,     \* where the worker is
    fetching,      \* what its transfer fetches
    fetched,       \* whether the transfer succeeded
    item,          \* the target it replaces, an index of targets
    update,        \* the status under the lock, and whether the UI polled it
    wanted,        \* install_requested
    page,          \* the page of the user interface
    updateStop,    \* the stop flag
    owner,         \* where the main thread is
    seen,          \* the token it read for the cancellation
    scope,         \* the worker's DNS scope: its token, and cancelled
    dnsHandle,     \* dns_handle
    launches, installs

diskVars == <<file, old, download>>
transferVars == <<fetching, fetched, scope, dnsHandle>>
mainVars == <<page, updateStop, owner, seen>>
updaterVars == <<diskVars, targets, installer, transferVars, item, update, wanted, mainVars,
                 launches, installs>>

\* argv[0] of a launch from the file browser, and the copy of the HOME shortcut.
Paths == {"app", "home"}
Whole == {"installed", "released"}
Content == Whole \union {"none", "partial"}

Launched == targets[1]
NoScope == [token |-> 0, cancelled |-> FALSE]

UpdaterTypeOK ==
    /\ file \in [Paths -> Content] /\ old \in [Paths -> Content]
    /\ download \in [Paths -> Content]
    /\ targets \in {<<"app", "home">>, <<"app">>, <<"home">>}
    /\ installer \in {"check", "idle", "waiting", "took", "finished",
                      "publish", "admit", "resolve", "transfer", "end", "answer",
                      "open", "verify", "copy", "fill",
                      "rename", "dropOld", "aside", "place", "unneeded", "rollback"}
    /\ fetching \in {"api", "sums", "nro"} /\ fetched \in BOOLEAN
    /\ item \in 1 .. Len(targets)
    /\ update \in [state : {"checking", "current", "available", "installing", "installed",
                            "failed"}, changed : BOOLEAN]
    /\ wanted \in BOOLEAN /\ updateStop \in BOOLEAN
    /\ page \in {"home", "offer", "updating", "succeeded", "failed", "closing"}
    /\ owner \in {"running", "cancel", "cancelling", "signal", "joining", "off"}
    /\ scope \in [token : Nat, cancelled : BOOLEAN]
    /\ dnsHandle \in {0, scope.token} /\ seen \in Nat
    /\ launches \in 1 .. MaxRuns /\ installs \in 0 .. MaxInstalls

-----------------------------------------------------------------------------
\* The start and the end of the process.

\* The launched file, and the shortcut's copy when it is there (start_updater).
TargetsOf(path) ==
    IF path = "app" /\ file["home"] # "none" THEN <<"app", "home">> ELSE <<path>>

ProcessStarts(path) ==
    /\ targets' = TargetsOf(path)
    /\ installer' = "check" /\ fetching' = "api" /\ fetched' = FALSE /\ item' = 1
    /\ update' = [state |-> "checking", changed |-> FALSE]
    /\ wanted' = FALSE
    /\ page' = "home" /\ updateStop' = FALSE /\ owner' = "running" /\ seen' = 0
    /\ scope' = NoScope /\ dnsHandle' = 0
    /\ installs' = 0

Init ==
    /\ file = [p \in Paths |-> "installed"]
    /\ old = [p \in Paths |-> "none"] /\ download = [p \in Paths |-> "none"]
    /\ targets \in {<<"app", "home">>, <<"home">>}
    /\ installer = "check" /\ fetching = "api" /\ fetched = FALSE /\ item = 1
    /\ update = [state |-> "checking", changed |-> FALSE]
    /\ wanted = FALSE
    /\ page = "home" /\ updateStop = FALSE /\ owner = "running" /\ seen = 0
    /\ scope = NoScope /\ dnsHandle = 0
    /\ launches = 1 /\ installs = 0

\* A crash, a power loss, or hbmenu ending the process: the files stay.
Crash ==
    /\ owner # "off"
    /\ owner' = "off" /\ installer' = "finished"
    /\ UNCHANGED <<diskVars, targets, transferVars, item, update, wanted, page, updateStop,
                   seen, launches, installs>>

\* The main loop ends only after the worker has (application.c:493), and destroy
\* joins it.
Joined ==
    /\ owner = "joining" /\ installer = "finished"
    /\ owner' = "off"
    /\ UNCHANGED <<diskVars, targets, installer, transferVars, item, update, wanted, page,
                   updateStop, seen, launches, installs>>

\* Any copy that is whole can be launched.
Launch(path) ==
    /\ owner = "off" /\ launches < MaxRuns /\ file[path] \in Whole
    /\ ProcessStarts(path)
    /\ launches' = launches + 1
    /\ UNCHANGED diskVars

-----------------------------------------------------------------------------
\* The main thread.

PollUpdate ==
    /\ owner = "running" /\ update.changed
    /\ update' = [update EXCEPT !.changed = FALSE]
    /\ page' = CASE update.state = "available" /\ page = "home" -> "offer"
                 [] update.state = "installed" /\ page = "updating" -> "succeeded"
                 [] update.state = "failed" /\ page = "updating" -> "failed"
                 [] OTHER -> page
    /\ UNCHANGED <<diskVars, targets, installer, transferVars, item, wanted, updateStop, owner,
                   seen, launches, installs>>

\* As if the request were stored without the signal.
Unsignalled == installer

\* The worker after a signal.
Signalled == IF installer = "waiting" THEN "idle" ELSE installer

InstallAccepted == update.state \in {"available", "failed"}

ConfirmUpdate ==
    /\ owner = "running" /\ page \in {"offer", "failed"} /\ installs < MaxInstalls
    /\ IF InstallAccepted
       THEN /\ page' = "updating" /\ wanted' = TRUE
            /\ installer' = Signalled
       ELSE page' = "failed" /\ UNCHANGED <<wanted, installer>>
    /\ installs' = installs + 1
    /\ UNCHANGED <<diskVars, targets, transferVars, item, update, updateStop, owner, seen,
                   launches>>

Dismiss ==
    /\ owner = "running" /\ page \in {"offer", "failed"} /\ page' = "home"
    /\ UNCHANGED <<diskVars, targets, installer, transferVars, item, update, wanted, updateStop,
                   owner, seen, launches, installs>>

\* sl_updater_request_stop: the flag, the token, its cancellation, the signal.
StopStore ==
    /\ owner = "running" /\ owner' = "cancel" /\ page' = "closing" /\ updateStop' = TRUE
    /\ UNCHANGED seen

StopLoad ==
    /\ owner = "cancel" /\ owner' = "cancelling" /\ seen' = dnsHandle
    /\ UNCHANGED <<page, updateStop>>

RequestStop ==
    /\ StopStore \/ StopLoad
    /\ UNCHANGED <<diskVars, targets, installer, transferVars, item, update, wanted, launches,
                   installs>>

\* Only a scope that still carries this token is cancelled (dns_policy.c:163).
StopCancel ==
    /\ owner = "cancelling" /\ owner' = "signal"
    /\ scope' = [scope EXCEPT !.cancelled = @ \/ (seen # 0 /\ scope.token = seen)]
    /\ UNCHANGED <<diskVars, targets, installer, fetching, fetched, dnsHandle, item, update,
                   wanted, page, updateStop, seen, launches, installs>>

StopSignal ==
    /\ owner = "signal" /\ owner' = "joining"
    /\ installer' = Signalled
    /\ UNCHANGED <<diskVars, targets, transferVars, item, update, wanted, page, updateStop, seen,
                   launches, installs>>

-----------------------------------------------------------------------------
\* The worker.  Work(now, next) is one step of it that changes neither the
\* process nor the main thread's side.

Worker(now) == installer = now /\ owner # "off"
Unmoved == UNCHANGED <<targets, mainVars, launches, installs>>

\* check() begins with the listing of the latest release.
BeginFetch(what) ==
    /\ fetching' = what /\ fetched' = FALSE
    /\ scope' = [token |-> scope.token + 1, cancelled |-> FALSE]
    /\ dnsHandle' = 0
    /\ installer' = "publish"

Check ==
    /\ Worker("check") /\ BeginFetch("api")
    /\ Unmoved /\ UNCHANGED <<diskVars, item, update, wanted>>

\* The transfer: publish the token, look at the stop flag, resolve, transfer.
PublishToken ==
    /\ Worker("publish") /\ installer' = "admit" /\ dnsHandle' = scope.token
    /\ Unmoved /\ UNCHANGED <<diskVars, fetching, fetched, scope, item, update, wanted>>

\* As if a transfer did not look at the flag after its token is published.
AlwaysAdmitted == TRUE

Admitted == ~updateStop

Admit ==
    /\ Worker("admit") /\ installer' = IF Admitted THEN "resolve" ELSE "end"
    /\ Unmoved /\ UNCHANGED <<diskVars, transferVars, item, update, wanted>>

\* Resolving ends with an answer, at its deadline, or by the cancelled scope.
Resolve ==
    /\ Worker("resolve")
    /\ installer' \in IF scope.cancelled THEN {"end"} ELSE {"transfer", "end"}
    /\ Unmoved /\ UNCHANGED <<diskVars, transferVars, item, update, wanted>>

\* The callbacks of the transfer look at the stop flag; what arrived may be short
\* or damaged although the transfer succeeded.
Transfer ==
    /\ Worker("transfer") /\ installer' = "end"
    /\ \/ ~updateStop /\ fetched' = TRUE
          /\ IF fetching = "nro"
             THEN \E c \in {"released", "partial"} : download' = [download EXCEPT ![Launched] = c]
             ELSE UNCHANGED download
       \/ UNCHANGED <<fetched, download>>
    /\ Unmoved
    /\ UNCHANGED <<file, old, fetching, scope, dnsHandle, item, update, wanted>>

EndScope ==
    /\ Worker("end") /\ installer' = "answer"
    /\ dnsHandle' = 0 /\ scope' = [token |-> scope.token, cancelled |-> FALSE]
    /\ fetched' = (fetched /\ ~updateStop)
    /\ Unmoved /\ UNCHANGED <<diskVars, fetching, item, update, wanted>>

\* check() publishes its result under the lock; an unusable listing is no update.
Checked ==
    /\ Worker("answer") /\ fetching = "api" /\ installer' = "idle"
    /\ \E found \in BOOLEAN :
          /\ found => fetched /\ file[Launched] = "installed"
          /\ update' = [state |-> IF found THEN "available" ELSE "current", changed |-> TRUE]
    /\ Unmoved /\ UNCHANGED <<diskVars, transferVars, item, wanted>>

\* The loop: stop first, then a request, else wait for the signal.
Idle ==
    /\ Worker("idle")
    /\ \/ updateStop /\ installer' = "finished" /\ UNCHANGED wanted
       \/ ~updateStop /\ wanted /\ installer' = "took" /\ wanted' = FALSE
       \/ ~updateStop /\ ~wanted /\ installer' = "waiting" /\ UNCHANGED wanted
    /\ Unmoved /\ UNCHANGED <<diskVars, transferVars, item, update>>

SetStatus(state) == update' = [state |-> state, changed |-> TRUE]

Installing ==
    /\ Worker("took") /\ SetStatus("installing") /\ BeginFetch("sums")
    /\ Unmoved /\ UNCHANGED <<diskVars, item, wanted>>

\* The end of install(): the result is published, the worker loops.
Ends(state) == installer' = "idle" /\ SetStatus(state)

Listed ==
    /\ Worker("answer") /\ fetching = "sums"
    /\ \/ fetched /\ installer' = "open" /\ UNCHANGED update
       \/ Ends("failed")
    /\ Unmoved /\ UNCHANGED <<diskVars, transferVars, item, wanted>>

OpenDownload ==
    /\ Worker("open")
    /\ \/ /\ BeginFetch("nro") /\ download' = [download EXCEPT ![Launched] = "partial"]
          /\ UNCHANGED update
       \/ Ends("failed") /\ UNCHANGED <<download, transferVars>>
    /\ Unmoved /\ UNCHANGED <<file, old, item, wanted>>

Removed(paths) == download' = [p \in Paths |-> IF p \in paths THEN "none" ELSE download[p]]

Downloaded ==
    /\ Worker("answer") /\ fetching = "nro"
    /\ \/ fetched /\ installer' = "verify" /\ UNCHANGED <<download, update>>
       \/ Ends("failed") /\ Removed({Launched})
    /\ Unmoved /\ UNCHANGED <<file, old, transferVars, item, wanted>>

\* Size and SHA-256 of what is on the disk.
DigestMatches == download[Launched] = "released"

\* The extra target is replaced first, the launched file last.
Verify ==
    /\ Worker("verify")
    /\ \/ /\ DigestMatches /\ UNCHANGED <<download, update>>
          /\ item' = Len(targets)
          /\ installer' = IF Len(targets) > 1 THEN "copy" ELSE "rename"
       \/ Ends("failed") /\ Removed({Launched}) /\ UNCHANGED item
    /\ Unmoved /\ UNCHANGED <<file, old, transferVars, wanted>>

\* copy_file creates the copy and fills it; a crash leaves it partial.
CopyOpen ==
    /\ Worker("copy") /\ installer' = "fill"
    /\ download' = [download EXCEPT ![targets[item]] = "partial"]
    /\ Unmoved /\ UNCHANGED <<file, old, transferVars, item, update, wanted>>

CopyFill ==
    /\ Worker("fill")
    /\ \/ /\ download' = [download EXCEPT ![targets[item]] = download[Launched]]
          /\ installer' = "rename" /\ UNCHANGED update
       \/ Ends("failed") /\ Removed({targets[item], Launched})
    /\ Unmoved /\ UNCHANGED <<file, old, transferVars, item, wanted>>

-----------------------------------------------------------------------------
\* sl_file_replace(download[target], target), call by call.

Target == targets[item]
Failed == Ends("failed") /\ Removed({Target, Launched})

\* As if the first replacement completed the installation.
FirstReplaced == Ends("installed") /\ UNCHANGED item

\* After the extra target comes the launched one; then install() has succeeded.
Replaced ==
    IF item > 1 THEN installer' = "rename" /\ item' = item - 1 /\ UNCHANGED update
                ELSE Ends("installed") /\ UNCHANGED item

Placed ==
    /\ file' = [file EXCEPT ![Target] = download[Target]]
    /\ download' = [download EXCEPT ![Target] = "none"]

ReplaceStep(now) == Worker(now) /\ Unmoved /\ UNCHANGED <<transferVars, wanted>>

\* Horizon's rename does not overwrite: EEXIST leads to the long way.
Rename ==
    /\ ReplaceStep("rename")
    /\ \/ file[Target] = "none" /\ Placed /\ Replaced /\ UNCHANGED old
       \/ file[Target] # "none" /\ installer' = "dropOld"
          /\ UNCHANGED <<diskVars, item, update>>
       \/ Failed /\ UNCHANGED <<file, old, item>>

DropOld ==
    /\ ReplaceStep("dropOld")
    /\ \/ /\ old' = [old EXCEPT ![Target] = "none"] /\ installer' = "aside"
          /\ UNCHANGED <<file, download, item, update>>
       \/ Failed /\ UNCHANGED <<file, old, item>>

\* As if the target were removed to make room for the new file.
Removes ==
    /\ ReplaceStep("aside") /\ installer' = "place"
    /\ file' = [file EXCEPT ![Target] = "none"]
    /\ UNCHANGED <<old, download, item, update>>

Aside ==
    /\ ReplaceStep("aside")
    /\ \/ /\ old' = [old EXCEPT ![Target] = file[Target]]
          /\ file' = [file EXCEPT ![Target] = "none"] /\ installer' = "place"
          /\ UNCHANGED <<download, item, update>>
       \/ Failed /\ UNCHANGED <<file, old, item>>

Place ==
    /\ ReplaceStep("place") /\ UNCHANGED <<item, update, old>>
    /\ \/ Placed /\ installer' = "unneeded"
       \/ installer' = "rollback" /\ UNCHANGED <<file, download>>

\* The removal of the backup may fail without consequence.
Unneeded ==
    /\ ReplaceStep("unneeded")
    /\ old' \in {old, [old EXCEPT ![Target] = "none"]}
    /\ Replaced /\ UNCHANGED <<file, download>>

\* So may the rollback: then .old is the only copy.
Rollback ==
    /\ ReplaceStep("rollback") /\ Failed /\ UNCHANGED item
    /\ \/ /\ file' = [file EXCEPT ![Target] = old[Target]]
          /\ old' = [old EXCEPT ![Target] = "none"]
       \/ UNCHANGED <<file, old>>

-----------------------------------------------------------------------------
InstallerStep ==
    \/ Check \/ PublishToken \/ Admit \/ Resolve \/ Transfer \/ EndScope
    \/ Checked \/ Idle \/ Installing \/ Listed \/ OpenDownload \/ Downloaded
    \/ Verify \/ CopyOpen \/ CopyFill
    \/ Rename \/ DropOld \/ Aside \/ Place \/ Unneeded \/ Rollback

Next ==
    \/ InstallerStep
    \/ PollUpdate \/ ConfirmUpdate \/ Dismiss
    \/ RequestStop \/ StopCancel \/ StopSignal \/ Joined
    \/ Crash \/ \E p \in Paths : Launch(p)

Spec == Init /\ [][Next]_updaterVars

-----------------------------------------------------------------------------
\* Whatever step is interrupted or fails, every installed copy is whole, or its
\* whole predecessor is still there as .old: a user is never left with a damaged
\* program or with none (docs/decisions.md:2187, file_replace.c:30).
Recoverable ==
    \A p \in Paths : \/ file[p] \in Whole
                     \/ file[p] = "none" /\ old[p] \in Whole

\* Once request_stop has returned from the cancellation, no transfer waits in a
\* DNS scope that it did not cancel: either the worker saw the flag or the main
\* thread saw the token (updater.c:129-130 against 377-378).
StopReachesTransfer ==
    owner \in {"signal", "joining"} /\ installer = "resolve" => scope.cancelled

\* The page that reports success tells the truth of every copy that this launch
\* set out to replace, also when earlier attempts had failed half way.
SuccessIsEverywhere ==
    page = "succeeded" => \A i \in DOMAIN targets : file[targets[i]] = "released"

\* The page without a way back (UPDATING) waits for an answer that is under way:
\* the request is not lost between the two threads, the worker is at it, or its
\* result waits for the poll.
AnswerUnderWay ==
    page = "updating" /\ owner = "running" =>
        \/ wanted /\ installer # "waiting"
        \/ installer \notin {"check", "idle", "waiting", "finished"} /\ fetching # "api"
        \/ installer = "took"
        \/ update.changed /\ update.state \in {"installed", "failed"}
=============================================================================
