---------------------------- MODULE StreamSession ----------------------------
(***************************************************************************)
(* One streaming request from the user's button to the destroyed session:  *)
(* the user interface and main loop (application.c, ui_model.c,            *)
(* ui_events.c) on one thread, the runtime worker (runtime.c) on another,  *)
(* and between them one mailbox, one event queue and one facts record,     *)
(* each touched only under the runtime lock.  A step of this specification *)
(* is one lock region with the private work around it.                     *)
(*                                                                         *)
(* External, and modelled from how src/ uses it: the IHS client (answers a *)
(* streaming request), the IHS session (its threads call back), the SNS    *)
(* backend and the renderer (return video resources).  The network test,   *)
(* pairing, END_GAME and the settings commands are other modules' matter.  *)
(***************************************************************************)
EXTENDS Naturals, Sequences

CONSTANTS
    MaxGen,        \* bound on the generations the user may use up
    MaxEpoch,      \* bound on the video epochs of one session
    HostAsksPin,   \* whether the host may answer PINRequired
    Transports     \* the transports a ticket of the host may name

ASSUME BoundsAssumption ==
    /\ MaxGen \in Nat /\ MaxEpoch \in Nat /\ HostAsksPin \in BOOLEAN
    /\ Transports \subseteq {"udp", "sdr"}

VARIABLES
    ui,            \* sl_ui_model: page, generation, streaming, closing
    app,           \* sl_app_lifecycle
    replacement,   \* generation of application.replacement (0: never set)
    mpc,           \* where the main thread is in its loop
    snap,          \* the facts the main thread copied, until it applies them
    out,           \* the closing command it has yet to submit
    pending,       \* sl_runtime.pending / request_pending
    exitRequested, \* sl_runtime.exit_requested
    events,        \* sl_runtime.events
    facts,         \* sl_runtime.facts
    flags,         \* the callback results the worker collects under the lock
    media,         \* the video pipeline: frozen, and what it still holds
    wpc,           \* where the worker is in its loop
    after,         \* where the worker continues after a join or a failure
    wcmd,          \* the command the worker took
    ticket,        \* the transport of the ticket it took
    worker,        \* worker-owned state: active, session, sns ...
    ihs            \* external: client request and session link

mainVars == <<ui, app, replacement, mpc, snap, out>>
sharedVars == <<pending, exitRequested, events, facts, flags, media>>
workerVars == <<wpc, after, wcmd, ticket, worker>>
vars == <<mainVars, sharedVars, workerVars, ihs>>

\* What the owner really holds no longer, whatever the facts say of it.
RequestsReturned == ihs.request = "idle" /\ ticket = "none"
ProtocolReturned == worker.session = 0 /\ worker.sns = "none"
VideoReturned == media.video = {}

Returned ==
    {r \in {"requests", "protocol", "video"} :
        \/ r = "requests" /\ RequestsReturned
        \/ r = "protocol" /\ ProtocolReturned
        \/ r = "video" /\ VideoReturned}

Life == INSTANCE AppLifecycle
    WITH RequestIds <- 0 .. MaxGen, SessionIds <- 0 .. MaxGen,
         Epochs <- 0 .. MaxEpoch, Transitions <- 0 .. 2 * MaxEpoch,
         returned <- Returned

-----------------------------------------------------------------------------
(* Data.                                                                   *)

Pages == {"HOME", "EXIT", "CONNECTING", "PIN", "STREAM", "DISCONNECT",
          "STOPPING", "ERROR", "CLOSING"}
Closers == {"STOP", "CANCEL", "EXIT"}

Command(type, gen) == [type |-> type, gen |-> gen, pin |-> FALSE]
NoCommand == Command("NONE", 0)
Commands == [type : {"NONE", "STREAM"} \union Closers, gen : 0 .. MaxGen, pin : BOOLEAN]

\* sl_runtime_facts, as it stands when the worker accepts STREAM(id).
FactsOf(id) ==
    [request_id |-> id, session_id |-> 0, epoch |-> 0, transition |-> 0,
     paused |-> FALSE, connected |-> FALSE, presented |-> FALSE, failed |-> FALSE,
     requests_closed |-> FALSE, protocol_closed |-> FALSE, video_clean |-> FALSE]

Facts ==
    [request_id : 0 .. MaxGen, session_id : 0 .. MaxGen, epoch : 0 .. MaxEpoch,
     transition : 0 .. 2 * MaxEpoch, paused : BOOLEAN, connected : BOOLEAN,
     presented : BOOLEAN, failed : BOOLEAN, requests_closed : BOOLEAN,
     protocol_closed : BOOLEAN, video_clean : BOOLEAN]

\* What the callbacks leave for the worker: a ticket that may start a session
\* (and the transport it names), the end of the request, the end of the session.
NoFlags == [ready |-> "none", terminal |-> FALSE, finished |-> FALSE]
Flags == [ready : {"none", "udp", "sdr"}, terminal : BOOLEAN, finished : BOOLEAN]

Event(type, gen) == [type |-> type, gen |-> gen]
EventTypes == {"PIN", "FAILURE", "FIRST_FRAME", "STOPPED", "DISCONNECTED", "CLOSED"}

Post(type) == events' = Append(events, Event(type, worker.active.gen))

Init ==
    /\ ui = [page |-> "HOME", generation |-> 0, streaming |-> FALSE, closing |-> FALSE]
    /\ app = Life!LifecycleInit
    /\ replacement = 0
    /\ mpc = "events"
    /\ snap = FactsOf(0)
    /\ out = NoCommand
    /\ pending = NoCommand
    /\ exitRequested = FALSE
    /\ events = <<>>
    /\ facts = FactsOf(0)
    /\ flags = NoFlags
    /\ media = [frozen |-> FALSE, video |-> {}]
    /\ wpc = "loop"
    /\ after = "loop"
    /\ wcmd = NoCommand
    /\ ticket = "none"
    /\ worker = [active |-> NoCommand, session |-> 0, lastSession |-> 0, sns |-> "none",
                 waitingVideo |-> FALSE, firstReported |-> FALSE]
    /\ ihs = [request |-> "idle", link |-> "none"]

-----------------------------------------------------------------------------
(* The user interface.                                                     *)

UiError(u) == [u EXCEPT !.page = "ERROR"]

UiStopped(u, unexpected) ==
    [u EXCEPT !.streaming = FALSE,
              !.page = CASE u.closing -> "CLOSING"
                         [] ~u.closing /\ (u.page = "ERROR" \/ unexpected) -> "ERROR"
                         [] OTHER -> "HOME"]

\* Mutant: no generation fence.
UiEventUnfenced(u, e) ==
    CASE e.type = "CLOSED" -> [u EXCEPT !.closing = TRUE, !.page = "CLOSING"]
      [] e.type = "PIN" -> [u EXCEPT !.page = "PIN"]
      [] e.type = "FAILURE" -> UiError([u EXCEPT !.streaming = FALSE])
      [] e.type = "FIRST_FRAME" ->
             IF u.page = "CONNECTING"
             THEN [u EXCEPT !.page = "STREAM", !.streaming = TRUE] ELSE u
      [] e.type \in {"STOPPED", "DISCONNECTED"} -> UiStopped(u, e.type = "DISCONNECTED")

\* sl_ui_runtime_event: replies of another generation are fenced off.
UiEvent(u, e) ==
    CASE e.type = "CLOSED" -> [u EXCEPT !.closing = TRUE, !.page = "CLOSING"]
      [] e.type # "CLOSED" /\ e.gen # u.generation -> u
      [] e.type = "PIN" /\ e.gen = u.generation -> [u EXCEPT !.page = "PIN"]
      [] e.type = "FAILURE" /\ e.gen = u.generation ->
             UiError([u EXCEPT !.streaming = FALSE])
      [] e.type = "FIRST_FRAME" /\ e.gen = u.generation ->
             IF u.page = "CONNECTING"
             THEN [u EXCEPT !.page = "STREAM", !.streaming = TRUE] ELSE u
      [] e.type = "STOPPED" /\ e.gen = u.generation -> UiStopped(u, FALSE)
      [] e.type = "DISCONNECTED" /\ e.gen = u.generation -> UiStopped(u, TRUE)

\* runtime_events: poll until the queue is empty or the lock is contended.
PollEvent ==
    /\ mpc = "events" /\ events # <<>>
    /\ ui' = UiEvent(ui, Head(events))
    /\ events' = Tail(events)
    /\ UNCHANGED <<app, replacement, mpc, snap, out, pending, exitRequested, facts, flags, media,
                   workerVars, ihs>>

-----------------------------------------------------------------------------
(* The main thread: facts and commands.                                    *)

\* sl_runtime_submit under the lock: a stream request finds the mailbox empty
\* or is refused.
Admits == pending = NoCommand

\* A closing command first freezes the video, outside the runtime lock ...
Close(cmd) ==
    /\ media' = [media EXCEPT !.frozen = TRUE]
    /\ out' = cmd
    /\ UNCHANGED pending

\* Mutant: the submission does not close the video again.
SubmitClosingThawed ==
    /\ mpc \in {"submit", "submitFailed"}
    /\ pending' = out
    /\ out' = NoCommand
    /\ mpc' = CASE mpc = "submitFailed" -> "input"
                [] mpc = "submit" /\ out.type = "EXIT" -> "exiting"
                [] OTHER -> "events"
    /\ UNCHANGED <<ui, app, replacement, snap, exitRequested, events, facts, flags, media,
                   workerVars, ihs>>

\* ... and again when it overwrites the mailbox, because a start under way may
\* have thawed it in between.  EXIT ends the loop in this iteration.
SubmitClosing ==
    /\ mpc \in {"submit", "submitFailed"}
    /\ pending' = out
    /\ media' = [media EXCEPT !.frozen = TRUE]
    /\ out' = NoCommand
    /\ mpc' = CASE mpc = "submitFailed" -> "input"
                [] mpc = "submit" /\ out.type = "EXIT" -> "exiting"
                [] OTHER -> "events"
    /\ UNCHANGED <<ui, app, replacement, snap, exitRequested, events, facts, flags,
                   workerVars, ihs>>

\* sl_runtime_read_facts, after any number of polls; facts of another request
\* are dropped, and the snapshot of this one is stale from here on.
ReadFacts ==
    /\ mpc = "events"
    /\ IF facts.request_id = app.request_id
       THEN snap' = facts /\ mpc' = "apply"
       ELSE mpc' = "input" /\ UNCHANGED snap
    /\ UNCHANGED <<ui, app, replacement, out, sharedVars, workerVars, ihs>>

\* The lock was contended.
SkipFacts ==
    /\ mpc = "events"
    /\ mpc' = "input"
    /\ UNCHANGED <<ui, app, replacement, snap, out, sharedVars, workerVars, ihs>>

\* The calls of lifecycle_facts() up to the cleanup, in its order.
Observed(a, f) ==
    LET created == IF f.session_id # 0
                      /\ Life!SessionCreatedAccepted(a, f.request_id, f.session_id)
                   THEN Life!SessionCreated(a, f.session_id) ELSE a
        failing == IF f.failed /\ Life!Running(created)
                   THEN Life!RequestStop(created) ELSE created
        linked == IF f.connected /\ Life!ConnectedAccepted(failing, f.session_id)
                  THEN Life!Connected(failing) ELSE failing
        video == IF Life!VideoStateAccepted(linked, f.session_id, f.transition, f.epoch, f.paused)
                 THEN Life!VideoState(linked, f.transition, f.epoch, f.paused) ELSE linked
        shown == IF f.presented /\ Life!PresentedAccepted(video, f.session_id, f.epoch)
                 THEN Life!Presented(video) ELSE video
    IN  IF f.requests_closed /\ Life!Running(shown) THEN Life!RequestStop(shown) ELSE shown

\* lifecycle_facts(): a failed owner is stopped, a closed one cleaned up, and
\* the replacement that waited for it is dispatched.
ApplyFacts ==
    LET f == snap
        a == Observed(app, f)
        cleaning == Life!CleanupApplies(a, f.request_id, f.session_id)
        next == IF cleaning
                THEN Life!CleanupNext(a, f.requests_closed, f.protocol_closed, f.video_clean)
                ELSE 0
        failing == f.failed /\ Life!Running(app)
    IN  /\ mpc = "apply"
        /\ mpc' = IF failing THEN "submitFailed" ELSE "input"
        /\ snap' = FactsOf(0)
        /\ app' = IF cleaning
                  THEN Life!Cleanup(a, f.requests_closed, f.protocol_closed, f.video_clean)
                  ELSE a
        /\ CASE failing ->
                    Close(Command("STOP", f.request_id)) /\ UNCHANGED ui
             [] ~failing /\ next # 0 /\ replacement = next /\ Admits ->
                    pending' = Command("STREAM", next) /\ UNCHANGED <<ui, out, media>>
             [] ~failing /\ next # 0 /\ replacement = next /\ ~Admits ->
                    ui' = UiError(ui) /\ UNCHANGED <<pending, out, media>>
             [] OTHER -> UNCHANGED <<ui, pending, out, media>>
        /\ UNCHANGED <<replacement, exitRequested, events, facts, flags, workerVars, ihs>>

\* command() for a stream request: admitted now, or kept behind the owner.
DispatchStart(u, cmd) ==
    LET a == Life!RequestStart(app, cmd.gen)
    IN  \/ /\ ~Life!StartAccepted(app, cmd.gen)
           /\ ui' = UiError(u) /\ mpc' = "events"
           /\ UNCHANGED <<app, replacement, pending, out, media>>
        \/ /\ Life!StartAccepted(app, cmd.gen) /\ a.phase # "STARTING"
           /\ ui' = u /\ app' = a /\ replacement' = cmd.gen /\ mpc' = "submit"
           /\ Close(Command("STOP", cmd.gen))
        \/ /\ Life!StartAccepted(app, cmd.gen) /\ a.phase = "STARTING"
           /\ ui' = (IF Admits THEN u ELSE UiError(u)) /\ app' = a /\ mpc' = "events"
           /\ pending' = IF Admits THEN cmd ELSE pending
           /\ UNCHANGED <<replacement, out, media>>

\* command() for the same stream request again, with the security PIN.
DispatchPin(u, cmd) ==
    /\ IF app.phase = "STARTING" /\ app.request_id = cmd.gen /\ Admits
       THEN ui' = u /\ pending' = cmd
       ELSE ui' = UiError(u) /\ UNCHANGED pending
    /\ mpc' = "events"
    /\ UNCHANGED <<app, replacement, out, media>>

\* command() for STOP, CANCEL and EXIT.
DispatchClose(u, cmd) ==
    /\ app' = IF cmd.type = "EXIT" THEN Life!RequestExit(app) ELSE Life!RequestStop(app)
    /\ ui' = u /\ mpc' = "submit"
    /\ Close(cmd)
    /\ UNCHANGED replacement

\* The rest of the loop around one user action (its command is taken at once).
Acted ==
    /\ mpc = "input"
    /\ UNCHANGED <<snap, exitRequested, events, facts, flags, workerVars, ihs>>

NextGen == ui.generation + 1
Fresh == ui.generation < MaxGen

StartStream ==
    /\ Acted /\ Fresh
    /\ ui.page \in {"HOME", "ERROR"}
    /\ DispatchStart([ui EXCEPT !.generation = NextGen, !.page = "CONNECTING"],
                     Command("STREAM", NextGen))

Back ==
    /\ Acted /\ Fresh
    /\ ui.page \in {"CONNECTING", "PIN", "ERROR"}
    /\ DispatchClose([ui EXCEPT !.generation = NextGen, !.page = "STOPPING"],
                     Command("CANCEL", NextGen))

SubmitPin ==
    /\ Acted
    /\ ui.page = "PIN"
    /\ DispatchPin([ui EXCEPT !.page = "CONNECTING"],
                   [Command("STREAM", ui.generation) EXCEPT !.pin = TRUE])

ConfirmStop ==
    /\ Acted /\ Fresh
    /\ ui.page = "DISCONNECT"
    /\ DispatchClose([ui EXCEPT !.generation = NextGen, !.page = "STOPPING"],
                     Command("STOP", NextGen))

ConfirmExit ==
    /\ Acted /\ Fresh
    /\ ui.page = "EXIT"
    /\ DispatchClose([ui EXCEPT !.generation = NextGen, !.page = "CLOSING", !.closing = TRUE],
                     Command("EXIT", NextGen))

\* Dialogs over HOME and STREAM open and close without a command.
Dialog ==
    /\ Acted /\ mpc' = "events"
    /\ \E move \in {<<"HOME", "EXIT">>, <<"EXIT", "HOME">>,
                    <<"STREAM", "DISCONNECT">>, <<"DISCONNECT", "STREAM">>} :
           ui.page = move[1] /\ ui' = [ui EXCEPT !.page = move[2]]
    /\ UNCHANGED <<app, replacement, pending, out, media>>

NoInput ==
    /\ Acted /\ mpc' = "events"
    /\ UNCHANGED <<ui, app, replacement, pending, out, media>>

\* The window, the applet or the device ends the loop without a command.
Quit ==
    /\ Acted /\ mpc' = "exiting"
    /\ UNCHANGED <<ui, app, replacement, pending, out, media>>

\* The end of sl_application_run: exit in the policy, video frozen ...
BeginExit ==
    /\ mpc = "exiting"
    /\ mpc' = "leaving"
    /\ app' = Life!RequestExit(app)
    /\ media' = [media EXCEPT !.frozen = TRUE]
    /\ UNCHANGED <<ui, replacement, snap, out, pending, exitRequested, events, facts, flags,
                   workerVars, ihs>>

\* Mutant: the exit relies on a command in the mailbox.
RequestExitByCommand ==
    /\ mpc = "leaving"
    /\ mpc' = "waiting"
    /\ media' = [media EXCEPT !.frozen = TRUE]
    /\ UNCHANGED <<ui, app, replacement, snap, out, pending, exitRequested, events, facts, flags,
                   workerVars, ihs>>

\* ... then sl_runtime_request_exit, whose flag no command can overwrite.
RequestExit ==
    /\ mpc = "leaving"
    /\ mpc' = "waiting"
    /\ exitRequested' = TRUE
    /\ media' = [media EXCEPT !.frozen = TRUE]
    /\ UNCHANGED <<ui, app, replacement, snap, out, pending, events, facts, flags, workerVars, ihs>>

\* sl_runtime_finished, then sl_runtime_destroy joins the worker.
Destroy ==
    /\ mpc = "waiting" /\ wpc = "done"
    /\ mpc' = "joined"
    /\ UNCHANGED <<ui, app, replacement, snap, out, sharedVars, workerVars, ihs>>

Input == StartStream \/ Back \/ SubmitPin \/ ConfirmStop \/ ConfirmExit \/ Dialog \/ NoInput
Main == PollEvent \/ ReadFacts \/ SkipFacts \/ ApplyFacts \/ SubmitClosing
        \/ Input \/ Quit \/ BeginExit \/ RequestExit \/ Destroy

-----------------------------------------------------------------------------
(* The runtime worker.                                                     *)

At(pc) == wpc = pc /\ UNCHANGED mainVars

\* The worker's private registers are empty wherever it does not need them.
Goto(pc) == wpc' = pc /\ after' = "loop" /\ wcmd' = NoCommand /\ ticket' = "none"

\* stop_session() up to the join: freeze the video, disconnect the session.
StopThen(continue, cmd) ==
    /\ media' = [media EXCEPT !.frozen = TRUE]
    /\ wpc' = "join" /\ after' = continue /\ wcmd' = cmd /\ ticket' = "none"

FailThen(continue) ==
    wpc' = "fail" /\ after' = continue /\ wcmd' = NoCommand /\ ticket' = "none"

\* Mutant: the wait for the video is over at once.
VideoCleanEarly ==
    /\ At("loop") /\ worker.waitingVideo
    /\ worker' = [worker EXCEPT !.waitingVideo = FALSE]
    /\ facts' = [facts EXCEPT !.video_clean = TRUE]
    /\ UNCHANGED <<pending, exitRequested, events, flags, media, wpc, after, wcmd, ticket, ihs>>

\* worker_main: the head of the loop waits until the video is returned.
VideoClean ==
    /\ At("loop") /\ worker.waitingVideo /\ media.video = {}
    /\ worker' = [worker EXCEPT !.waitingVideo = FALSE]
    /\ facts' = [facts EXCEPT !.video_clean = TRUE]
    /\ UNCHANGED <<pending, exitRequested, events, flags, media, wpc, after, wcmd, ticket, ihs>>

\* IHS answers inside update_control, also while the worker waits for video.
Accepted(transport) ==
    /\ At("loop") /\ ihs.request = "pending"
    /\ worker.session = 0 /\ worker.sns = "none"
    /\ flags' = [flags EXCEPT !.ready = transport]
    /\ UNCHANGED <<pending, exitRequested, events, facts, media, workerVars, ihs>>

Rejected ==
    /\ At("loop") /\ ihs.request = "pending"
    /\ ihs' = [ihs EXCEPT !.request = "idle"]
    /\ flags' = [flags EXCEPT !.terminal = TRUE]
    /\ FailThen("loop")
    /\ UNCHANGED <<pending, exitRequested, events, facts, media, worker>>

PinRequired ==
    /\ At("loop") /\ ihs.request = "pending" /\ HostAsksPin
    /\ ihs' = [ihs EXCEPT !.request = "idle"]
    /\ flags' = [flags EXCEPT !.terminal = TRUE]
    /\ Post("PIN")
    /\ UNCHANGED <<pending, exitRequested, facts, media, workerVars>>

\* fail(): the facts first, then the event, in two lock regions.
Fail ==
    /\ At("fail")
    /\ facts' = IF worker.active.type = "STREAM" THEN [facts EXCEPT !.failed = TRUE] ELSE facts
    /\ wpc' = "failure"
    /\ UNCHANGED <<pending, exitRequested, events, flags, media, after, wcmd, ticket, worker, ihs>>

Failure ==
    /\ At("failure")
    /\ Post("FAILURE")
    /\ IF after = "stop" THEN StopThen("loop", NoCommand) ELSE Goto("loop") /\ UNCHANGED media
    /\ UNCHANGED <<pending, exitRequested, facts, flags, worker, ihs>>

\* Mutant: the client's request is not cancelled.
ExecuteUncancelled(cmd) == UNCHANGED ihs /\ StopThen("start", cmd)

\* execute() cancels the client's request before it stops the session.
Execute(cmd) ==
    /\ ihs' = [ihs EXCEPT !.request = "idle"]
    /\ StopThen("start", cmd)

TakeExit ==
    /\ At("loop") /\ ~worker.waitingVideo /\ exitRequested
    /\ Execute(Command("EXIT", 0))
    /\ UNCHANGED <<pending, exitRequested, events, facts, flags, worker>>

\* One region takes the command and the callback results; what follows from
\* them is private.  A terminal request revokes a ticket not used yet and stops
\* before the command, a command comes before a launch, and a session that
\* ended by itself is stopped and its end reported.
Take ==
    LET revoked == flags.terminal /\ worker.session = 0
        ready == IF flags.terminal \/ worker.session # 0 THEN "none" ELSE flags.ready
    IN  /\ At("loop") /\ ~worker.waitingVideo /\ ~exitRequested
        /\ pending' = NoCommand
        /\ flags' = [flags EXCEPT !.ready = "none", !.terminal = FALSE]
        /\ CASE revoked ->
                    StopThen("command", pending) /\ UNCHANGED ihs
             [] ~revoked /\ pending # NoCommand ->
                    Execute(pending)
             [] ~revoked /\ pending = NoCommand /\ flags.finished /\ worker.session # 0 ->
                    StopThen("ended", NoCommand) /\ UNCHANGED ihs
             [] OTHER ->
                    /\ wpc' = IF ready # "none" THEN "launch" ELSE "serve"
                    /\ ticket' = ready
                    /\ UNCHANGED <<after, wcmd, media, ihs>>
        /\ UNCHANGED <<exitRequested, events, facts, worker>>

TakeCommand ==
    /\ At("command")
    /\ IF wcmd = NoCommand THEN Goto("loop") /\ UNCHANGED <<ihs, media>> ELSE Execute(wcmd)
    /\ UNCHANGED <<pending, exitRequested, events, facts, flags, worker>>

\* Mutant: the end of the stop also claims the video.
ClosedWithVideo(f) ==
    [f EXCEPT !.connected = FALSE, !.requests_closed = TRUE, !.protocol_closed = TRUE,
              !.video_clean = TRUE]

\* The end of stop_session(): threads joined, session and backend destroyed,
\* the request closed for good.
Closed(f) == [f EXCEPT !.connected = FALSE, !.requests_closed = TRUE, !.protocol_closed = TRUE]

Stopped ==
    /\ At("join") /\ "open" \notin media.video
    /\ worker' = [worker EXCEPT !.session = 0, !.sns = "none", !.waitingVideo = TRUE,
                                !.firstReported = FALSE]
    /\ flags' = [flags EXCEPT !.ready = "none", !.finished = FALSE]
    /\ facts' = Closed(facts)
    /\ ihs' = [ihs EXCEPT !.link = "none"]
    /\ wpc' = after
    /\ after' = "loop"
    /\ UNCHANGED <<pending, exitRequested, events, media, wcmd, ticket>>

\* Mutant: a command that finds video outstanding is dropped.
RequeueDropped ==
    /\ At("start") /\ media.video # {}
    /\ Goto("loop")
    /\ UNCHANGED <<pending, exitRequested, events, facts, flags, media, worker, ihs>>

\* execute() after the stop.  With video outstanding the command goes back to
\* the mailbox, unless a newer one is there.
Requeue ==
    /\ At("start") /\ media.video # {}
    /\ pending' = IF pending = NoCommand THEN wcmd ELSE pending
    /\ Goto("loop")
    /\ UNCHANGED <<exitRequested, events, facts, flags, media, worker, ihs>>

StartCommand ==
    /\ At("start") /\ media.video = {}
    /\ worker' = [worker EXCEPT !.waitingVideo = FALSE, !.active = wcmd]
    /\ facts' = IF wcmd.type = "STREAM" THEN FactsOf(wcmd.gen)
                ELSE [facts EXCEPT !.video_clean = TRUE]
    /\ flags' = [flags EXCEPT !.ready = "none", !.terminal = FALSE]
    /\ Goto(CASE wcmd.type = "STREAM" -> "request"
              [] wcmd.type = "EXIT" -> "leave"
              [] OTHER -> "stopped")
    /\ UNCHANGED <<pending, exitRequested, events, media, ihs>>

\* The acknowledgement of STOP and CANCEL.
PostStopped ==
    /\ At("stopped")
    /\ Post("STOPPED")
    /\ Goto("loop")
    /\ UNCHANGED <<pending, exitRequested, facts, flags, media, worker, ihs>>

\* request_stream(): the freeze is lifted under the lock of the mailbox, and
\* only when nothing newer waits there; the client may refuse the request.
RequestStream ==
    /\ At("request")
    /\ media' = IF pending = NoCommand /\ ~exitRequested
                THEN [media EXCEPT !.frozen = FALSE] ELSE media
    /\ \/ ihs' = [ihs EXCEPT !.request = "pending"] /\ Goto("loop")
       \/ FailThen("loop") /\ UNCHANGED ihs
    /\ UNCHANGED <<pending, exitRequested, events, facts, flags, worker>>

RequestRefused ==
    /\ At("request")
    /\ FailThen("loop")
    /\ UNCHANGED <<pending, exitRequested, events, facts, flags, media, worker, ihs>>

\* launch_session(): a session with a fresh identity, published at once.
CreateSession(sns) ==
    /\ worker' = [worker EXCEPT !.session = worker.lastSession + 1,
                                !.lastSession = worker.lastSession + 1, !.sns = sns]
    /\ facts' = [facts EXCEPT !.session_id = worker.lastSession + 1]

\* The ticket is consumed: the client's request is retired before anything is
\* built from it.  An SDR ticket first needs its SNS backend.
Launch ==
    /\ At("launch")
    /\ IF ticket = "udp"
       THEN CreateSession("none") /\ ihs' = [request |-> "idle", link |-> "new"]
       ELSE /\ worker' = [worker EXCEPT !.sns = "waiting"]
            /\ ihs' = [ihs EXCEPT !.request = "idle"]
            /\ UNCHANGED facts
    /\ Goto("serve")
    /\ UNCHANGED <<pending, exitRequested, events, flags, media>>

\* Handoff, session or connect refused: stop, then fail.
LaunchFails ==
    /\ At("launch")
    /\ ihs' = [ihs EXCEPT !.request = "idle"]
    /\ UNCHANGED <<worker, facts>> \/ (ticket = "udp" /\ CreateSession("none"))
    /\ StopThen("fail", NoCommand)
    /\ UNCHANGED <<pending, exitRequested, events, flags>>

\* No backend for the ticket: the request is over as if it had been rejected.
BackendFails ==
    /\ At("launch") /\ ticket = "sdr"
    /\ ihs' = [ihs EXCEPT !.request = "idle"]
    /\ flags' = [flags EXCEPT !.terminal = TRUE]
    /\ FailThen("loop")
    /\ UNCHANGED <<pending, exitRequested, events, facts, media, worker>>

\* A normal end needs the host's explicit stop after a picture; otherwise the
\* user is told of a disconnection.
Ended ==
    /\ At("ended")
    /\ Post("STOPPED") \/ Post("DISCONNECTED")
    /\ Goto("loop")
    /\ UNCHANGED <<pending, exitRequested, facts, flags, media, worker, ihs>>

BackendReady ==
    /\ At("serve") /\ worker.sns = "waiting"
    /\ CreateSession("up")
    /\ ihs' = [ihs EXCEPT !.link = "new"]
    /\ UNCHANGED <<pending, exitRequested, events, flags, media, wpc, after, wcmd, ticket>>

\* SNS failed or closed, before or after its session; or the session did not
\* connect in time.
TransportFails ==
    /\ At("serve")
    /\ worker.sns # "none" \/ (worker.session # 0 /\ ihs.link = "new")
    /\ StopThen("fail", NoCommand)
    /\ UNCHANGED <<pending, exitRequested, events, facts, flags, worker, ihs>>

\* sample(): the renderer has shown a frame of the current epoch.
Sample ==
    /\ At("serve") /\ worker.session # 0 /\ "open" \in media.video
    /\ facts' = [facts EXCEPT !.presented = TRUE]
    /\ worker' = [worker EXCEPT !.firstReported = TRUE]
    /\ IF worker.firstReported THEN UNCHANGED events ELSE Post("FIRST_FRAME")
    /\ UNCHANGED <<pending, exitRequested, flags, media, wpc, after, wcmd, ticket, ihs>>

\* sample(): the renderer failed; the failure is told before the stop.
RenderFails ==
    /\ At("serve") /\ worker.session # 0 /\ media.video # {}
    /\ FailThen("stop")
    /\ UNCHANGED <<sharedVars, worker, ihs>>

Wait ==
    /\ At("serve")
    /\ Goto("loop")
    /\ UNCHANGED <<sharedVars, worker, ihs>>

\* The tail of worker_main: nothing is left when the worker reports its end.
Leave ==
    /\ At("leave") /\ media.video = {}
    /\ media' = [media EXCEPT !.frozen = TRUE]
    /\ flags' = NoFlags
    /\ facts' = [Closed(facts) EXCEPT !.video_clean = TRUE]
    /\ ihs' = [ihs EXCEPT !.request = "idle"]
    /\ Post("CLOSED")
    /\ Goto("done")
    /\ UNCHANGED <<pending, exitRequested, worker>>

Answer == Rejected \/ PinRequired \/ (\E t \in Transports : Accepted(t))

Worker ==
    \/ VideoClean \/ Fail \/ Failure \/ TakeExit \/ Take \/ TakeCommand \/ Stopped
    \/ Requeue \/ StartCommand \/ PostStopped \/ RequestStream \/ RequestRefused
    \/ Launch \/ LaunchFails \/ BackendFails \/ Ended
    \/ BackendReady \/ TransportFails \/ Sample \/ RenderFails \/ Wait \/ Leave
-----------------------------------------------------------------------------
(* The session's own threads and the renderer.                             *)

SessionRuns == worker.session # 0
Called == UNCHANGED <<mainVars, pending, exitRequested, events, workerVars>>

LinkUp ==
    /\ Called /\ SessionRuns /\ ihs.link = "new"
    /\ ihs' = [ihs EXCEPT !.link = "up"]
    /\ facts' = [facts EXCEPT !.connected = TRUE]
    /\ UNCHANGED <<flags, media>>

LinkDown ==
    /\ Called /\ SessionRuns /\ ihs.link \in {"new", "up"}
    /\ ihs' = [ihs EXCEPT !.link = "down"]
    /\ flags' = [flags EXCEPT !.finished = TRUE]
    /\ UNCHANGED <<facts, media>>

\* Mutant: the epoch starts although the pipeline is frozen.
VideoStartFrozen ==
    /\ Called /\ SessionRuns /\ ihs.link = "up"
    /\ "open" \notin media.video /\ facts.epoch < MaxEpoch
    /\ media' = [media EXCEPT !.video = @ \union {"open"}]
    /\ facts' = IF facts.session_id = worker.session
                THEN [facts EXCEPT !.epoch = @ + 1, !.transition = @ + 1,
                                   !.paused = FALSE, !.presented = FALSE]
                ELSE facts
    /\ UNCHANGED <<flags, ihs>>

\* video_start: a frozen pipeline refuses the epoch and reports nothing.
VideoStart ==
    /\ Called /\ SessionRuns /\ ihs.link = "up"
    /\ "open" \notin media.video /\ ~media.frozen /\ facts.epoch < MaxEpoch
    /\ media' = [media EXCEPT !.video = @ \union {"open"}]
    /\ facts' = IF facts.session_id = worker.session
                THEN [facts EXCEPT !.epoch = @ + 1, !.transition = @ + 1,
                                   !.paused = FALSE, !.presented = FALSE]
                ELSE facts
    /\ UNCHANGED <<flags, ihs>>

\* Mutant: a stop is counted again while the epoch drains.
VideoStopTwice ==
    /\ Called /\ SessionRuns /\ media.video # {}
    /\ media' = [media EXCEPT !.video = {"draining"}]
    /\ facts' = IF facts.session_id = worker.session
                THEN [facts EXCEPT !.transition = @ + 1, !.paused = TRUE]
                ELSE facts
    /\ UNCHANGED <<flags, ihs>>

\* video_stop: the epoch is over; its frames may still be on the way back.
VideoStop ==
    /\ Called /\ SessionRuns /\ "open" \in media.video
    /\ media' = [media EXCEPT !.video = {"draining"}]
    /\ facts' = IF facts.session_id = worker.session
                THEN [facts EXCEPT !.transition = @ + 1, !.paused = TRUE]
                ELSE facts
    /\ UNCHANGED <<flags, ihs>>

\* The last lease, mapping and decoder domain of the epoch are returned.
VideoDrained ==
    /\ Called /\ "draining" \in media.video
    /\ media' = [media EXCEPT !.video = @ \ {"draining"}]
    /\ UNCHANGED <<facts, flags, ihs>>

Session == LinkUp \/ LinkDown \/ VideoStart \/ VideoStop \/ VideoDrained

-----------------------------------------------------------------------------
Terminated == mpc = "joined" /\ UNCHANGED vars

Next == Main \/ Worker \/ Answer \/ Session \/ Terminated

Spec == Init /\ [][Next]_vars

\* Both loops keep running; a try-lock that is tried again and again succeeds;
\* IHS joins a disconnected session only after it stopped its video; frames
\* come back (the main thread collects in every loop).  Nothing is assumed of
\* the user, the host or the network.
Fairness ==
    /\ WF_vars(Main) /\ SF_vars(PollEvent) /\ SF_vars(ReadFacts)
    /\ WF_vars(Worker)
    /\ WF_vars((wpc = "join" /\ VideoStop) \/ VideoDrained)

FairSpec == Spec /\ Fairness
-----------------------------------------------------------------------------
(* Properties.                                                             *)

\* Every variable has its type, and the counters keep to their bounds.
TypeOK ==
    /\ ui \in [page : Pages, generation : 0 .. MaxGen, streaming : BOOLEAN, closing : BOOLEAN]
    /\ app \in Life!Lifecycle
    /\ replacement \in 0 .. MaxGen
    /\ mpc \in {"events", "apply", "submitFailed", "input", "submit", "exiting", "leaving",
               "waiting", "joined"}
    /\ out \in Commands
    /\ snap \in Facts /\ facts \in Facts
    /\ pending \in Commands /\ wcmd \in Commands
    /\ exitRequested \in BOOLEAN
    /\ events \in Seq([type : EventTypes, gen : 0 .. MaxGen])
    /\ flags \in Flags /\ ticket \in {"none", "udp", "sdr"}
    /\ media \in [frozen : BOOLEAN, video : SUBSET {"open", "draining"}]
    /\ worker \in [active : Commands, session : 0 .. MaxGen, lastSession : 0 .. MaxGen,
                   sns : {"none", "waiting", "up"}, waitingVideo : BOOLEAN,
                   firstReported : BOOLEAN]
    /\ ihs \in [request : {"idle", "pending"}, link : {"none", "new", "up", "down"}]

\* While the policy says RUNNING for a request the runtime has not accepted
\* yet, nothing of an older request is left: session, backend, ticket and
\* video are gone, although the policy learned of it only through snapshots
\* (docs/VIDEO_RENDERING_DESIGN.md:185).  A resubmitted PIN reuses its id.
OwnerHandover ==
    (Life!Running(app) /\ app.request_id # facts.request_id /\ ~worker.active.pin) =>
        RequestsReturned /\ ProtocolReturned /\ VideoReturned

\* The evidence in the policy is true of the runtime at every moment after it
\* was recorded, which is what AppLifecycle assumes of its caller: a client
\* request, a session, a backend or a frame reported as returned does not
\* reappear while the record still says so.
EvidenceIsTrue == ~worker.active.pin => Life!Evidence \subseteq Returned

\* A start that is already under way never reopens the video of an owner that
\* is being closed, except between the two freezes of one closing command: the
\* thaw and the second freeze share the lock (docs/VIDEO_RENDERING_DESIGN.md:1435).
FrozenWhileClosing ==
    (/\ app.phase \in Life!ClosingPhases /\ ~worker.active.pin
     /\ mpc \notin {"submit", "submitFailed", "leaving"}) => media.frozen

\* Once the runtime published requests_closed for a request, no session is
\* created under that request any more, and the session it named stays named
\* (app_lifecycle.h:27), whichever answer of the client arrives late.
ClosedIsFinal ==
    [][(facts.requests_closed /\ facts'.requests_closed
            /\ facts'.request_id = facts.request_id) =>
          /\ facts'.session_id = facts.session_id
          /\ worker'.session \in {0, worker.session}]_vars

\* The user waits in STOPPING until everything is cleaned up: only then does
\* an acknowledgement open HOME (docs/decisions.md:1680).
HomeAfterCleanup ==
    [][(ui.page = "STOPPING" /\ ui'.page = "HOME") =>
          RequestsReturned /\ ProtocolReturned /\ VideoReturned]_vars

\* The video of a session is no more than VideoLoan says, which VideoPipeline implements:
\* request_stream lifts the freeze only when the epochs of the request before have drained,
\* although the wait for them and the thaw are several regions apart.
Loan == INSTANCE VideoLoan WITH frozen <- media.frozen, lent <- media.video
VideoIsLent == Loan!Spec

\* A stop or a cancel is acknowledged, also when its command had to go back to
\* the mailbox to wait for the video, unless the application ends first.
StopAcknowledged ==
    (ui.page = "STOPPING") ~> (ui.page # "STOPPING" \/ mpc = "joined")

\* However the main loop ends, the worker finishes and is joined.
ExitJoins == (mpc = "exiting") ~> (mpc = "joined")

-----------------------------------------------------------------------------
(* What the documents say and the code does not keep (see the README).     *)

\* "A new start is admitted once the cleanup is done" (docs/decisions.md:1680):
\* a closing owner is always released, also when it was cancelled before a
\* session existed (app_lifecycle.h:39).
OwnerReleased ==
    (app.phase = "STOPPING") ~> (app.phase # "STOPPING")

\* "A submits" on the PIN page (docs/decisions.md:638) hands the PIN to the
\* request that asked for it.
PinIsSubmitted ==
    [][~(mpc = "input" /\ ui.page = "PIN" /\ ui'.page = "ERROR")]_vars

\* "The cleanup ACK remains harmless" (app/tests/test_ui.c:321): while a
\* replacement waits for its owner's cleanup, the acknowledgement of that
\* cleanup leaves the page of the replacement alone.
CleanupAckHarmless ==
    [][(app.pending_request_id # 0 /\ ui.page = "CONNECTING") => ui'.page # "HOME"]_vars
=============================================================================
