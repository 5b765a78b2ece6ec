------------------------- MODULE StreamSession_steps -------------------------
(***************************************************************************)
(* The inductive invariant of StreamSession, and what its proof needs of   *)
(* the steps: the policy operators as the main thread chains them, the     *)
(* actions split where a step branches (so that a branch says outright     *)
(* what it changes), and the types of every variable.  That the invariant  *)
(* is preserved, and what it implies, is in StreamSession_proofs.          *)
(***************************************************************************)
EXTENDS StreamSession, TLAPS

-----------------------------------------------------------------------------
(* The inductive invariant, part by part.                                  *)

\* The policy record alone: an owner has a request and owes every fact while
\* it runs, a free device is clean, and an intent waits behind an older owner.
PolicyInv ==
    /\ app.phase # "DEVICE_FAILED"
    /\ Life!Running(app) => /\ app.request_id # 0
                            /\ ~app.requests_closed /\ ~app.protocol_closed
                            /\ ~app.video_clean
    /\ app.phase = "IDLE" => app.request_id = 0
    /\ app.phase = "STOPPING" => app.request_id # 0
    /\ app.request_id = 0 => Life!Cleaned(app)
    /\ app.exit_requested <=> app.phase = "EXITING"
    /\ app.pending_request_id # 0 => /\ app.phase = "STOPPING"
                                     /\ app.pending_request_id = app.last_request_id
                                     /\ app.request_id < app.pending_request_id
    /\ app.request_id <= app.last_request_id
    /\ app.last_request_id <= ui.generation

\* A client request, a ticket, a backend or a session belongs to the stream
\* command that is active, and the facts of its request are not closed yet.
Busy ==
    \/ wpc = "request" \/ ihs.request = "pending" \/ flags.ready # "none"
    \/ ticket # "none" \/ worker.session # 0 \/ worker.sns # "none"

LiveRequest ==
    Busy => /\ worker.active.type = "STREAM" /\ worker.active.gen = facts.request_id
            /\ facts.request_id # 0 /\ ~facts.requests_closed

\* Before the launch there is no session and no backend.
BeforeLaunch ==
    (\/ wpc = "request" \/ ihs.request = "pending" \/ flags.ready # "none"
     \/ ticket # "none") => worker.session = 0 /\ worker.sns = "none"

\* Where the client's request is known to be over, and no answer is left.
IdleClient ==
    /\ flags.terminal => ihs.request = "idle"
    /\ wpc \in {"request", "join", "command", "start", "stopped", "leave", "ended", "fail",
               "failure", "done"} => ihs.request = "idle"
    /\ wpc = "request" => ~flags.terminal
    /\ wpc \in {"request", "launch"} => flags.ready = "none"

\* Where the worker's private registers are in use.
Registers ==
    /\ wpc = "launch" <=> ticket # "none"
    /\ after # "loop" => wpc \in {"join", "fail", "failure"}
    /\ after \in {"loop", "command", "start", "ended", "fail", "stop"}
    /\ wpc = "ended" \/ after = "ended" => worker.active.type = "STREAM"

\* The published facts: closed together, with the video frozen, and clean only
\* when closed and empty.
ClosedFacts ==
    /\ wpc \in {"command", "start", "stopped", "leave", "ended", "done"} => facts.requests_closed
    /\ facts.requests_closed \/ wpc = "join" => media.frozen
    /\ facts.requests_closed <=> facts.protocol_closed
    /\ facts.video_clean => facts.requests_closed /\ media.video = {}
    /\ worker.waitingVideo => facts.requests_closed

\* Video belongs to a request, open video to the session, and a session is
\* the one the facts name.
VideoOwner ==
    /\ facts.request_id = 0 => media.video = {}
    /\ "open" \in media.video => worker.session # 0
    /\ worker.session # 0 => worker.session = facts.session_id

WorkerInv ==
    LiveRequest /\ BeforeLaunch /\ IdleClient /\ Registers /\ ClosedFacts /\ VideoOwner

\* The events on their way to the user interface.
Queued == {events[i] : i \in 1 .. Len(events)}

\* A stream command not accepted yet is the owner's first, or its PIN again.
Unaccepted(c) == c.type = "STREAM" /\ ~c.pin
Again(c) == c.type = "STREAM" /\ c.pin

\* Commands in flight against the owner and the accepted request.
CommandInv ==
    /\ \A c \in {pending, wcmd} :
          /\ Unaccepted(c) => facts.request_id < c.gen /\ c.gen = app.request_id
          /\ Again(c) => c.gen = facts.request_id /\ c.gen # 0
    /\ Unaccepted(wcmd) => pending.type # "STREAM"
    /\ mpc = "apply" => snap.request_id = app.request_id /\ app.request_id = facts.request_id
    /\ facts.request_id <= app.last_request_id
    /\ ui.page = "PIN" => ui.generation <= facts.request_id
    /\ \A e \in Queued : e.type = "PIN" => e.gen <= facts.request_id
    /\ mpc \in {"submit", "submitFailed"} => out.type \in Closers

\* Nothing of the accepted request is left, and nothing of it can come.
FullClosed == facts.request_id = 0 \/ (facts.requests_closed /\ facts.video_clean)

\* The policy record against the facts: what it knows of the accepted request
\* is true, and it knows nothing of a request the runtime has not accepted.
HandoverInv ==
    /\ (app.request_id # facts.request_id /\ ~worker.active.pin) => FullClosed
    /\ (app.request_id # facts.request_id /\ app.request_id # 0) =>
           ~app.requests_closed /\ ~app.protocol_closed /\ ~app.video_clean
    /\ (app.request_id = facts.request_id /\ app.request_id # 0 /\ ~worker.active.pin) =>
           /\ app.requests_closed \/ app.protocol_closed => facts.requests_closed
           /\ app.video_clean => facts.video_clean
    /\ (mpc = "apply" /\ ~worker.active.pin) =>
           /\ snap.requests_closed \/ snap.protocol_closed => facts.requests_closed
           /\ snap.video_clean => facts.video_clean

\* A closing owner whose closing command was submitted: no start can be taken
\* any more, and one under way finds the mailbox occupied.
Settled ==
    app.phase \in Life!ClosingPhases /\ mpc \notin {"submit", "submitFailed", "leaving"}

FreezeInv ==
    /\ (Settled /\ Unaccepted(pending)) => exitRequested
    /\ (Settled /\ (Unaccepted(wcmd) \/ (wpc = "request" /\ ~worker.active.pin))) =>
           pending # NoCommand \/ exitRequested
    /\ (Settled /\ ~worker.active.pin) => media.frozen
    /\ mpc \in {"waiting", "joined"} => exitRequested

\* The user waits for the acknowledgement of one command, which is newer than
\* everything else in flight; once it was executed nothing can start.
Stopping == ui.page = "STOPPING"

GenerationsInv ==
    /\ \A c \in {pending, wcmd, worker.active, out} : c.gen <= ui.generation
    /\ \A e \in Queued : e.gen <= ui.generation
    /\ (Stopping /\ mpc = "submit") =>
           /\ \A c \in {pending, wcmd, worker.active} : c.gen < ui.generation
           /\ \A e \in Queued : e.gen < ui.generation

StoppingInv ==
    Stopping =>
       /\ ~Life!Running(app) /\ app.pending_request_id = 0 /\ mpc # "submitFailed"
       /\ mpc # "submit" => pending.type # "STREAM"
       /\ (mpc # "submit" /\ wcmd.type = "STREAM") => pending # NoCommand
       /\ \A c \in {pending, wcmd, worker.active} : c.type = "STREAM" => c.gen < ui.generation

Acknowledged ==
    \/ wpc = "stopped" /\ worker.active.gen = ui.generation
    \/ \E e \in Queued : e.type = "STOPPED" /\ e.gen = ui.generation

AckInv ==
    /\ GenerationsInv
    /\ StoppingInv
    /\ (Stopping /\ Acknowledged) =>
           FullClosed /\ pending.type # "STREAM" /\ wcmd.type # "STREAM"

\* The chance to create a session, handed from the accepted request to the PIN
\* event, the page, the command with the PIN, and back: there is one of it.
Startable ==
    \/ wpc = "request" \/ ihs.request = "pending" \/ ticket # "none"
    \/ flags.ready # "none" /\ ~flags.terminal
    \/ worker.sns = "waiting"

AsksPin(e) == e.type = "PIN" /\ e.gen = facts.request_id
PinQueued == \E e \in Queued : AsksPin(e)
OnPinPage == ui.page = "PIN" /\ ui.generation = facts.request_id

TokenInv ==
    /\ worker.lastSession <= facts.request_id
    /\ (Startable \/ OnPinPage \/ PinQueued \/ Again(pending) \/ Again(wcmd)) =>
           worker.lastSession < facts.request_id
    /\ \A i, j \in 1 .. Len(events) : AsksPin(events[i]) /\ AsksPin(events[j]) => i = j
    /\ Startable => ~OnPinPage /\ ~PinQueued /\ ~Again(pending) /\ ~Again(wcmd)
    /\ Again(wcmd) => ~OnPinPage /\ ~PinQueued /\ ~Again(pending)
    /\ Again(pending) => ~OnPinPage /\ ~PinQueued
    /\ OnPinPage => ~PinQueued

\* Pauses and resumes of one session alternate, beginning with a start.
TransitionInv ==
    /\ facts.transition <= 2 * facts.epoch
    /\ "open" \in media.video => facts.transition < 2 * facts.epoch

IInv ==
    /\ TypeOK /\ PolicyInv /\ WorkerInv /\ CommandInv /\ HandoverInv /\ FreezeInv
    /\ AckInv /\ TokenInv /\ TransitionInv

-----------------------------------------------------------------------------
(* The policy operators, as the main thread chains them.                   *)

USE DEF Life!Running, Life!RunningPhases, Life!ClosingPhases, Life!Phases, Life!Cleaned

\* RequestStop ends a running owner and the waiting intent, and keeps the rest.
LEMMA StopFields ==
    ASSUME NEW a \in Life!Lifecycle
    PROVE  LET s == Life!RequestStop(a)
           IN  /\ s \in Life!Lifecycle
               /\ s.phase = IF Life!Running(a) THEN "STOPPING" ELSE a.phase
               /\ s.request_id = a.request_id /\ s.session_id = a.session_id
               /\ s.last_request_id = a.last_request_id /\ s.pending_request_id = 0
               /\ s.exit_requested = a.exit_requested
               /\ s.requests_closed = a.requests_closed
               /\ s.protocol_closed = a.protocol_closed /\ s.video_clean = a.video_clean
  BY DEF Life!Lifecycle, Life!RequestStop

\* RequestExit does the same and latches the exit.
LEMMA ExitFields ==
    ASSUME NEW a \in Life!Lifecycle, a.phase # "DEVICE_FAILED"
    PROVE  LET s == Life!RequestExit(a)
           IN  /\ s \in Life!Lifecycle
               /\ s.phase = "EXITING" /\ s.exit_requested
               /\ s.request_id = a.request_id /\ s.session_id = a.session_id
               /\ s.last_request_id = a.last_request_id /\ s.pending_request_id = 0
               /\ s.requests_closed = a.requests_closed
               /\ s.protocol_closed = a.protocol_closed /\ s.video_clean = a.video_clean
<1> DEFINE b == Life!RequestStop(a)
<1>1. /\ b \in Life!Lifecycle /\ b.phase # "DEVICE_FAILED"
      /\ b.request_id = a.request_id /\ b.session_id = a.session_id
      /\ b.last_request_id = a.last_request_id /\ b.pending_request_id = 0
      /\ b.requests_closed = a.requests_closed
      /\ b.protocol_closed = a.protocol_closed /\ b.video_clean = a.video_clean
  BY StopFields
<1>2. Life!RequestExit(a) = [b EXCEPT !.exit_requested = TRUE, !.phase = "EXITING"]
  BY <1>1 DEF Life!RequestExit
<1> HIDE DEF b
<1> QED
  BY <1>1, <1>2 DEF Life!Lifecycle

\* What observing a snapshot may change before the cleanup: the owner keeps its
\* identity and its evidence, and stops running only if the snapshot says so.
LEMMA ObservedFields ==
    ASSUME NEW a \in Life!Lifecycle, NEW f \in Facts
    PROVE  LET s == Observed(a, f)
           IN  /\ s \in Life!Lifecycle
               /\ s.request_id = a.request_id /\ s.last_request_id = a.last_request_id
               /\ s.pending_request_id \in {0, a.pending_request_id}
               /\ s.exit_requested = a.exit_requested
               /\ s.requests_closed = a.requests_closed
               /\ s.protocol_closed = a.protocol_closed /\ s.video_clean = a.video_clean
               /\ ~Life!Running(a) =>
                      s.phase = a.phase /\ s.pending_request_id = a.pending_request_id
               /\ Life!Running(a) => s.phase \in {"STARTING", "STREAMING", "STOPPING"}
               /\ Life!Running(a) /\ s.phase = "STOPPING" => f.failed \/ f.requests_closed
               /\ Life!Running(a) /\ s.phase = "STOPPING" => s.pending_request_id = 0
               /\ Life!Running(a) /\ Life!Running(s) =>
                      s.pending_request_id = a.pending_request_id
               /\ f.requests_closed => ~Life!Running(s)
<1> DEFINE created == IF f.session_id # 0
                         /\ Life!SessionCreatedAccepted(a, f.request_id, f.session_id)
                      THEN Life!SessionCreated(a, f.session_id) ELSE a
           failing == IF f.failed /\ Life!Running(created)
                      THEN Life!RequestStop(created) ELSE created
           linked == IF f.connected /\ Life!ConnectedAccepted(failing, f.session_id)
                     THEN Life!Connected(failing) ELSE failing
           video == IF Life!VideoStateAccepted(linked, f.session_id, f.transition, f.epoch,
                                               f.paused)
                    THEN Life!VideoState(linked, f.transition, f.epoch, f.paused) ELSE linked
           shown == IF f.presented /\ Life!PresentedAccepted(video, f.session_id, f.epoch)
                    THEN Life!Presented(video) ELSE video
           Same(x, y) == /\ y \in Life!Lifecycle
                         /\ y.request_id = x.request_id
                         /\ y.last_request_id = x.last_request_id
                         /\ y.exit_requested = x.exit_requested
                         /\ y.requests_closed = x.requests_closed
                         /\ y.protocol_closed = x.protocol_closed
                         /\ y.video_clean = x.video_clean
<1>0. f.session_id \in Nat /\ f.transition \in Nat /\ f.epoch \in Nat /\ f.paused \in BOOLEAN
  BY BoundsAssumption DEF Facts
<1>1. created \in {a, Life!SessionCreated(a, f.session_id)}
  OBVIOUS
<1>2. failing = created \/ (f.failed /\ Life!Running(created)
                            /\ failing = Life!RequestStop(created))
  OBVIOUS
<1>3. linked \in {failing, Life!Connected(failing)}
  OBVIOUS
<1>4. video \in {linked, Life!VideoState(linked, f.transition, f.epoch, f.paused)}
  OBVIOUS
<1>5. shown = video \/ (Life!Running(video) /\ shown = Life!Presented(video))
  BY DEF Life!PresentedAccepted
<1>6. \/ Observed(a, f) = shown /\ ~(f.requests_closed /\ Life!Running(shown))
      \/ /\ f.requests_closed /\ Life!Running(shown)
         /\ Observed(a, f) = Life!RequestStop(shown)
  BY DEF Observed
<1> HIDE DEF created, failing, linked, video, shown
<1>7. /\ Same(a, created) /\ created.phase = a.phase
      /\ created.pending_request_id = a.pending_request_id
  BY <1>0, <1>1 DEF Life!Lifecycle, Life!SessionCreated
<1>8. /\ Same(created, failing)
      /\ \/ failing = created
         \/ /\ Life!Running(created) /\ f.failed
            /\ failing.phase = "STOPPING" /\ failing.pending_request_id = 0
  BY <1>2, <1>7, StopFields
<1>9. /\ Same(failing, linked) /\ linked.phase = failing.phase
      /\ linked.pending_request_id = failing.pending_request_id
  BY <1>3, <1>8 DEF Life!Lifecycle, Life!Connected
<1>10. /\ Same(linked, video) /\ video.phase = linked.phase
       /\ video.pending_request_id = linked.pending_request_id
  BY <1>0, <1>4, <1>9 DEF Life!Lifecycle, Life!VideoState
<1>11. /\ Same(video, shown) /\ shown.pending_request_id = video.pending_request_id
       /\ \/ shown.phase = video.phase
          \/ Life!Running(video) /\ shown.phase = "STREAMING"
  BY <1>5, <1>10 DEF Life!Lifecycle, Life!Presented
<1>12. \/ Observed(a, f) = shown /\ ~(f.requests_closed /\ Life!Running(shown))
       \/ /\ f.requests_closed /\ Life!Running(shown) /\ Same(shown, Observed(a, f))
          /\ Observed(a, f).phase = "STOPPING" /\ Observed(a, f).pending_request_id = 0
  BY <1>6, <1>11, StopFields
<1> QED
  BY <1>7, <1>8, <1>9, <1>10, <1>11, <1>12

\* A start makes an idle device the request's, and a busy one wait for its end.
LEMMA StartFields ==
    ASSUME NEW a \in Life!Lifecycle, NEW id \in Nat
    PROVE  LET s == Life!RequestStart(a, id)
           IN  /\ s \in Life!Lifecycle
               /\ s.last_request_id = id /\ s.exit_requested = a.exit_requested
               /\ a.phase = "IDLE" =>
                      /\ s.phase = "STARTING" /\ s.request_id = id /\ s.pending_request_id = 0
                      /\ ~s.requests_closed /\ ~s.protocol_closed /\ ~s.video_clean
               /\ a.phase # "IDLE" =>
                      /\ s.phase = "STOPPING" /\ s.request_id = a.request_id
                      /\ s.pending_request_id = id
                      /\ s.requests_closed = a.requests_closed
                      /\ s.protocol_closed = a.protocol_closed /\ s.video_clean = a.video_clean
<1>1. CASE a.phase = "IDLE"
  BY <1>1 DEF Life!Lifecycle, Life!RequestStart, Life!Start
<1>2. CASE a.phase # "IDLE"
  BY <1>2 DEF Life!Lifecycle, Life!RequestStart
<1> QED
  BY <1>1, <1>2

\* A cleanup report adds what it names to the evidence, and touches nothing else.
LEMMA ReportFields ==
    ASSUME NEW a \in Life!Lifecycle,
           NEW q \in BOOLEAN, NEW p \in BOOLEAN, NEW v \in BOOLEAN
    PROVE  LET b == Life!CleanupFacts(a, q, p, v)
           IN  /\ b \in Life!Lifecycle
               /\ b.phase = a.phase /\ b.exit_requested = a.exit_requested
               /\ b.request_id = a.request_id /\ b.pending_request_id = a.pending_request_id
               /\ b.last_request_id = a.last_request_id
               /\ b.requests_closed <=> (a.requests_closed \/ q)
               /\ b.protocol_closed <=> (a.protocol_closed \/ p)
               /\ b.video_clean <=> (a.video_clean \/ v)
<1>1. Life!CleanupFacts(a, q, p, v) \in Life!Lifecycle
  BY DEF Life!CleanupFacts, Life!Lifecycle
<1>2. LET b == Life!CleanupFacts(a, q, p, v)
      IN  /\ b.phase = a.phase /\ b.exit_requested = a.exit_requested
          /\ b.request_id = a.request_id /\ b.pending_request_id = a.pending_request_id
          /\ b.last_request_id = a.last_request_id
          /\ b.requests_closed <=> (a.requests_closed \/ q)
          /\ b.protocol_closed <=> (a.protocol_closed \/ p)
          /\ b.video_clean <=> (a.video_clean \/ v)
  BY DEF Life!CleanupFacts, Life!Lifecycle
<1> QED
  BY <1>1, <1>2

\* A cleanup adds its evidence; when that is complete the device goes to the
\* waiting intent or is free, unless the application ends.
LEMMA CleanupFields ==
    ASSUME NEW a \in Life!Lifecycle, NEW f \in Facts
    PROVE  LET q == f.requests_closed
               p == f.protocol_closed
               v == f.video_clean
               s == Life!Cleanup(a, q, p, v)
               next == Life!CleanupNext(a, q, p, v)
               all == (a.requests_closed \/ q) /\ (a.protocol_closed \/ p)
                      /\ (a.video_clean \/ v)
           IN  /\ s \in Life!Lifecycle
               /\ s.last_request_id = a.last_request_id
               /\ s.exit_requested = a.exit_requested
               /\ ~all \/ a.exit_requested =>
                      /\ next = 0 /\ s.phase = a.phase /\ s.request_id = a.request_id
                      /\ s.pending_request_id = a.pending_request_id
                      /\ s.requests_closed <=> (a.requests_closed \/ q)
                      /\ s.protocol_closed <=> (a.protocol_closed \/ p)
                      /\ s.video_clean <=> (a.video_clean \/ v)
               /\ (all /\ ~a.exit_requested /\ a.pending_request_id # 0) =>
                      /\ next = a.pending_request_id
                      /\ s.phase = "STARTING" /\ s.request_id = a.pending_request_id
                      /\ s.pending_request_id = 0
                      /\ ~s.requests_closed /\ ~s.protocol_closed /\ ~s.video_clean
               /\ (all /\ ~a.exit_requested /\ a.pending_request_id = 0) =>
                      /\ next = 0 /\ s.phase = "IDLE" /\ s.request_id = 0
                      /\ s.pending_request_id = 0 /\ Life!Cleaned(s)
<1> DEFINE q == f.requests_closed
           p == f.protocol_closed
           v == f.video_clean
           b == Life!CleanupFacts(a, q, p, v)
<1>0. q \in BOOLEAN /\ p \in BOOLEAN /\ v \in BOOLEAN
  BY DEF Facts
<1>1. /\ b \in Life!Lifecycle
      /\ b.phase = a.phase /\ b.exit_requested = a.exit_requested
      /\ b.request_id = a.request_id /\ b.pending_request_id = a.pending_request_id
      /\ b.last_request_id = a.last_request_id
  BY <1>0, ReportFields
<1>2. /\ b.requests_closed <=> (a.requests_closed \/ q)
      /\ b.protocol_closed <=> (a.protocol_closed \/ p)
      /\ b.video_clean <=> (a.video_clean \/ v)
  BY <1>0, ReportFields
<1>3. Life!CleanupNext(a, q, p, v) =
          IF Life!Cleaned(b) /\ ~b.exit_requested THEN b.pending_request_id ELSE 0
  BY DEF Life!CleanupNext
<1>4. Life!Cleanup(a, q, p, v) =
          IF ~Life!Cleaned(b) \/ b.exit_requested THEN b
          ELSE IF b.pending_request_id # 0 THEN Life!Start(b, b.pending_request_id)
          ELSE [b EXCEPT !.phase = "IDLE", !.connected = FALSE,
                         !.request_id = 0, !.session_id = 0, !.epoch = 0]
  BY DEF Life!Cleanup
<1> HIDE DEF b
<1>5. CASE ~Life!Cleaned(b) \/ b.exit_requested
  BY <1>1, <1>2, <1>3, <1>4, <1>5
<1>6. CASE Life!Cleaned(b) /\ ~b.exit_requested /\ b.pending_request_id # 0
  <2> DEFINE s == Life!Start(b, b.pending_request_id)
  <2>1. /\ s \in Life!Lifecycle
        /\ s.phase = "STARTING" /\ s.request_id = b.pending_request_id
        /\ s.pending_request_id = 0 /\ s.last_request_id = b.last_request_id
        /\ s.exit_requested = b.exit_requested
        /\ ~s.requests_closed /\ ~s.protocol_closed /\ ~s.video_clean
    BY <1>1 DEF Life!Lifecycle, Life!Start
  <2>2. Life!Cleanup(a, q, p, v) = s /\ Life!CleanupNext(a, q, p, v) = b.pending_request_id
    BY <1>3, <1>4, <1>6
  <2> HIDE DEF s
  <2> QED
    BY <1>1, <1>2, <1>6, <2>1, <2>2
<1>7. CASE Life!Cleaned(b) /\ ~b.exit_requested /\ b.pending_request_id = 0
  <2> DEFINE s == [b EXCEPT !.phase = "IDLE", !.connected = FALSE,
                            !.request_id = 0, !.session_id = 0, !.epoch = 0]
  <2>1. /\ s \in Life!Lifecycle
        /\ s.phase = "IDLE" /\ s.request_id = 0
        /\ s.pending_request_id = b.pending_request_id
        /\ s.last_request_id = b.last_request_id
        /\ s.exit_requested = b.exit_requested
        /\ s.requests_closed = b.requests_closed
        /\ s.protocol_closed = b.protocol_closed /\ s.video_clean = b.video_clean
    BY <1>1 DEF Life!Lifecycle
  <2>2. Life!Cleanup(a, q, p, v) = s /\ Life!CleanupNext(a, q, p, v) = 0
    BY <1>3, <1>4, <1>7
  <2> HIDE DEF s
  <2> QED
    BY <1>1, <1>2, <1>7, <2>1, <2>2
<1> QED
  BY <1>5, <1>6, <1>7
-----------------------------------------------------------------------------
(* The worker, the client's answers and the session's threads.             *)

USE DEF At, Goto, StopThen, FailThen, Execute, Post, Closed, FactsOf, NoFlags,
        CreateSession, Called, SessionRuns, mainVars, sharedVars, workerVars

Other == Worker \/ Answer \/ Session

\* Nothing but the freeze of the video is done to the worker's state by the
\* main thread.
LEMMA MainLeavesWorker ==
    ASSUME TypeOK, Main
    PROVE  /\ UNCHANGED <<facts, flags, wpc, after, wcmd, ticket, worker, ihs>>
           /\ media' = media \/ media' = [media EXCEPT !.frozen = TRUE]
<1> USE DEF Acted, Close
<1>1. CASE PollEvent \/ ReadFacts \/ SkipFacts \/ SubmitClosing \/ Quit \/ BeginExit
           \/ RequestExit \/ Destroy
  BY <1>1 DEF PollEvent, ReadFacts, SkipFacts, SubmitClosing, Quit, BeginExit, RequestExit,
              Destroy
<1>2. CASE ApplyFacts
  BY <1>2 DEF ApplyFacts
<1>3. CASE StartStream
  BY <1>3 DEF StartStream, DispatchStart
<1>4. CASE Back \/ ConfirmStop \/ ConfirmExit
  BY <1>4 DEF Back, ConfirmStop, ConfirmExit, DispatchClose
<1>5. CASE SubmitPin \/ Dialog \/ NoInput
  BY <1>5 DEF SubmitPin, DispatchPin, Dialog, NoInput
<1> QED
  BY <1>1, <1>2, <1>3, <1>4, <1>5 DEF Main, Input

\* The branches of the worker's conditional steps, as actions of their own.
TakeHead ==
    /\ wpc = "loop" /\ ~worker.waitingVideo /\ ~exitRequested
    /\ pending' = NoCommand
    /\ flags' = [flags EXCEPT !.ready = "none", !.terminal = FALSE]
    /\ UNCHANGED <<exitRequested, events, facts, worker>> /\ UNCHANGED mainVars

TakeRevoked == TakeHead /\ flags.terminal /\ StopThen("command", pending) /\ UNCHANGED ihs
TakeExecuted == TakeHead /\ pending # NoCommand /\ Execute(pending)
TakeEnded ==
    /\ TakeHead /\ pending = NoCommand /\ worker.session # 0
    /\ StopThen("ended", NoCommand) /\ UNCHANGED ihs
TakeServed ==
    /\ TakeHead /\ pending = NoCommand
    /\ wpc' = "serve" /\ ticket' = "none" /\ UNCHANGED <<after, wcmd, media, ihs>>
TakeLaunched ==
    /\ TakeHead /\ pending = NoCommand
    /\ ~flags.terminal /\ worker.session = 0 /\ flags.ready # "none"
    /\ wpc' = "launch" /\ ticket' = flags.ready /\ UNCHANGED <<after, wcmd, media, ihs>>

TakeCommandHead ==
    /\ At("command") /\ UNCHANGED <<pending, exitRequested, events, facts, flags, worker>>
TakeCommandNone == TakeCommandHead /\ Goto("loop") /\ UNCHANGED <<ihs, media>>
TakeCommandExecuted == TakeCommandHead /\ Execute(wcmd)

FailureHead ==
    /\ At("failure") /\ Post("FAILURE")
    /\ UNCHANGED <<pending, exitRequested, facts, flags, worker, ihs>>
FailureServed == FailureHead /\ Goto("loop") /\ UNCHANGED media
FailureStops == FailureHead /\ StopThen("loop", NoCommand)

LaunchHead ==
    /\ At("launch") /\ Goto("serve")
    /\ UNCHANGED <<pending, exitRequested, events, flags, media>>
LaunchSession ==
    /\ LaunchHead /\ ticket = "udp" /\ CreateSession("none")
    /\ ihs' = [request |-> "idle", link |-> "new"]
LaunchBackend ==
    /\ LaunchHead /\ worker' = [worker EXCEPT !.sns = "waiting"]
    /\ ihs' = [ihs EXCEPT !.request = "idle"] /\ UNCHANGED facts

LaunchFailsHead ==
    /\ At("launch") /\ ihs' = [ihs EXCEPT !.request = "idle"]
    /\ StopThen("fail", NoCommand) /\ UNCHANGED <<pending, exitRequested, events, flags>>
LaunchRefused == LaunchFailsHead /\ UNCHANGED <<worker, facts>>
ConnectRefused == LaunchFailsHead /\ ticket = "udp" /\ CreateSession("none")

RequestHead ==
    /\ At("request")
    /\ UNCHANGED <<pending, exitRequested, events, facts, flags, worker>>
    /\ \/ ihs' = [ihs EXCEPT !.request = "pending"] /\ Goto("loop")
       \/ FailThen("loop") /\ UNCHANGED ihs
RequestThaws ==
    /\ RequestHead /\ pending = NoCommand /\ ~exitRequested
    /\ media' = [media EXCEPT !.frozen = FALSE]
RequestFrozen == RequestHead /\ UNCHANGED media

StartHead ==
    /\ At("start") /\ media.video = {}
    /\ worker' = [worker EXCEPT !.waitingVideo = FALSE, !.active = wcmd]
    /\ flags' = [flags EXCEPT !.ready = "none", !.terminal = FALSE]
    /\ UNCHANGED <<pending, exitRequested, events, media, ihs>>
StartStreaming ==
    StartHead /\ wcmd.type = "STREAM" /\ facts' = FactsOf(wcmd.gen) /\ Goto("request")
StartOther ==
    /\ StartHead /\ wcmd.type # "STREAM" /\ facts' = [facts EXCEPT !.video_clean = TRUE]
    /\ \/ wcmd.type = "EXIT" /\ Goto("leave")
       \/ wcmd.type # "EXIT" /\ Goto("stopped")

\* Taking splits into five steps: revoked, executed, ended, served, launched.
LEMMA TakeBranches ==
    Take => TakeRevoked \/ TakeExecuted \/ TakeEnded \/ TakeServed \/ TakeLaunched
<1> SUFFICES ASSUME Take
             PROVE  TakeRevoked \/ TakeExecuted \/ TakeEnded \/ TakeServed \/ TakeLaunched
  OBVIOUS
<1> DEFINE revoked == flags.terminal /\ worker.session = 0
           ready == IF flags.terminal \/ worker.session # 0 THEN "none" ELSE flags.ready
<1>1. TakeHead
  BY DEF Take, TakeHead
<1>2. CASE revoked
  BY <1>1, <1>2 DEF Take, TakeRevoked
<1>3. CASE ~revoked /\ pending # NoCommand
  BY <1>1, <1>3 DEF Take, TakeExecuted
<1>4. CASE ~revoked /\ pending = NoCommand /\ flags.finished /\ worker.session # 0
  BY <1>1, <1>4 DEF Take, TakeEnded
<1>5. CASE ~revoked /\ pending = NoCommand /\ ~(flags.finished /\ worker.session # 0)
  <2>1. /\ wpc' = IF ready # "none" THEN "launch" ELSE "serve"
        /\ ticket' = ready
        /\ UNCHANGED <<after, wcmd, media, ihs>>
    BY <1>5 DEF Take
  <2> QED
    BY <1>1, <1>5, <2>1 DEF TakeServed, TakeLaunched
<1> QED
  BY <1>2, <1>3, <1>4, <1>5

\* So do the worker's other conditional steps, into two each.
LEMMA OtherBranches ==
    /\ TakeCommand => TakeCommandNone \/ TakeCommandExecuted
    /\ Failure => FailureServed \/ FailureStops
    /\ Launch => LaunchSession \/ LaunchBackend
    /\ LaunchFails => LaunchRefused \/ ConnectRefused
    /\ RequestStream => RequestThaws \/ RequestFrozen
    /\ StartCommand => StartStreaming \/ StartOther
<1>1. TakeCommand => TakeCommandNone \/ TakeCommandExecuted
  BY DEF TakeCommand, TakeCommandHead, TakeCommandNone, TakeCommandExecuted
<1>2. Failure => FailureServed \/ FailureStops
  BY DEF Failure, FailureHead, FailureServed, FailureStops
<1>3. Launch => LaunchSession \/ LaunchBackend
  BY DEF Launch, LaunchHead, LaunchSession, LaunchBackend
<1>4. LaunchFails => LaunchRefused \/ ConnectRefused
  BY DEF LaunchFails, LaunchFailsHead, LaunchRefused, ConnectRefused
<1>5. RequestStream => RequestThaws \/ RequestFrozen
  BY DEF RequestStream, RequestHead, RequestThaws, RequestFrozen
<1>6. StartCommand => StartStreaming \/ StartOther
  BY DEF StartCommand, StartHead, StartStreaming, StartOther
<1> QED
  BY <1>1, <1>2, <1>3, <1>4, <1>5, <1>6

\* Every step of the worker, the client and the session, branches apart.
LEMMA OtherSteps ==
    ASSUME Other
    PROVE  \/ VideoClean \/ Fail \/ TakeExit \/ Stopped \/ Requeue
           \/ TakeRevoked \/ TakeExecuted \/ TakeEnded \/ TakeServed \/ TakeLaunched
           \/ TakeCommandNone \/ TakeCommandExecuted \/ FailureServed \/ FailureStops
           \/ StartStreaming \/ StartOther \/ PostStopped \/ RequestThaws \/ RequestFrozen
           \/ RequestRefused \/ LaunchSession \/ LaunchBackend \/ LaunchRefused
           \/ ConnectRefused \/ BackendFails \/ Ended \/ BackendReady \/ TransportFails
           \/ Sample \/ RenderFails \/ Wait \/ Leave
           \/ Rejected \/ PinRequired \/ (\E t \in Transports : Accepted(t))
           \/ LinkUp \/ LinkDown \/ VideoStart \/ VideoStop \/ VideoDrained
  BY TakeBranches, OtherBranches DEF Other, Worker, Answer, Session

\* Every step of the worker and of the callbacks keeps the worker's own invariant.
LEMMA WorkerKeepsInv ==
    ASSUME TypeOK, CommandInv, WorkerInv, Other
    PROVE  WorkerInv'
<1> USE BoundsAssumption
    DEF TypeOK, Commands, Command, NoCommand, Facts, Flags, WorkerInv, Busy, LiveRequest,
        BeforeLaunch, IdleClient, Registers, ClosedFacts, VideoOwner
<1>1. CASE VideoClean
  BY <1>1 DEF VideoClean
<1>2. CASE Fail
  BY <1>2 DEF Fail
<1>3. CASE TakeExit
  BY <1>3 DEF TakeExit
<1>4. CASE Stopped
  BY <1>4 DEF Stopped
<1>5. CASE Requeue
  BY <1>5 DEF Requeue
<1>6. CASE TakeRevoked
  BY <1>6 DEF TakeRevoked, TakeHead
<1>7. CASE TakeExecuted
  BY <1>7 DEF TakeExecuted, TakeHead
<1>8. CASE TakeEnded
  BY <1>8 DEF TakeEnded, TakeHead
<1>9. CASE TakeServed
  BY <1>9 DEF TakeServed, TakeHead
<1>10. CASE TakeLaunched
  BY <1>10 DEF TakeLaunched, TakeHead
<1>11. CASE TakeCommandNone
  BY <1>11 DEF TakeCommandNone, TakeCommandHead
<1>12. CASE TakeCommandExecuted
  BY <1>12 DEF TakeCommandExecuted, TakeCommandHead
<1>13. CASE FailureServed
  BY <1>13 DEF FailureServed, FailureHead
<1>14. CASE FailureStops
  BY <1>14 DEF FailureStops, FailureHead
<1>15. CASE StartStreaming
  <2>1. wcmd.type = "STREAM" => wcmd.gen # 0
    BY DEF CommandInv, Unaccepted, Again
  <2> QED
    BY <1>15, <2>1 DEF StartStreaming, StartHead
<1>16. CASE StartOther
  BY <1>16 DEF StartOther, StartHead
<1>17. CASE PostStopped
  BY <1>17 DEF PostStopped
<1>18. CASE RequestThaws
  BY <1>18 DEF RequestThaws, RequestHead
<1>19. CASE RequestFrozen
  BY <1>19 DEF RequestFrozen, RequestHead
<1>20. CASE RequestRefused
  BY <1>20 DEF RequestRefused
<1>21. CASE LaunchSession
  BY <1>21 DEF LaunchSession, LaunchHead
<1>22. CASE LaunchBackend
  BY <1>22 DEF LaunchBackend, LaunchHead
<1>23. CASE LaunchRefused
  BY <1>23 DEF LaunchRefused, LaunchFailsHead
<1>24. CASE ConnectRefused
  BY <1>24 DEF ConnectRefused, LaunchFailsHead
<1>25. CASE BackendFails
  BY <1>25 DEF BackendFails
<1>26. CASE Ended
  BY <1>26 DEF Ended
<1>27. CASE BackendReady
  BY <1>27 DEF BackendReady
<1>28. CASE TransportFails
  BY <1>28 DEF TransportFails
<1>29. CASE Sample
  BY <1>29 DEF Sample
<1>30. CASE RenderFails
  BY <1>30 DEF RenderFails
<1>31. CASE Wait
  BY <1>31 DEF Wait
<1>32. CASE Leave
  BY <1>32 DEF Leave
<1>33. CASE Rejected
  BY <1>33 DEF Rejected
<1>34. CASE PinRequired
  BY <1>34 DEF PinRequired
<1>35. CASE LinkUp
  BY <1>35 DEF LinkUp
<1>36. CASE LinkDown
  BY <1>36 DEF LinkDown
<1>37. CASE VideoStart
  BY <1>37 DEF VideoStart
<1>38. CASE VideoStop
  BY <1>38 DEF VideoStop
<1>39. CASE VideoDrained
  BY <1>39 DEF VideoDrained
<1>40. ASSUME NEW t \in Transports, Accepted(t)
       PROVE  WorkerInv'
  BY <1>40 DEF Accepted
<1> QED
  BY <1>1, <1>2, <1>3, <1>4, <1>5, <1>6, <1>7, <1>8, <1>9, <1>10, <1>11, <1>12, <1>13, <1>14,
     <1>15, <1>16, <1>17, <1>18, <1>19, <1>20, <1>21, <1>22, <1>23, <1>24, <1>25, <1>26,
     <1>27, <1>28, <1>29, <1>30, <1>31, <1>32, <1>33, <1>34, <1>35, <1>36, <1>37, <1>38,
     <1>39, <1>40, OtherSteps

WorkerRecords ==
    [active : Commands, session : 0 .. MaxGen, lastSession : 0 .. MaxGen,
     sns : {"none", "waiting", "up"}, waitingVideo : BOOLEAN, firstReported : BOOLEAN]
MediaRecords == [frozen : BOOLEAN, video : SUBSET {"open", "draining"}]
IhsRecords == [request : {"idle", "pending"}, link : {"none", "new", "up", "down"}]
EventRecords == [type : EventTypes, gen : 0 .. MaxGen]

\* The types of the records, as far as single fields are needed.
LEMMA FieldTypes ==
    ASSUME TypeOK
    PROVE  /\ facts \in Facts /\ flags \in Flags /\ media \in MediaRecords
           /\ worker \in WorkerRecords /\ ihs \in IhsRecords
           /\ events \in Seq(EventRecords)
           /\ wcmd \in Commands /\ pending \in Commands /\ worker.active \in Commands
           /\ wcmd.gen \in 0 .. MaxGen /\ pending.gen \in 0 .. MaxGen
           /\ worker.active.gen \in 0 .. MaxGen
           /\ worker.lastSession \in 0 .. MaxGen /\ facts.request_id \in 0 .. MaxGen
           /\ 0 \in 0 .. MaxGen
<1>1. /\ facts \in Facts /\ flags \in Flags /\ media \in MediaRecords
      /\ worker \in WorkerRecords /\ ihs \in IhsRecords
      /\ events \in Seq(EventRecords)
      /\ wcmd \in Commands /\ pending \in Commands
  BY DEF TypeOK, WorkerRecords, MediaRecords, IhsRecords, EventRecords
<1>2. worker.active \in Commands /\ worker.lastSession \in 0 .. MaxGen
  BY <1>1 DEF WorkerRecords
<1>3. wcmd.gen \in 0 .. MaxGen /\ pending.gen \in 0 .. MaxGen /\ worker.active.gen \in 0 .. MaxGen
  BY <1>1, <1>2 DEF Commands
<1>4. facts.request_id \in 0 .. MaxGen
  BY <1>1 DEF Facts
<1>5. 0 \in 0 .. MaxGen
  BY BoundsAssumption
<1> QED
  BY <1>1, <1>2, <1>3, <1>4, <1>5

\* A session may be created only for a request that has none yet.
LEMMA SessionNumber ==
    ASSUME TypeOK, WorkerInv, TokenInv, LaunchSession \/ ConnectRefused \/ BackendReady
    PROVE  worker.lastSession + 1 \in 0 .. MaxGen
<1>1. worker.lastSession < facts.request_id
  BY DEF LaunchSession, LaunchHead, ConnectRefused, LaunchFailsHead, BackendReady, TokenInv,
         Startable, WorkerInv, Registers
<1> QED
  BY <1>1, FieldTypes, BoundsAssumption

\* A pause or a resume is counted only while there is room for it.
LEMMA TransitionNumber ==
    ASSUME TypeOK, TransitionInv, VideoStart \/ VideoStop
    PROVE  /\ facts.transition + 1 \in 0 .. 2 * MaxEpoch
           /\ VideoStart => facts.epoch + 1 \in 0 .. MaxEpoch
<1>1. facts.epoch \in 0 .. MaxEpoch /\ facts.transition \in 0 .. 2 * MaxEpoch
  BY FieldTypes DEF Facts
<1>2. CASE VideoStart
  BY <1>1, <1>2, BoundsAssumption DEF TransitionInv, VideoStart
<1>3. CASE VideoStop
  <2>1. facts.transition < 2 * facts.epoch
    BY <1>3 DEF TransitionInv, VideoStop
  <2>2. ~VideoStart
    BY <1>3 DEF VideoStart, VideoStop
  <2> QED
    BY <1>1, <2>1, <2>2, BoundsAssumption
<1> QED
  BY <1>2, <1>3

\* The facts stay typed: a session number is one of a request, and a transition
\* one of an epoch.
LEMMA FactsTyped ==
    ASSUME TypeOK, WorkerInv, TokenInv, TransitionInv, Other
    PROVE  (facts \in Facts)'
<1> USE FieldTypes, BoundsAssumption DEF Facts
<1>1. CASE TakeExit \/ Requeue \/ TakeRevoked \/ TakeExecuted \/ TakeEnded \/ TakeServed
          \/ TakeLaunched \/ TakeCommandNone \/ TakeCommandExecuted \/ FailureServed
          \/ FailureStops \/ PostStopped \/ RequestThaws \/ RequestFrozen \/ RequestRefused
          \/ LaunchBackend \/ LaunchRefused \/ BackendFails \/ Ended \/ TransportFails
          \/ RenderFails \/ Wait \/ Rejected \/ PinRequired \/ LinkDown \/ VideoDrained
          \/ (\E t \in Transports : Accepted(t))
  <2>1. UNCHANGED facts
    BY <1>1 DEF TakeExit, Requeue, TakeRevoked, TakeHead, TakeExecuted, TakeEnded, TakeServed,
           TakeLaunched, TakeCommandNone, TakeCommandHead, TakeCommandExecuted, FailureServed,
           FailureHead, FailureStops, PostStopped, RequestThaws, RequestHead, RequestFrozen,
           RequestRefused, LaunchBackend, LaunchHead, LaunchRefused, LaunchFailsHead,
           BackendFails, Ended, TransportFails, RenderFails, Wait, Rejected, PinRequired,
           LinkDown, VideoDrained, Accepted
  <2> QED
    BY <2>1
<1>2. CASE VideoClean
  BY <1>2 DEF VideoClean
<1>3. CASE Fail
  BY <1>3 DEF Fail
<1>4. CASE Stopped
  BY <1>4 DEF Stopped
<1>5. CASE StartStreaming
  BY <1>5 DEF StartStreaming, StartHead
<1>6. CASE StartOther
  BY <1>6 DEF StartOther, StartHead
<1>7. CASE LaunchSession
  BY <1>7, SessionNumber DEF LaunchSession, LaunchHead
<1>8. CASE ConnectRefused
  BY <1>8, SessionNumber DEF ConnectRefused, LaunchFailsHead
<1>9. CASE BackendReady
  BY <1>9, SessionNumber DEF BackendReady
<1>10. CASE Sample
  BY <1>10 DEF Sample
<1>11. CASE Leave
  BY <1>11 DEF Leave
<1>12. CASE LinkUp
  BY <1>12 DEF LinkUp
<1>13. CASE VideoStart
  <2>1. CASE UNCHANGED facts
    BY <2>1
  <2>2. CASE facts.session_id = worker.session
    BY <1>13, <2>2, TransitionNumber DEF VideoStart
  <2> QED
    BY <1>13, <2>1, <2>2 DEF VideoStart
<1>14. CASE VideoStop
  <2>1. CASE UNCHANGED facts
    BY <2>1
  <2>2. CASE facts.session_id = worker.session
    BY <1>14, <2>2, TransitionNumber DEF VideoStop
  <2> QED
    BY <1>14, <2>1, <2>2 DEF VideoStop
<1> QED
  BY <1>1, <1>2, <1>3, <1>4, <1>5, <1>6, <1>7, <1>8, <1>9, <1>10, <1>11, <1>12, <1>13, <1>14,
     OtherSteps

\* So do the callback results,
LEMMA FlagsTyped ==
    ASSUME TypeOK, WorkerInv, TokenInv, TransitionInv, Other
    PROVE  (flags \in Flags)'
<1> USE FieldTypes, BoundsAssumption DEF Flags
<1>1. CASE VideoClean \/ Fail \/ TakeExit \/ Requeue \/ TakeCommandNone
          \/ TakeCommandExecuted \/ FailureServed \/ FailureStops \/ PostStopped
          \/ RequestThaws \/ RequestFrozen \/ RequestRefused \/ LaunchSession
          \/ LaunchBackend \/ LaunchRefused \/ ConnectRefused \/ Ended \/ BackendReady
          \/ TransportFails \/ Sample \/ RenderFails \/ Wait \/ LinkUp \/ VideoStart
          \/ VideoStop \/ VideoDrained
  <2>1. UNCHANGED flags
    BY <1>1 DEF VideoClean, Fail, TakeExit, Requeue, TakeCommandNone, TakeCommandHead,
           TakeCommandExecuted, FailureServed, FailureHead, FailureStops, PostStopped,
           RequestThaws, RequestHead, RequestFrozen, RequestRefused, LaunchSession,
           LaunchHead, LaunchBackend, LaunchRefused, LaunchFailsHead, ConnectRefused, Ended,
           BackendReady, TransportFails, Sample, RenderFails, Wait, LinkUp, VideoStart,
           VideoStop, VideoDrained
  <2> QED
    BY <2>1
<1>2. CASE TakeRevoked
  BY <1>2 DEF TakeRevoked, TakeHead
<1>3. CASE TakeExecuted
  BY <1>3 DEF TakeExecuted, TakeHead
<1>4. CASE TakeEnded
  BY <1>4 DEF TakeEnded, TakeHead
<1>5. CASE TakeServed
  BY <1>5 DEF TakeServed, TakeHead
<1>6. CASE TakeLaunched
  BY <1>6 DEF TakeLaunched, TakeHead
<1>7. CASE Stopped
  BY <1>7 DEF Stopped
<1>8. CASE StartStreaming
  BY <1>8 DEF StartStreaming, StartHead
<1>9. CASE StartOther
  BY <1>9 DEF StartOther, StartHead
<1>10. CASE BackendFails
  BY <1>10 DEF BackendFails
<1>11. CASE Leave
  BY <1>11 DEF Leave
<1>12. CASE Rejected
  BY <1>12 DEF Rejected
<1>13. CASE PinRequired
  BY <1>13 DEF PinRequired
<1>14. CASE LinkDown
  BY <1>14 DEF LinkDown
<1>15. ASSUME NEW t \in Transports, Accepted(t)
      PROVE  (flags \in Flags)'
  BY <1>15 DEF Accepted
<1> QED
  BY <1>1, <1>2, <1>3, <1>4, <1>5, <1>6, <1>7, <1>8, <1>9, <1>10, <1>11, <1>12, <1>13, <1>14,
     <1>15, OtherSteps

\* the video pipeline,
LEMMA MediaTyped ==
    ASSUME TypeOK, WorkerInv, TokenInv, TransitionInv, Other
    PROVE  (media \in MediaRecords)'
<1> USE FieldTypes, BoundsAssumption DEF MediaRecords
<1>1. CASE VideoClean \/ Fail \/ Stopped \/ Requeue \/ TakeServed \/ TakeLaunched
          \/ TakeCommandNone \/ FailureServed \/ StartStreaming \/ StartOther
          \/ PostStopped \/ RequestFrozen \/ RequestRefused \/ LaunchSession
          \/ LaunchBackend \/ BackendFails \/ Ended \/ BackendReady \/ Sample
          \/ RenderFails \/ Wait \/ Rejected \/ PinRequired \/ LinkUp \/ LinkDown
          \/ (\E t \in Transports : Accepted(t))
  <2>1. UNCHANGED media
    BY <1>1 DEF VideoClean, Fail, Stopped, Requeue, TakeServed, TakeHead, TakeLaunched,
           TakeCommandNone, TakeCommandHead, FailureServed, FailureHead, StartStreaming,
           StartHead, StartOther, PostStopped, RequestFrozen, RequestHead, RequestRefused,
           LaunchSession, LaunchHead, LaunchBackend, BackendFails, Ended, BackendReady,
           Sample, RenderFails, Wait, Rejected, PinRequired, LinkUp, LinkDown, Accepted
  <2> QED
    BY <2>1
<1>2. CASE TakeExit
  BY <1>2 DEF TakeExit
<1>3. CASE TakeRevoked
  BY <1>3 DEF TakeRevoked, TakeHead
<1>4. CASE TakeExecuted
  BY <1>4 DEF TakeExecuted, TakeHead
<1>5. CASE TakeEnded
  BY <1>5 DEF TakeEnded, TakeHead
<1>6. CASE TakeCommandExecuted
  BY <1>6 DEF TakeCommandExecuted, TakeCommandHead
<1>7. CASE FailureStops
  BY <1>7 DEF FailureStops, FailureHead
<1>8. CASE RequestThaws
  BY <1>8 DEF RequestThaws, RequestHead
<1>9. CASE LaunchRefused
  BY <1>9 DEF LaunchRefused, LaunchFailsHead
<1>10. CASE ConnectRefused
  BY <1>10 DEF ConnectRefused, LaunchFailsHead
<1>11. CASE TransportFails
  BY <1>11 DEF TransportFails
<1>12. CASE Leave
  BY <1>12 DEF Leave
<1>13. CASE VideoStart
  BY <1>13 DEF VideoStart
<1>14. CASE VideoStop
  BY <1>14 DEF VideoStop
<1>15. CASE VideoDrained
  BY <1>15 DEF VideoDrained
<1> QED
  BY <1>1, <1>2, <1>3, <1>4, <1>5, <1>6, <1>7, <1>8, <1>9, <1>10, <1>11, <1>12, <1>13, <1>14,
     <1>15, OtherSteps

\* the worker's record, whose session numbers the requests bound,
LEMMA WorkerTyped ==
    ASSUME TypeOK, WorkerInv, TokenInv, TransitionInv, Other
    PROVE  (worker \in WorkerRecords)'
<1> USE FieldTypes, BoundsAssumption DEF WorkerRecords
<1>1. CASE Fail \/ TakeExit \/ Requeue \/ TakeRevoked \/ TakeExecuted \/ TakeEnded
          \/ TakeServed \/ TakeLaunched \/ TakeCommandNone \/ TakeCommandExecuted
          \/ FailureServed \/ FailureStops \/ PostStopped \/ RequestThaws \/ RequestFrozen
          \/ RequestRefused \/ LaunchRefused \/ BackendFails \/ Ended \/ TransportFails
          \/ RenderFails \/ Wait \/ Leave \/ Rejected \/ PinRequired \/ LinkUp \/ LinkDown
          \/ VideoStart \/ VideoStop \/ VideoDrained \/ (\E t \in Transports : Accepted(t))
  <2>1. UNCHANGED worker
    BY <1>1 DEF Fail, TakeExit, Requeue, TakeRevoked, TakeHead, TakeExecuted, TakeEnded,
           TakeServed, TakeLaunched, TakeCommandNone, TakeCommandHead, TakeCommandExecuted,
           FailureServed, FailureHead, FailureStops, PostStopped, RequestThaws, RequestHead,
           RequestFrozen, RequestRefused, LaunchRefused, LaunchFailsHead, BackendFails, Ended,
           TransportFails, RenderFails, Wait, Leave, Rejected, PinRequired, LinkUp, LinkDown,
           VideoStart, VideoStop, VideoDrained, Accepted
  <2> QED
    BY <2>1
<1>2. CASE VideoClean
  BY <1>2 DEF VideoClean
<1>3. CASE Stopped
  BY <1>3 DEF Stopped
<1>4. CASE StartStreaming
  BY <1>4 DEF StartStreaming, StartHead
<1>5. CASE StartOther
  BY <1>5 DEF StartOther, StartHead
<1>6. CASE LaunchSession
  BY <1>6, SessionNumber DEF LaunchSession, LaunchHead
<1>7. CASE LaunchBackend
  BY <1>7 DEF LaunchBackend, LaunchHead
<1>8. CASE ConnectRefused
  BY <1>8, SessionNumber DEF ConnectRefused, LaunchFailsHead
<1>9. CASE BackendReady
  BY <1>9, SessionNumber DEF BackendReady
<1>10. CASE Sample
  BY <1>10 DEF Sample
<1> QED
  BY <1>1, <1>2, <1>3, <1>4, <1>5, <1>6, <1>7, <1>8, <1>9, <1>10, OtherSteps

\* the client and the link,
LEMMA IhsTyped ==
    ASSUME TypeOK, WorkerInv, TokenInv, TransitionInv, Other
    PROVE  (ihs \in IhsRecords)'
<1> USE FieldTypes, BoundsAssumption DEF IhsRecords
<1>1. CASE VideoClean \/ Fail \/ Requeue \/ TakeRevoked \/ TakeEnded \/ TakeServed
          \/ TakeLaunched \/ TakeCommandNone \/ FailureServed \/ FailureStops
          \/ StartStreaming \/ StartOther \/ PostStopped \/ RequestRefused \/ Ended
          \/ TransportFails \/ Sample \/ RenderFails \/ Wait \/ VideoStart \/ VideoStop
          \/ VideoDrained \/ (\E t \in Transports : Accepted(t))
  <2>1. UNCHANGED ihs
    BY <1>1 DEF VideoClean, Fail, Requeue, TakeRevoked, TakeHead, TakeEnded, TakeServed,
           TakeLaunched, TakeCommandNone, TakeCommandHead, FailureServed, FailureHead,
           FailureStops, StartStreaming, StartHead, StartOther, PostStopped, RequestRefused,
           Ended, TransportFails, Sample, RenderFails, Wait, VideoStart, VideoStop,
           VideoDrained, Accepted
  <2> QED
    BY <2>1
<1>2. CASE TakeExit
  BY <1>2 DEF TakeExit
<1>3. CASE TakeExecuted
  BY <1>3 DEF TakeExecuted, TakeHead
<1>4. CASE TakeCommandExecuted
  BY <1>4 DEF TakeCommandExecuted, TakeCommandHead
<1>5. CASE Stopped
  BY <1>5 DEF Stopped
<1>6. CASE RequestThaws
  BY <1>6 DEF RequestThaws, RequestHead
<1>7. CASE RequestFrozen
  BY <1>7 DEF RequestFrozen, RequestHead
<1>8. CASE LaunchSession
  BY <1>8 DEF LaunchSession, LaunchHead
<1>9. CASE LaunchBackend
  BY <1>9 DEF LaunchBackend, LaunchHead
<1>10. CASE LaunchRefused
  BY <1>10 DEF LaunchRefused, LaunchFailsHead
<1>11. CASE ConnectRefused
  BY <1>11 DEF ConnectRefused, LaunchFailsHead
<1>12. CASE BackendFails
  BY <1>12 DEF BackendFails
<1>13. CASE BackendReady
  BY <1>13 DEF BackendReady
<1>14. CASE Leave
  BY <1>14 DEF Leave
<1>15. CASE Rejected
  BY <1>15 DEF Rejected
<1>16. CASE PinRequired
  BY <1>16 DEF PinRequired
<1>17. CASE LinkUp
  BY <1>17 DEF LinkUp
<1>18. CASE LinkDown
  BY <1>18 DEF LinkDown
<1> QED
  BY <1>1, <1>2, <1>3, <1>4, <1>5, <1>6, <1>7, <1>8, <1>9, <1>10, <1>11, <1>12, <1>13, <1>14,
     <1>15, <1>16, <1>17, <1>18, OtherSteps

\* and the event queue.
LEMMA EventsTyped ==
    ASSUME TypeOK, WorkerInv, TokenInv, TransitionInv, Other
    PROVE  (events \in Seq(EventRecords))'
<1> USE FieldTypes, BoundsAssumption DEF EventRecords, EventTypes, Event
<1>1. CASE VideoClean \/ Fail \/ TakeExit \/ Stopped \/ Requeue \/ TakeRevoked
          \/ TakeExecuted \/ TakeEnded \/ TakeServed \/ TakeLaunched \/ TakeCommandNone
          \/ TakeCommandExecuted \/ StartStreaming \/ StartOther \/ RequestThaws
          \/ RequestFrozen \/ RequestRefused \/ LaunchSession \/ LaunchBackend
          \/ LaunchRefused \/ ConnectRefused \/ BackendFails \/ BackendReady
          \/ TransportFails \/ RenderFails \/ Wait \/ Rejected \/ LinkUp \/ LinkDown
          \/ VideoStart \/ VideoStop \/ VideoDrained \/ (\E t \in Transports : Accepted(t))
  <2>1. UNCHANGED events
    BY <1>1 DEF VideoClean, Fail, TakeExit, Stopped, Requeue, TakeRevoked, TakeHead,
           TakeExecuted, TakeEnded, TakeServed, TakeLaunched, TakeCommandNone,
           TakeCommandHead, TakeCommandExecuted, StartStreaming, StartHead, StartOther,
           RequestThaws, RequestHead, RequestFrozen, RequestRefused, LaunchSession,
           LaunchHead, LaunchBackend, LaunchRefused, LaunchFailsHead, ConnectRefused,
           BackendFails, BackendReady, TransportFails, RenderFails, Wait, Rejected, LinkUp,
           LinkDown, VideoStart, VideoStop, VideoDrained, Accepted
  <2> QED
    BY <2>1
<1>2. CASE PinRequired
  BY <1>2 DEF PinRequired
<1>3. CASE FailureServed
  BY <1>3 DEF FailureServed, FailureHead
<1>4. CASE FailureStops
  BY <1>4 DEF FailureStops, FailureHead
<1>5. CASE PostStopped
  BY <1>5 DEF PostStopped
<1>6. CASE Ended
  <2>1. CASE events' = Append(events, Event("STOPPED", worker.active.gen))
    BY <2>1
  <2>2. CASE events' = Append(events, Event("DISCONNECTED", worker.active.gen))
    BY <2>2
  <2> QED
    BY <1>6, <2>1, <2>2 DEF Ended
<1>7. CASE Sample
  <2>1. CASE events' = Append(events, Event("FIRST_FRAME", worker.active.gen))
    BY <2>1
  <2>2. CASE events' = events
    BY <2>2
  <2> QED
    BY <1>7, <2>1, <2>2 DEF Sample
<1>8. CASE Leave
  BY <1>8 DEF Leave
<1> QED
  BY <1>1, <1>2, <1>3, <1>4, <1>5, <1>6, <1>7, <1>8, OtherSteps

\* What a step of the worker or a callback does to the commands, the facts, the
\* events and the freeze, beside taking, returning or starting a command.
FactsKept ==
    /\ facts'.request_id = facts.request_id
    /\ facts.requests_closed => facts'.requests_closed
    /\ facts.video_clean => facts'.video_clean

Posted(type) ==
    /\ type \in EventTypes
    /\ events' = Append(events, Event(type, worker.active.gen))
    /\ type = "PIN" => PinRequired
    /\ type = "STOPPED" => wpc = "stopped" \/ worker.active.type = "STREAM"

EventsKept == events' = events \/ \E type \in EventTypes : Posted(type)

FrozenKept ==
    media.frozen =>
        media'.frozen \/ (wpc = "request" /\ pending = NoCommand /\ ~exitRequested)

Quiet ==
    /\ pending' = pending /\ wcmd' \in {wcmd, NoCommand, Command("EXIT", 0)}
    /\ FactsKept /\ worker'.active = worker.active
    /\ wpc' \in {"request", "stopped"} => wpc' = wpc
    /\ EventsKept /\ FrozenKept

Taken ==
    /\ ~exitRequested /\ pending' = NoCommand /\ wcmd' = pending
    /\ facts' = facts /\ worker' = worker /\ wpc' = "join"
    /\ events' = events /\ media'.frozen

\* Outside a start the published facts only accumulate.
LEMMA FactsStep ==
    ASSUME TypeOK, WorkerInv, Other, ~StartStreaming, ~StartOther
    PROVE  FactsKept
<1> USE FieldTypes DEF Facts, FactsKept
<1>1. CASE TakeExit \/ Requeue \/ TakeRevoked \/ TakeExecuted \/ TakeEnded \/ TakeServed
          \/ TakeLaunched \/ TakeCommandNone \/ TakeCommandExecuted \/ FailureServed
          \/ FailureStops \/ PostStopped \/ RequestThaws \/ RequestFrozen \/ RequestRefused
          \/ LaunchBackend \/ LaunchRefused \/ BackendFails \/ Ended \/ TransportFails
          \/ RenderFails \/ Wait \/ Rejected \/ PinRequired \/ LinkDown \/ VideoDrained
          \/ (\E t \in Transports : Accepted(t))
  <2>1. UNCHANGED facts
    BY <1>1 DEF TakeExit, Requeue, TakeRevoked, TakeHead, TakeExecuted, TakeEnded, TakeServed,
           TakeLaunched, TakeCommandNone, TakeCommandHead, TakeCommandExecuted, FailureServed,
           FailureHead, FailureStops, PostStopped, RequestThaws, RequestHead, RequestFrozen,
           RequestRefused, LaunchBackend, LaunchHead, LaunchRefused, LaunchFailsHead,
           BackendFails, Ended, TransportFails, RenderFails, Wait, Rejected, PinRequired,
           LinkDown, VideoDrained, Accepted
  <2> QED
    BY <2>1
<1>2. CASE VideoClean
  BY <1>2 DEF VideoClean
<1>3. CASE Fail
  BY <1>3 DEF Fail
<1>4. CASE Stopped
  BY <1>4 DEF Stopped
<1>5. CASE LaunchSession
  BY <1>5 DEF LaunchSession, LaunchHead
<1>6. CASE ConnectRefused
  BY <1>6 DEF ConnectRefused, LaunchFailsHead
<1>7. CASE BackendReady
  BY <1>7 DEF BackendReady
<1>8. CASE Sample
  BY <1>8 DEF Sample
<1>9. CASE Leave
  BY <1>9 DEF Leave
<1>10. CASE LinkUp
  BY <1>10 DEF LinkUp
<1>11. CASE VideoStart
  <2>1. CASE UNCHANGED facts
    BY <2>1
  <2>2. CASE facts.session_id = worker.session
    BY <1>11, <2>2 DEF VideoStart
  <2> QED
    BY <1>11, <2>1, <2>2 DEF VideoStart
<1>12. CASE VideoStop
  <2>1. CASE UNCHANGED facts
    BY <2>1
  <2>2. CASE facts.session_id = worker.session
    BY <1>12, <2>2 DEF VideoStop
  <2> QED
    BY <1>12, <2>1, <2>2 DEF VideoStop
<1> QED
  BY <1>1, <1>2, <1>3, <1>4, <1>5, <1>6, <1>7, <1>8, <1>9, <1>10, <1>11, <1>12, OtherSteps

\* An event carries the active generation; a PIN is asked for by a pending
\* request, and STOPPED acknowledges a command or ends a stream.
LEMMA EventsStep ==
    ASSUME TypeOK, WorkerInv, Other
    PROVE  EventsKept
<1> USE DEF EventsKept, Posted, EventTypes
<1>1. CASE VideoClean \/ Fail \/ TakeExit \/ Stopped \/ Requeue \/ TakeRevoked
          \/ TakeExecuted \/ TakeEnded \/ TakeServed \/ TakeLaunched \/ TakeCommandNone
          \/ TakeCommandExecuted \/ StartStreaming \/ StartOther \/ RequestThaws
          \/ RequestFrozen \/ RequestRefused \/ LaunchSession \/ LaunchBackend
          \/ LaunchRefused \/ ConnectRefused \/ BackendFails \/ BackendReady
          \/ TransportFails \/ RenderFails \/ Wait \/ Rejected \/ LinkUp \/ LinkDown
          \/ VideoStart \/ VideoStop \/ VideoDrained \/ (\E t \in Transports : Accepted(t))
  <2>1. events' = events
    BY <1>1 DEF VideoClean, Fail, TakeExit, Stopped, Requeue, TakeRevoked, TakeHead,
           TakeExecuted, TakeEnded, TakeServed, TakeLaunched, TakeCommandNone,
           TakeCommandHead, TakeCommandExecuted, StartStreaming, StartHead, StartOther,
           RequestThaws, RequestHead, RequestFrozen, RequestRefused, LaunchSession,
           LaunchHead, LaunchBackend, LaunchRefused, LaunchFailsHead, ConnectRefused,
           BackendFails, BackendReady, TransportFails, RenderFails, Wait, Rejected, LinkUp,
           LinkDown, VideoStart, VideoStop, VideoDrained, Accepted
  <2> QED
    BY <2>1
<1>2. CASE PinRequired
  BY <1>2 DEF PinRequired
<1>3. CASE FailureServed
  BY <1>3 DEF FailureServed, FailureHead
<1>4. CASE FailureStops
  BY <1>4 DEF FailureStops, FailureHead
<1>5. CASE PostStopped
  BY <1>5 DEF PostStopped
<1>6. CASE Ended
  <2>1. worker.active.type = "STREAM"
    BY <1>6 DEF Ended, WorkerInv, Registers
  <2> QED
    BY <1>6, <2>1 DEF Ended
<1>7. CASE Sample
  BY <1>7 DEF Sample
<1>8. CASE Leave
  BY <1>8 DEF Leave
<1> QED
  BY <1>1, <1>2, <1>3, <1>4, <1>5, <1>6, <1>7, <1>8, OtherSteps

\* Only a request under way with an empty mailbox thaws the video.
LEMMA FrozenStep ==
    ASSUME TypeOK, Other
    PROVE  FrozenKept
<1> USE FieldTypes DEF MediaRecords, FrozenKept
<1>1. CASE VideoClean \/ Fail \/ Stopped \/ Requeue \/ TakeServed \/ TakeLaunched
          \/ TakeCommandNone \/ FailureServed \/ StartStreaming \/ StartOther
          \/ PostStopped \/ RequestFrozen \/ RequestRefused \/ LaunchSession
          \/ LaunchBackend \/ BackendFails \/ Ended \/ BackendReady \/ Sample
          \/ RenderFails \/ Wait \/ Rejected \/ PinRequired \/ LinkUp \/ LinkDown
          \/ (\E t \in Transports : Accepted(t))
  <2>1. UNCHANGED media
    BY <1>1 DEF VideoClean, Fail, Stopped, Requeue, TakeServed, TakeHead, TakeLaunched,
           TakeCommandNone, TakeCommandHead, FailureServed, FailureHead, StartStreaming,
           StartHead, StartOther, PostStopped, RequestFrozen, RequestHead, RequestRefused,
           LaunchSession, LaunchHead, LaunchBackend, BackendFails, Ended, BackendReady,
           Sample, RenderFails, Wait, Rejected, PinRequired, LinkUp, LinkDown, Accepted
  <2> QED
    BY <2>1
<1>2. CASE TakeExit
  BY <1>2 DEF TakeExit
<1>3. CASE TakeRevoked
  BY <1>3 DEF TakeRevoked, TakeHead
<1>4. CASE TakeExecuted
  BY <1>4 DEF TakeExecuted, TakeHead
<1>5. CASE TakeEnded
  BY <1>5 DEF TakeEnded, TakeHead
<1>6. CASE TakeCommandExecuted
  BY <1>6 DEF TakeCommandExecuted, TakeCommandHead
<1>7. CASE FailureStops
  BY <1>7 DEF FailureStops, FailureHead
<1>8. CASE RequestThaws
  BY <1>8 DEF RequestThaws, RequestHead
<1>9. CASE LaunchRefused
  BY <1>9 DEF LaunchRefused, LaunchFailsHead
<1>10. CASE ConnectRefused
  BY <1>10 DEF ConnectRefused, LaunchFailsHead
<1>11. CASE TransportFails
  BY <1>11 DEF TransportFails
<1>12. CASE Leave
  BY <1>12 DEF Leave
<1>13. CASE VideoStart
  BY <1>13 DEF VideoStart
<1>14. CASE VideoStop
  BY <1>14 DEF VideoStop
<1>15. CASE VideoDrained
  BY <1>15 DEF VideoDrained
<1> QED
  BY <1>1, <1>2, <1>3, <1>4, <1>5, <1>6, <1>7, <1>8, <1>9, <1>10, <1>11, <1>12, <1>13, <1>14,
     <1>15, OtherSteps

\* Outside taking, returning and starting a command the mailbox stays.
LEMMA CommandsStep ==
    ASSUME TypeOK, Other, ~StartStreaming, ~StartOther, ~Requeue
    PROVE  Taken \/ (pending' = pending /\ wcmd' \in {wcmd, NoCommand, Command("EXIT", 0)})
<1>1. CASE VideoClean \/ Fail \/ Stopped \/ FailureServed \/ FailureStops \/ PostStopped
          \/ RequestThaws \/ RequestFrozen \/ RequestRefused \/ LaunchSession
          \/ LaunchBackend \/ LaunchRefused \/ ConnectRefused \/ BackendFails \/ Ended
          \/ BackendReady \/ TransportFails \/ Sample \/ RenderFails \/ Wait \/ Leave
          \/ Rejected \/ PinRequired \/ LinkUp \/ LinkDown \/ VideoStart \/ VideoStop
          \/ VideoDrained \/ (\E t \in Transports : Accepted(t)) \/ TakeExit
          \/ TakeCommandNone \/ TakeCommandExecuted
  <2>1. pending' = pending /\ wcmd' \in {wcmd, NoCommand, Command("EXIT", 0)}
    BY <1>1 DEF VideoClean, Fail, Stopped, FailureServed, FailureHead, FailureStops, PostStopped,
           RequestThaws, RequestHead, RequestFrozen, RequestRefused, LaunchSession,
           LaunchHead, LaunchBackend, LaunchRefused, LaunchFailsHead, ConnectRefused,
           BackendFails, Ended, BackendReady, TransportFails, Sample, RenderFails, Wait,
           Leave, Rejected, PinRequired, LinkUp, LinkDown, VideoStart, VideoStop,
           VideoDrained, Accepted, TakeExit, TakeCommandNone, TakeCommandHead,
           TakeCommandExecuted
  <2> QED
    BY <2>1
<1>2. CASE TakeEnded \/ TakeServed \/ TakeLaunched
  <2>1. pending' = pending /\ wcmd' \in {wcmd, NoCommand}
    BY <1>2 DEF TakeEnded, TakeHead, TakeServed, TakeLaunched
  <2> QED
    BY <2>1
<1>3. CASE TakeRevoked \/ TakeExecuted
  BY <1>3, FieldTypes DEF TakeRevoked, TakeExecuted, TakeHead, Taken, MediaRecords
<1> QED
  BY <1>1, <1>2, <1>3, OtherSteps

\* Only a start enters the request and the acknowledgement, and names what is
\* active.
LEMMA PlaceStep ==
    ASSUME TypeOK, WorkerInv, Other, ~StartStreaming, ~StartOther
    PROVE  /\ wpc' \in {"request", "stopped"} => wpc' = wpc
           /\ worker'.active = worker.active
<1>1. CASE Fail \/ TakeExit \/ Requeue \/ TakeRevoked \/ TakeExecuted \/ TakeEnded
          \/ TakeServed \/ TakeLaunched \/ TakeCommandNone \/ TakeCommandExecuted
          \/ FailureServed \/ FailureStops \/ PostStopped \/ RequestThaws \/ RequestFrozen
          \/ RequestRefused \/ LaunchRefused \/ BackendFails \/ Ended \/ TransportFails
          \/ RenderFails \/ Wait \/ Leave \/ Rejected \/ PinRequired \/ LinkUp \/ LinkDown
          \/ VideoStart \/ VideoStop \/ VideoDrained \/ (\E t \in Transports : Accepted(t))
  <2>1. UNCHANGED worker /\ (wpc' \in {"request", "stopped"} => wpc' = wpc)
    BY <1>1 DEF Fail, TakeExit, Requeue, TakeRevoked, TakeHead, TakeExecuted, TakeEnded,
           TakeServed, TakeLaunched, TakeCommandNone, TakeCommandHead, TakeCommandExecuted,
           FailureServed, FailureHead, FailureStops, PostStopped, RequestThaws, RequestHead,
           RequestFrozen, RequestRefused, LaunchRefused, LaunchFailsHead, BackendFails, Ended,
           TransportFails, RenderFails, Wait, Leave, Rejected, PinRequired, LinkUp, LinkDown,
           VideoStart, VideoStop, VideoDrained, Accepted
  <2> QED
    BY <2>1
<1>2. CASE VideoClean
  BY <1>2, FieldTypes DEF WorkerRecords, VideoClean
<1>3. CASE Stopped
  BY <1>3, FieldTypes DEF WorkerRecords, Stopped, WorkerInv, Registers
<1>4. CASE LaunchSession
  BY <1>4, FieldTypes DEF WorkerRecords, LaunchSession, LaunchHead
<1>5. CASE LaunchBackend
  BY <1>5, FieldTypes DEF WorkerRecords, LaunchBackend, LaunchHead
<1>6. CASE ConnectRefused
  BY <1>6, FieldTypes DEF WorkerRecords, ConnectRefused, LaunchFailsHead
<1>7. CASE BackendReady
  BY <1>7, FieldTypes DEF WorkerRecords, BackendReady
<1>8. CASE Sample
  BY <1>8, FieldTypes DEF WorkerRecords, Sample
<1> QED
  BY <1>1, <1>2, <1>3, <1>4, <1>5, <1>6, <1>7, <1>8, OtherSteps

\* The main thread's variables and the exit flag are the main thread's.
LEMMA MainVarsStep ==
    ASSUME Other
    PROVE  UNCHANGED mainVars /\ exitRequested' = exitRequested
  BY OtherSteps DEF VideoClean, Fail, TakeExit, Stopped, Requeue, TakeRevoked, TakeHead,
     TakeExecuted, TakeEnded, TakeServed, TakeLaunched, TakeCommandNone, TakeCommandHead,
     TakeCommandExecuted, FailureServed, FailureHead, FailureStops, StartStreaming, StartHead,
     StartOther, PostStopped, RequestThaws, RequestHead, RequestFrozen, RequestRefused,
     LaunchSession, LaunchHead, LaunchBackend, LaunchRefused, LaunchFailsHead, ConnectRefused,
     BackendFails, Ended, BackendReady, TransportFails, Sample, RenderFails, Wait, Leave,
     Rejected, PinRequired, LinkUp, LinkDown, VideoStart, VideoStop, VideoDrained, Accepted

\* The steps beside the main thread's, in five kinds.
LEMMA OtherKinds ==
    ASSUME TypeOK, WorkerInv, Other
    PROVE  /\ UNCHANGED mainVars /\ exitRequested' = exitRequested
           /\ Quiet \/ Taken \/ Requeue \/ StartStreaming \/ StartOther
<1>1. CASE StartStreaming \/ StartOther \/ Requeue
  BY <1>1, MainVarsStep
<1>2. CASE ~StartStreaming /\ ~StartOther /\ ~Requeue
  BY <1>2, MainVarsStep, FactsStep, EventsStep, FrozenStep, CommandsStep, PlaceStep DEF Quiet
<1> QED
  BY <1>1, <1>2

-----------------------------------------------------------------------------
(* The main thread, branches apart.                                        *)

USE DEF Acted, Close

\* The owner keeps the device: its evidence may grow by what the snapshot says,
\* and it stops running only when the snapshot says so.
AppKept ==
    /\ app' \in Life!Lifecycle
    /\ app'.request_id = app.request_id /\ app'.last_request_id = app.last_request_id
    /\ app'.pending_request_id = app.pending_request_id
    /\ app'.exit_requested = app.exit_requested
    /\ app.requests_closed => app'.requests_closed
    /\ app.protocol_closed => app'.protocol_closed
    /\ app.video_clean => app'.video_clean
    /\ app'.requests_closed => app.requests_closed \/ snap.requests_closed
    /\ app'.protocol_closed => app.protocol_closed \/ snap.protocol_closed
    /\ app'.video_clean => app.video_clean \/ snap.video_clean
    /\ ~Life!Running(app) => app'.phase = app.phase
    /\ Life!Running(app) => app'.phase \in {"STARTING", "STREAMING", "STOPPING"}
    /\ (Life!Running(app) /\ ~Life!Running(app')) => snap.failed \/ snap.requests_closed
    /\ Life!Running(app') =>
           ~app'.requests_closed /\ ~app'.protocol_closed /\ ~app'.video_clean

\* The owner is released with complete evidence, to the intent that waits.
AppReleased ==
    /\ app' \in Life!Lifecycle
    /\ app.request_id # 0 /\ ~app.exit_requested /\ ~app'.exit_requested
    /\ app.requests_closed \/ snap.requests_closed
    /\ app.protocol_closed \/ snap.protocol_closed
    /\ app.video_clean \/ snap.video_clean
    /\ app'.request_id = app.pending_request_id /\ app'.pending_request_id = 0
    /\ app'.last_request_id = app.last_request_id
    /\ app.pending_request_id = 0 => app'.phase = "IDLE" /\ Life!Cleaned(app')
    /\ app.pending_request_id # 0 =>
           /\ ~Life!Running(app) /\ app'.phase = "STARTING"
           /\ ~app'.requests_closed /\ ~app'.protocol_closed /\ ~app'.video_clean

ApplyHead ==
    /\ mpc = "apply" /\ snap' = FactsOf(0) /\ (AppKept \/ AppReleased)
    /\ UNCHANGED <<replacement, exitRequested, events, facts, flags, workerVars, ihs>>

ApplyFails ==
    /\ ApplyHead /\ Life!Running(app) /\ mpc' = "submitFailed"
    /\ Close(Command("STOP", snap.request_id)) /\ UNCHANGED ui
ApplyStarts ==
    /\ ApplyHead /\ AppReleased /\ app.pending_request_id # 0 /\ pending = NoCommand
    /\ mpc' = "input" /\ pending' = Command("STREAM", app.pending_request_id)
    /\ UNCHANGED <<ui, out, media>>
ApplyCrowded ==
    /\ ApplyHead /\ ~(snap.failed /\ Life!Running(app)) /\ mpc' = "input"
    /\ ui' = UiError(ui) /\ UNCHANGED <<pending, out, media>>
ApplyQuiet ==
    /\ ApplyHead /\ ~(snap.failed /\ Life!Running(app)) /\ mpc' = "input"
    /\ UNCHANGED <<ui, pending, out, media>>

AskHead ==
    /\ Acted /\ Fresh /\ ui.page \in {"HOME", "ERROR"}
AskRefused ==
    /\ AskHead /\ mpc' = "events"
    /\ ui' = UiError([ui EXCEPT !.generation = NextGen, !.page = "CONNECTING"])
    /\ UNCHANGED <<app, replacement, pending, out, media>>
AskWaits ==
    /\ AskHead /\ Life!StartAccepted(app, NextGen) /\ app.phase # "IDLE" /\ mpc' = "submit"
    /\ ui' = [ui EXCEPT !.generation = NextGen, !.page = "CONNECTING"]
    /\ app' = Life!RequestStart(app, NextGen) /\ replacement' = NextGen
    /\ Close(Command("STOP", NextGen))
AskAdmitted ==
    /\ AskHead /\ Life!StartAccepted(app, NextGen) /\ app.phase = "IDLE" /\ mpc' = "events"
    /\ ui' = [ui EXCEPT !.generation = NextGen, !.page = "CONNECTING"]
    /\ app' = Life!RequestStart(app, NextGen)
    /\ pending = NoCommand /\ pending' = Command("STREAM", NextGen)
    /\ UNCHANGED <<replacement, out, media>>
AskCrowded ==
    /\ AskHead /\ Life!StartAccepted(app, NextGen) /\ app.phase = "IDLE" /\ mpc' = "events"
    /\ ui' = UiError([ui EXCEPT !.generation = NextGen, !.page = "CONNECTING"])
    /\ app' = Life!RequestStart(app, NextGen)
    /\ UNCHANGED <<pending, replacement, out, media>>

PinHead ==
    /\ Acted /\ ui.page = "PIN" /\ mpc' = "events"
    /\ UNCHANGED <<app, replacement, out, media>>
PinSubmitted ==
    /\ PinHead /\ app.phase = "STARTING" /\ app.request_id = ui.generation
    /\ pending = NoCommand /\ ui' = [ui EXCEPT !.page = "CONNECTING"]
    /\ pending' = [Command("STREAM", ui.generation) EXCEPT !.pin = TRUE]
PinRefused ==
    PinHead /\ ui' = UiError([ui EXCEPT !.page = "CONNECTING"]) /\ UNCHANGED pending

\* Back and ConfirmStop; ConfirmExit differs in its page and its command.
StopHead ==
    /\ Acted /\ Fresh /\ ui.page \in {"CONNECTING", "PIN", "ERROR", "DISCONNECT"}
    /\ ui' = [ui EXCEPT !.generation = NextGen, !.page = "STOPPING"]
    /\ app' = Life!RequestStop(app) /\ mpc' = "submit" /\ UNCHANGED replacement
StopAsked == StopHead /\ Close(Command("STOP", NextGen))
CancelAsked == StopHead /\ Close(Command("CANCEL", NextGen))
ExitAsked ==
    /\ Acted /\ Fresh /\ ui.page = "EXIT"
    /\ ui' = [ui EXCEPT !.generation = NextGen, !.page = "CLOSING", !.closing = TRUE]
    /\ app' = Life!RequestExit(app) /\ mpc' = "submit" /\ UNCHANGED replacement
    /\ Close(Command("EXIT", NextGen))

\* What ApplyFacts makes of the policy record.
LEMMA AppliedRecord ==
    ASSUME TypeOK, PolicyInv, ApplyFacts
    PROVE  LET a == Observed(app, snap)
               q == snap.requests_closed
               p == snap.protocol_closed
               v == snap.video_clean
               cleaning == Life!CleanupApplies(a, snap.request_id, snap.session_id)
               next == IF cleaning THEN Life!CleanupNext(a, q, p, v) ELSE 0
           IN  /\ AppKept \/ AppReleased
               /\ next # 0 => AppReleased /\ next = app.pending_request_id
<1> DEFINE a == Observed(app, snap)
           q == snap.requests_closed
           p == snap.protocol_closed
           v == snap.video_clean
           cleaning == Life!CleanupApplies(a, snap.request_id, snap.session_id)
           next == IF cleaning THEN Life!CleanupNext(a, q, p, v) ELSE 0
           all == (a.requests_closed \/ q) /\ (a.protocol_closed \/ p) /\ (a.video_clean \/ v)
<1> SUFFICES (AppKept \/ AppReleased)
             /\ (next # 0 => AppReleased /\ next = app.pending_request_id)
  OBVIOUS
<1>1. /\ app \in Life!Lifecycle /\ snap \in Facts
      /\ q \in BOOLEAN /\ p \in BOOLEAN /\ v \in BOOLEAN
  BY DEF TypeOK, Facts
<1>2. /\ a \in Life!Lifecycle
      /\ a.request_id = app.request_id /\ a.last_request_id = app.last_request_id
      /\ a.pending_request_id \in {0, app.pending_request_id}
      /\ a.exit_requested = app.exit_requested
      /\ a.requests_closed = app.requests_closed
      /\ a.protocol_closed = app.protocol_closed /\ a.video_clean = app.video_clean
      /\ ~Life!Running(app) =>
             a.phase = app.phase /\ a.pending_request_id = app.pending_request_id
      /\ Life!Running(app) => a.phase \in {"STARTING", "STREAMING", "STOPPING"}
      /\ Life!Running(app) /\ a.phase = "STOPPING" => snap.failed \/ snap.requests_closed
  BY <1>1, ObservedFields
<1>3. app' = IF cleaning THEN Life!Cleanup(a, q, p, v) ELSE a
  BY DEF ApplyFacts
<1>4. cleaning => a.phase \in {"STOPPING", "EXITING", "DEVICE_FAILED"}
  BY DEF Life!CleanupApplies
<1>5. /\ Life!Running(app) => app.request_id # 0 /\ app.pending_request_id = 0
                              /\ ~app.requests_closed /\ ~app.protocol_closed
                              /\ ~app.video_clean
      /\ app.phase = "STOPPING" => app.request_id # 0
      /\ app.exit_requested <=> app.phase = "EXITING"
      /\ app.phase # "DEVICE_FAILED"
  BY DEF PolicyInv
<1> HIDE DEF a, cleaning
<1>6. CASE ~cleaning
  <2>1. app' = a /\ next = 0
    BY <1>3, <1>6
  <2>2. AppKept
    BY <1>2, <1>5, <2>1 DEF AppKept
  <2> QED
    BY <2>1, <2>2
<1>7. CASE cleaning
  <2> DEFINE s == Life!Cleanup(a, q, p, v)
             n == Life!CleanupNext(a, q, p, v)
  <2>1. /\ s \in Life!Lifecycle
        /\ s.last_request_id = a.last_request_id
        /\ s.exit_requested = a.exit_requested
        /\ ~all \/ a.exit_requested =>
               /\ n = 0 /\ s.phase = a.phase /\ s.request_id = a.request_id
               /\ s.pending_request_id = a.pending_request_id
               /\ s.requests_closed <=> (a.requests_closed \/ q)
               /\ s.protocol_closed <=> (a.protocol_closed \/ p)
               /\ s.video_clean <=> (a.video_clean \/ v)
        /\ (all /\ ~a.exit_requested /\ a.pending_request_id # 0) =>
               /\ n = a.pending_request_id
               /\ s.phase = "STARTING" /\ s.request_id = a.pending_request_id
               /\ s.pending_request_id = 0
               /\ ~s.requests_closed /\ ~s.protocol_closed /\ ~s.video_clean
        /\ (all /\ ~a.exit_requested /\ a.pending_request_id = 0) =>
               /\ n = 0 /\ s.phase = "IDLE" /\ s.request_id = 0
               /\ s.pending_request_id = 0 /\ Life!Cleaned(s)
    BY <1>1, <1>2, CleanupFields
  <2>2. app' = s /\ next = n
    BY <1>3, <1>7
  <2> HIDE DEF s, n, all, next
  <2>3. CASE ~all \/ a.exit_requested
    <3>1. AppKept
      BY <1>2, <1>4, <1>5, <1>7, <2>1, <2>2, <2>3 DEF AppKept, all
    <3> QED
      BY <2>1, <2>2, <2>3, <3>1
  <2>4. CASE all /\ ~a.exit_requested
    <3>1. a.pending_request_id = app.pending_request_id /\ app.request_id # 0
      BY <1>2, <1>4, <1>5, <1>7, <2>4
    <3>2. /\ app.requests_closed \/ snap.requests_closed
          /\ app.protocol_closed \/ snap.protocol_closed
          /\ app.video_clean \/ snap.video_clean
      BY <1>2, <2>4 DEF all
    <3>3. AppReleased
      BY <1>2, <1>5, <2>1, <2>2, <2>4, <3>1, <3>2 DEF AppReleased
    <3> QED
      BY <2>1, <2>2, <2>4, <3>1, <3>3
  <2> QED
    BY <2>3, <2>4
<1> QED
  BY <1>6, <1>7

\* Applying the facts splits by what it does with the mailbox and the page.
LEMMA ApplyBranches ==
    ASSUME TypeOK, PolicyInv, ApplyFacts
    PROVE  ApplyFails \/ ApplyStarts \/ ApplyCrowded \/ ApplyQuiet
<1> DEFINE a == Observed(app, snap)
           cleaning == Life!CleanupApplies(a, snap.request_id, snap.session_id)
           next == IF cleaning
                   THEN Life!CleanupNext(a, snap.requests_closed, snap.protocol_closed,
                                         snap.video_clean)
                   ELSE 0
           failing == snap.failed /\ Life!Running(app)
<1>1. /\ AppKept \/ AppReleased
      /\ next # 0 => AppReleased /\ next = app.pending_request_id
  BY AppliedRecord
<1>2. /\ ApplyHead
      /\ mpc' = IF failing THEN "submitFailed" ELSE "input"
  BY <1>1 DEF ApplyFacts, ApplyHead
<1>3. CASE failing
  <2>1. Close(Command("STOP", snap.request_id)) /\ UNCHANGED ui
    BY <1>3 DEF ApplyFacts
  <2> QED
    BY <1>2, <1>3, <2>1 DEF ApplyFails
<1>4. CASE ~failing /\ next # 0 /\ replacement = next /\ Admits
  <2>1. pending' = Command("STREAM", next) /\ UNCHANGED <<ui, out, media>>
    BY <1>4 DEF ApplyFacts
  <2> QED
    BY <1>1, <1>2, <1>4, <2>1 DEF ApplyStarts, Admits
<1>5. CASE ~failing /\ next # 0 /\ replacement = next /\ ~Admits
  <2>1. ui' = UiError(ui) /\ UNCHANGED <<pending, out, media>>
    BY <1>5 DEF ApplyFacts
  <2> QED
    BY <1>2, <1>5, <2>1 DEF ApplyCrowded
<1>6. CASE ~failing /\ ~(next # 0 /\ replacement = next)
  <2>1. UNCHANGED <<ui, pending, out, media>>
    BY <1>6 DEF ApplyFacts
  <2> QED
    BY <1>2, <1>6, <2>1 DEF ApplyQuiet
<1> QED
  BY <1>3, <1>4, <1>5, <1>6

\* A stream request is refused, waits behind the owner, is admitted, or is
\* admitted with an occupied mailbox.
LEMMA AskBranches ==
    ASSUME TypeOK, StartStream
    PROVE  AskRefused \/ AskWaits \/ AskAdmitted \/ AskCrowded
<1> DEFINE u == [ui EXCEPT !.generation = NextGen, !.page = "CONNECTING"]
           a == Life!RequestStart(app, NextGen)
<1>1. AskHead /\ DispatchStart(u, Command("STREAM", NextGen))
  BY DEF StartStream, AskHead
<1>2. Command("STREAM", NextGen).gen = NextGen
  BY DEF Command
<1>3. app \in Life!Lifecycle /\ NextGen \in Nat
  BY BoundsAssumption DEF TypeOK, NextGen
<1>4. a.phase = "STARTING" <=> app.phase = "IDLE"
  BY <1>3, StartFields
<1>5. CASE ~Life!StartAccepted(app, NextGen)
  BY <1>1, <1>2, <1>5 DEF DispatchStart, AskRefused
<1>6. CASE Life!StartAccepted(app, NextGen) /\ a.phase # "STARTING"
  BY <1>1, <1>2, <1>4, <1>6 DEF DispatchStart, AskWaits
<1>7. CASE Life!StartAccepted(app, NextGen) /\ a.phase = "STARTING"
  <2>1. /\ ui' = (IF Admits THEN u ELSE UiError(u)) /\ app' = a /\ mpc' = "events"
        /\ pending' = IF Admits THEN Command("STREAM", NextGen) ELSE pending
        /\ UNCHANGED <<replacement, out, media>>
    BY <1>1, <1>2, <1>7 DEF DispatchStart
  <2> QED
    BY <1>1, <1>4, <1>7, <2>1 DEF Admits, AskAdmitted, AskCrowded
<1> QED
  BY <1>5, <1>6, <1>7

\* A PIN is submitted or refused.
LEMMA PinBranches ==
    ASSUME SubmitPin
    PROVE  PinSubmitted \/ PinRefused
<1> DEFINE cmd == [Command("STREAM", ui.generation) EXCEPT !.pin = TRUE]
           go == app.phase = "STARTING" /\ app.request_id = cmd.gen /\ Admits
<1>1. PinHead /\ cmd.gen = ui.generation
  BY DEF SubmitPin, DispatchPin, PinHead, Command
<1>2. CASE go
  BY <1>1, <1>2 DEF SubmitPin, DispatchPin, PinSubmitted, Admits
<1>3. CASE ~go
  BY <1>1, <1>3 DEF SubmitPin, DispatchPin, PinRefused
<1> QED
  BY <1>2, <1>3

\* The three closing commands, named for the command.
LEMMA CloseBranches ==
    /\ Back => CancelAsked
    /\ ConfirmStop => StopAsked
    /\ ConfirmExit => ExitAsked
<1> USE DEF DispatchClose, Command
<1>1. Back => CancelAsked
  BY DEF Back, CancelAsked, StopHead
<1>2. ConfirmStop => StopAsked
  BY DEF ConfirmStop, StopAsked, StopHead
<1>3. ConfirmExit => ExitAsked
  BY DEF ConfirmExit, ExitAsked
<1> QED
  BY <1>1, <1>2, <1>3

\* Every step of the main thread, branches apart.
LEMMA MainSteps ==
    ASSUME TypeOK, PolicyInv, Main
    PROVE  \/ PollEvent \/ ReadFacts \/ SkipFacts
           \/ ApplyFails \/ ApplyStarts \/ ApplyCrowded \/ ApplyQuiet \/ SubmitClosing
           \/ AskRefused \/ AskWaits \/ AskAdmitted \/ AskCrowded
           \/ PinSubmitted \/ PinRefused \/ StopAsked \/ CancelAsked \/ ExitAsked
           \/ Dialog \/ NoInput \/ Quit \/ BeginExit \/ RequestExit \/ Destroy
  BY ApplyBranches, AskBranches, PinBranches, CloseBranches DEF Main, Input

\* What an event may do to the page: the generation never moves, nobody is put
\* on the STOPPING page, the PIN page opens only when its request asks, and the
\* user leaves STOPPING for HOME only with the acknowledgement.
LEMMA UiEventFields ==
    ASSUME NEW u \in [page : Pages, generation : 0 .. MaxGen, streaming : BOOLEAN,
                      closing : BOOLEAN],
           NEW e \in [type : EventTypes, gen : 0 .. MaxGen]
    PROVE  LET v == UiEvent(u, e)
           IN  /\ v \in [page : Pages, generation : 0 .. MaxGen, streaming : BOOLEAN,
                         closing : BOOLEAN]
               /\ v.generation = u.generation
               /\ v.page \in {u.page, "CLOSING", "PIN", "ERROR", "STREAM", "HOME"}
               /\ v.page = "PIN" /\ u.page # "PIN" => e.type = "PIN" /\ e.gen = u.generation
               /\ v.page = "HOME" /\ u.page # "HOME" =>
                      e.type \in {"STOPPED"} /\ e.gen = u.generation
<1> USE DEF Pages, EventTypes
<1>1. CASE e.type = "CLOSED"
  <2>1. UiEvent(u, e) = [u EXCEPT !.closing = TRUE, !.page = "CLOSING"]
    BY <1>1 DEF UiEvent
  <2> QED
    BY <1>1, <2>1
<1>2. CASE e.type # "CLOSED" /\ e.gen # u.generation
  <2>1. UiEvent(u, e) = u
    BY <1>2 DEF UiEvent
  <2> QED
    BY <1>2, <2>1
<1>3. CASE e.type = "PIN" /\ e.gen = u.generation
  <2>1. UiEvent(u, e) = [u EXCEPT !.page = "PIN"]
    BY <1>3 DEF UiEvent
  <2> QED
    BY <1>3, <2>1
<1>4. CASE e.type = "FAILURE" /\ e.gen = u.generation
  <2>1. UiEvent(u, e) = [[u EXCEPT !.streaming = FALSE] EXCEPT !.page = "ERROR"]
    BY <1>4 DEF UiEvent, UiError
  <2> QED
    BY <1>4, <2>1
<1>5. CASE e.type = "FIRST_FRAME" /\ e.gen = u.generation
  <2>1. UiEvent(u, e) \in {u, [u EXCEPT !.page = "STREAM", !.streaming = TRUE]}
    BY <1>5 DEF UiEvent
  <2> QED
    BY <1>5, <2>1
<1>6. CASE e.type \in {"STOPPED", "DISCONNECTED"} /\ e.gen = u.generation
  <2>1. \E p \in {"CLOSING", "ERROR", "HOME"} :
           /\ UiEvent(u, e) = [u EXCEPT !.streaming = FALSE, !.page = p]
           /\ p = "HOME" => e.type = "STOPPED"
    BY <1>6 DEF UiEvent, UiStopped
  <2> QED
    BY <1>6, <2>1
<1> QED
  BY <1>1, <1>2, <1>3, <1>4, <1>5, <1>6

UiRecords == [page : Pages, generation : 0 .. MaxGen, streaming : BOOLEAN, closing : BOOLEAN]

\* The types of the main thread's records.
LEMMA MainFieldTypes ==
    ASSUME TypeOK
    PROVE  /\ ui \in UiRecords /\ app \in Life!Lifecycle
           /\ out \in Commands /\ pending \in Commands /\ snap \in Facts /\ facts \in Facts
           /\ events \in Seq(EventRecords) /\ exitRequested \in BOOLEAN
           /\ snap.request_id \in 0 .. MaxGen
           /\ ui.generation \in 0 .. MaxGen
           /\ 0 \in 0 .. MaxGen /\ FactsOf(0) \in Facts
<1>1. /\ ui \in UiRecords /\ app \in Life!Lifecycle
      /\ out \in Commands /\ pending \in Commands /\ snap \in Facts /\ facts \in Facts
      /\ events \in Seq(EventRecords) /\ exitRequested \in BOOLEAN
  BY DEF TypeOK, UiRecords, EventRecords
<1>2. snap.request_id \in 0 .. MaxGen
  BY <1>1 DEF Facts
<1>3. ui.generation \in 0 .. MaxGen
  BY <1>1 DEF UiRecords
<1>4. 0 \in 0 .. MaxGen /\ FactsOf(0) \in Facts
  BY BoundsAssumption DEF Facts
<1> QED
  BY <1>1, <1>2, <1>3, <1>4

\* A generation the user may still use up.
LEMMA NextGenTyped ==
    ASSUME TypeOK, Fresh
    PROVE  NextGen \in 0 .. MaxGen /\ NextGen # 0
  BY MainFieldTypes, BoundsAssumption DEF Fresh, NextGen

\* The head of a queue that is not empty is an event, and the rest a queue.
LEMMA QueueTyped ==
    ASSUME TypeOK, events # <<>>
    PROVE  Head(events) \in EventRecords /\ Tail(events) \in Seq(EventRecords)
  BY FieldTypes

\* The main thread keeps the type of the user interface,
LEMMA UiTyped ==
    ASSUME TypeOK, PolicyInv, Main
    PROVE  (ui \in UiRecords)'
<1> USE MainFieldTypes DEF UiRecords, Pages, UiError
<1>1. CASE ReadFacts \/ SkipFacts \/ ApplyFails \/ ApplyStarts \/ ApplyQuiet
          \/ SubmitClosing \/ NoInput \/ Quit \/ BeginExit \/ RequestExit \/ Destroy
  <2>1. UNCHANGED ui
    BY <1>1 DEF ReadFacts, SkipFacts, ApplyFails, ApplyHead, ApplyStarts, ApplyQuiet,
           SubmitClosing, NoInput, Quit, BeginExit, RequestExit, Destroy
  <2> QED
    BY <2>1
<1>2. CASE PollEvent
  BY <1>2, QueueTyped, UiEventFields DEF PollEvent, EventRecords
<1>3. CASE ApplyCrowded
  BY <1>3 DEF ApplyCrowded, ApplyHead
<1>4. CASE AskRefused
  BY <1>4, NextGenTyped DEF AskRefused, AskHead
<1>5. CASE AskWaits
  BY <1>5, NextGenTyped DEF AskWaits, AskHead
<1>6. CASE AskAdmitted
  BY <1>6, NextGenTyped DEF AskAdmitted, AskHead
<1>7. CASE AskCrowded
  BY <1>7, NextGenTyped DEF AskCrowded, AskHead
<1>8. CASE PinSubmitted
  BY <1>8 DEF PinSubmitted, PinHead
<1>9. CASE PinRefused
  BY <1>9 DEF PinRefused, PinHead
<1>10. CASE StopAsked
  BY <1>10, NextGenTyped DEF StopAsked, StopHead
<1>11. CASE CancelAsked
  BY <1>11, NextGenTyped DEF CancelAsked, StopHead
<1>12. CASE ExitAsked
  BY <1>12, NextGenTyped DEF ExitAsked
<1>13. CASE Dialog
  <2>1. PICK page \in Pages : ui' = [ui EXCEPT !.page = page]
    BY <1>13 DEF Dialog
  <2> QED
    BY <2>1
<1> QED
  BY <1>1, <1>2, <1>3, <1>4, <1>5, <1>6, <1>7, <1>8, <1>9, <1>10, <1>11, <1>12, <1>13,
     MainSteps

\* ... of the policy record,
LEMMA AppTyped ==
    ASSUME TypeOK, PolicyInv, Main
    PROVE  (app \in Life!Lifecycle)'
<1> USE MainFieldTypes
<1>1. CASE PollEvent \/ ReadFacts \/ SkipFacts \/ SubmitClosing \/ AskRefused
          \/ PinSubmitted \/ PinRefused \/ Dialog \/ NoInput \/ Quit \/ RequestExit
          \/ Destroy
  <2>1. UNCHANGED app
    BY <1>1 DEF PollEvent, ReadFacts, SkipFacts, SubmitClosing, AskRefused, AskHead,
           PinSubmitted, PinHead, PinRefused, Dialog, NoInput, Quit, RequestExit, Destroy
  <2> QED
    BY <2>1
<1>2. CASE ApplyHead
  BY <1>2 DEF ApplyHead, AppKept, AppReleased
<1>3. CASE AskWaits \/ AskAdmitted \/ AskCrowded
  BY <1>3, NextGenTyped, StartFields, BoundsAssumption
     DEF AskWaits, AskAdmitted, AskCrowded, AskHead
<1>4. CASE StopHead
  BY <1>4, StopFields DEF StopHead
<1>5. CASE ExitAsked \/ BeginExit
  BY <1>5, ExitFields DEF ExitAsked, BeginExit, PolicyInv
<1> QED
  BY <1>1, <1>2, <1>3, <1>4, <1>5,
     MainSteps DEF ApplyFails, ApplyStarts, ApplyCrowded, ApplyQuiet, StopAsked, CancelAsked

\* ... of the commands it submits,
LEMMA CommandsTyped ==
    ASSUME TypeOK, PolicyInv, Main
    PROVE  out' \in Commands /\ pending' \in Commands
<1> USE MainFieldTypes DEF Commands, Command, NoCommand, Closers
<1>1. CASE PollEvent \/ ReadFacts \/ SkipFacts \/ ApplyCrowded \/ ApplyQuiet \/ AskRefused
          \/ AskCrowded \/ PinRefused \/ Dialog \/ NoInput \/ Quit \/ BeginExit
          \/ RequestExit \/ Destroy
  <2>1. UNCHANGED <<out, pending>>
    BY <1>1 DEF PollEvent, ReadFacts, SkipFacts, ApplyCrowded, ApplyHead, ApplyQuiet, AskRefused,
           AskHead, AskCrowded, PinRefused, PinHead, Dialog, NoInput, Quit, BeginExit,
           RequestExit, Destroy
  <2> QED
    BY <2>1
<1>2. CASE ApplyFails
  BY <1>2 DEF ApplyFails, ApplyHead
<1>3. CASE ApplyStarts
  <2>1. app.pending_request_id \in 0 .. MaxGen
    <3>1. app.pending_request_id = app.last_request_id /\ app.last_request_id <= ui.generation
      BY <1>3 DEF ApplyStarts, PolicyInv
    <3> QED
      BY <3>1, BoundsAssumption DEF Life!Lifecycle
  <2> QED
    BY <1>3, <2>1 DEF ApplyStarts
<1>4. CASE SubmitClosing
  BY <1>4 DEF SubmitClosing
<1>5. CASE AskWaits
  BY <1>5, NextGenTyped DEF AskWaits, AskHead
<1>6. CASE AskAdmitted
  BY <1>6, NextGenTyped DEF AskAdmitted, AskHead
<1>7. CASE PinSubmitted
  BY <1>7 DEF PinSubmitted, PinHead
<1>8. CASE StopAsked
  BY <1>8, NextGenTyped DEF StopAsked, StopHead
<1>9. CASE CancelAsked
  BY <1>9, NextGenTyped DEF CancelAsked, StopHead
<1>10. CASE ExitAsked
  BY <1>10, NextGenTyped DEF ExitAsked
<1> QED
  BY <1>1, <1>2, <1>3, <1>4, <1>5, <1>6, <1>7, <1>8, <1>9, <1>10, MainSteps

\* ... and of everything else it owns.
LEMMA MainRestTyped ==
    ASSUME TypeOK, PolicyInv, Main
    PROVE  /\ replacement' \in 0 .. MaxGen /\ snap' \in Facts /\ exitRequested' \in BOOLEAN
           /\ events' \in Seq(EventRecords)
           /\ mpc' \in {"events", "apply", "submitFailed", "input", "submit", "exiting",
                        "leaving", "waiting", "joined"}
<1>0. replacement \in 0 .. MaxGen
  BY DEF TypeOK
<1> USE <1>0, MainFieldTypes
<1>1. CASE SkipFacts \/ AskRefused \/ AskAdmitted \/ AskCrowded \/ PinSubmitted
          \/ PinRefused \/ StopAsked \/ CancelAsked \/ ExitAsked \/ Dialog \/ NoInput
          \/ Quit \/ BeginExit \/ Destroy
  <2>1. /\ UNCHANGED <<replacement, snap, exitRequested, events>>
        /\ mpc' \in {"events", "submit", "input", "exiting", "leaving", "joined"}
    BY <1>1 DEF SkipFacts, AskRefused, AskHead, AskAdmitted, AskCrowded, PinSubmitted, PinHead,
           PinRefused, StopAsked, StopHead, CancelAsked, ExitAsked, Dialog, NoInput, Quit,
           BeginExit, Destroy
  <2> QED
    BY <2>1
<1>2. CASE PollEvent
  <2>1. /\ UNCHANGED <<replacement, snap, exitRequested, mpc>>
        /\ events' = Tail(events) /\ events # <<>>
    BY <1>2 DEF PollEvent
  <2> QED
    BY <2>1, QueueTyped DEF TypeOK
<1>3. CASE ReadFacts
  <2>1. /\ snap' \in {facts, snap} /\ mpc' \in {"apply", "input"}
        /\ UNCHANGED <<replacement, exitRequested, events>>
    BY <1>3 DEF ReadFacts, sharedVars
  <2> QED
    BY <2>1
<1>4. CASE ApplyHead /\ mpc' \in {"input", "submitFailed"}
  BY <1>4 DEF ApplyHead
<1>5. CASE AskWaits
  BY <1>5, NextGenTyped DEF AskWaits, AskHead
<1>6. CASE SubmitClosing
  BY <1>6 DEF SubmitClosing
<1>7. CASE RequestExit
  BY <1>7 DEF RequestExit
<1> QED
  BY <1>1, <1>2, <1>3, <1>4, <1>5, <1>6, <1>7,
     MainSteps DEF ApplyFails, ApplyStarts, ApplyCrowded, ApplyQuiet

\* The ticket the worker takes is one the client named.
LEMMA TicketStep ==
    ASSUME TypeOK, Other
    PROVE  ticket' \in {"none", "udp", "sdr"}
<1>0. ticket \in {"none", "udp", "sdr"} /\ flags.ready \in {"none", "udp", "sdr"}
  BY DEF TypeOK, Flags
<1>1. CASE VideoClean \/ Fail \/ TakeExit \/ Stopped \/ Requeue \/ TakeRevoked
          \/ TakeExecuted \/ TakeEnded \/ TakeServed \/ TakeCommandNone
          \/ TakeCommandExecuted \/ FailureServed \/ FailureStops \/ StartStreaming
          \/ StartOther \/ PostStopped \/ RequestThaws \/ RequestFrozen \/ RequestRefused
          \/ LaunchSession \/ LaunchBackend \/ LaunchRefused \/ ConnectRefused
          \/ BackendFails \/ Ended \/ BackendReady \/ TransportFails \/ Sample
          \/ RenderFails \/ Wait \/ Leave \/ Rejected \/ PinRequired \/ LinkUp \/ LinkDown
          \/ VideoStart \/ VideoStop \/ VideoDrained \/ (\E t \in Transports : Accepted(t))
  <2>1. ticket' \in {ticket, "none"}
    BY <1>1 DEF VideoClean, Fail, TakeExit, Stopped, Requeue, TakeRevoked, TakeHead,
           TakeExecuted, TakeEnded, TakeServed, TakeCommandNone, TakeCommandHead,
           TakeCommandExecuted, FailureServed, FailureHead, FailureStops, StartStreaming,
           StartHead, StartOther, PostStopped, RequestThaws, RequestHead, RequestFrozen,
           RequestRefused, LaunchSession, LaunchHead, LaunchBackend, LaunchRefused,
           LaunchFailsHead, ConnectRefused, BackendFails, Ended, BackendReady, TransportFails,
           Sample, RenderFails, Wait, Leave, Rejected, PinRequired, LinkUp, LinkDown,
           VideoStart, VideoStop, VideoDrained, Accepted
  <2> QED
    BY <2>1, <1>0
<1>2. CASE TakeLaunched
  BY <1>0, <1>2 DEF TakeLaunched
<1> QED
  BY <1>1, <1>2, OtherSteps

\* Every step keeps the types.
LEMMA StepTyped ==
    ASSUME TypeOK, PolicyInv, WorkerInv, TokenInv, TransitionInv, [Next]_vars
    PROVE  TypeOK'
<1>1. CASE Main
  <2>1. /\ (ui \in UiRecords)' /\ (app \in Life!Lifecycle)'
        /\ out' \in Commands /\ pending' \in Commands
        /\ replacement' \in 0 .. MaxGen /\ snap' \in Facts /\ exitRequested' \in BOOLEAN
        /\ events' \in Seq(EventRecords)
        /\ mpc' \in {"events", "apply", "submitFailed", "input", "submit", "exiting",
                     "leaving", "waiting", "joined"}
    BY <1>1, UiTyped, AppTyped, CommandsTyped, MainRestTyped
  <2>2. /\ UNCHANGED <<facts, flags, wpc, after, wcmd, ticket, worker, ihs>>
        /\ media' = media \/ media' = [media EXCEPT !.frozen = TRUE]
    BY <1>1, MainLeavesWorker
  <2>3. media' \in MediaRecords
    BY <2>2, FieldTypes DEF MediaRecords
  <2> QED
    BY <2>1, <2>2, <2>3 DEF TypeOK, UiRecords, EventRecords, MediaRecords
<1>2. CASE Other
  <2>1. /\ facts' \in Facts /\ flags' \in Flags /\ media' \in MediaRecords
        /\ worker' \in WorkerRecords /\ ihs' \in IhsRecords /\ events' \in Seq(EventRecords)
    BY <1>2, FactsTyped, FlagsTyped, MediaTyped, WorkerTyped, IhsTyped, EventsTyped
  <2>2. UNCHANGED <<ui, app, replacement, mpc, snap, out, exitRequested>>
    BY <1>2, MainVarsStep
  <2>3. pending' \in Commands /\ wcmd' \in Commands
    <3>1. NoCommand \in Commands /\ Command("EXIT", 0) \in Commands
      BY FieldTypes DEF NoCommand, Command, Commands, Closers
    <3>2. CASE StartStreaming \/ StartOther
      BY <1>2, <3>1, <3>2, FieldTypes DEF StartStreaming, StartOther, StartHead
    <3>3. CASE Requeue
      BY <1>2, <3>1, <3>3, FieldTypes DEF Requeue
    <3>4. CASE ~StartStreaming /\ ~StartOther /\ ~Requeue
      BY <1>2, <3>1, <3>4, FieldTypes, CommandsStep DEF Taken
    <3> QED
      BY <3>2, <3>3, <3>4
  <2>4. ticket' \in {"none", "udp", "sdr"}
    BY <1>2, TicketStep
  <2> QED
    BY <2>1, <2>2, <2>3, <2>4 DEF TypeOK, WorkerRecords, IhsRecords, EventRecords, MediaRecords
<1>3. CASE UNCHANGED vars
  BY <1>3 DEF vars, TypeOK
<1> QED
  BY <1>1, <1>2, <1>3 DEF Next, Other, Terminated
=============================================================================
