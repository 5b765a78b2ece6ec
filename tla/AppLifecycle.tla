---------------------------- MODULE AppLifecycle ----------------------------
(***************************************************************************)
(* The main-thread admission policy of app_lifecycle.c: which streaming    *)
(* request owns the device, whether a replacement waits behind it, and     *)
(* which facts of the runtime move it forward.  Every function of the C    *)
(* file is an operator from the old policy record to the new one, paired   *)
(* with the condition under which the C function returns true, so that     *)
(* StreamSession.tla can chain the calls of one handler.                   *)
(*                                                                         *)
(* The specification below is the policy against an arbitrary caller, who  *)
(* passes any identifiers in any order and may report anything of another  *)
(* request or session, but only the truth of the owner.                    *)
(***************************************************************************)
EXTENDS Naturals

CONSTANTS
    RequestIds,   \* identifiers passed to sl_app_request_start (0 is "none")
    SessionIds,   \* session identifiers the runtime may report (0 is "none")
    Epochs,       \* video epochs of one session (0: no video yet)
    Transitions   \* numbers of the pause/resume transitions

ASSUME IdsAssumption ==
    /\ RequestIds \subseteq Nat
    /\ SessionIds \subseteq Nat
    /\ Epochs \subseteq Nat
    /\ Transitions \subseteq Nat

VARIABLES
    app,          \* struct sl_app_lifecycle
    returned      \* what the owner has really given back (seen by no C code)

vars == <<app, returned>>

-----------------------------------------------------------------------------
RunningPhases == {"STARTING", "STREAMING"}
ClosingPhases == {"STOPPING", "EXITING", "DEVICE_FAILED"}
Phases == {"IDLE"} \union RunningPhases \union ClosingPhases

Lifecycle ==
    [phase : Phases,
     request_id : Nat, session_id : Nat, epoch : Nat, pending_request_id : Nat,
     last_request_id : Nat, video_transition : Nat,
     connected : BOOLEAN, foreground : BOOLEAN, host_video_paused : BOOLEAN,
     exit_requested : BOOLEAN, requests_closed : BOOLEAN,
     protocol_closed : BOOLEAN, video_clean : BOOLEAN]

LifecycleInit ==
    [phase |-> "IDLE",
     request_id |-> 0, session_id |-> 0, epoch |-> 0, pending_request_id |-> 0,
     last_request_id |-> 0, video_transition |-> 0,
     connected |-> FALSE, foreground |-> TRUE, host_video_paused |-> FALSE,
     exit_requested |-> FALSE, requests_closed |-> TRUE,
     protocol_closed |-> TRUE, video_clean |-> TRUE]

Running(a) == a.phase \in RunningPhases

\* The three cleanup facts as a set of resources.
Resources == {"requests", "protocol", "video"}

Given(requests, protocol, video) ==
    {r \in Resources : \/ r = "requests" /\ requests
                       \/ r = "protocol" /\ protocol
                       \/ r = "video" /\ video}

\* Every resource of the owner has been given back.
Cleaned(a) == a.requests_closed /\ a.protocol_closed /\ a.video_clean

-----------------------------------------------------------------------------
(* The policy functions.                                                   *)

\* start(): the request becomes the owner and owes the three cleanup facts.
Start(a, id) ==
    [a EXCEPT !.phase = "STARTING", !.request_id = id,
              !.session_id = 0, !.epoch = 0, !.video_transition = 0,
              !.pending_request_id = 0,
              !.connected = FALSE, !.host_video_paused = FALSE,
              !.requests_closed = FALSE, !.protocol_closed = FALSE,
              !.video_clean = FALSE]

\* Mutant: an id may be used again.
StartAcceptedAgain(a, id) ==
    /\ id # 0
    /\ ~a.exit_requested
    /\ a.phase # "DEVICE_FAILED"

StartAccepted(a, id) ==
    /\ id # 0
    /\ id > a.last_request_id
    /\ ~a.exit_requested
    /\ a.phase # "DEVICE_FAILED"

RequestStart(a, id) ==
    LET b == [a EXCEPT !.last_request_id = id]
    IN  IF a.phase = "IDLE"
        THEN Start(b, id)
        ELSE [b EXCEPT !.pending_request_id = id, !.phase = "STOPPING",
                       !.connected = FALSE]

RequestStop(a) ==
    [a EXCEPT !.pending_request_id = 0, !.connected = FALSE,
              !.phase = IF Running(a) THEN "STOPPING" ELSE a.phase]

RequestExit(a) ==
    LET b == RequestStop(a)
    IN  [b EXCEPT !.exit_requested = TRUE,
                  !.phase = IF b.phase = "DEVICE_FAILED" THEN b.phase ELSE "EXITING"]

\* Mutant: the failure leaves the set of phases.
DeviceFailedUnknown(a) == [RequestExit(a) EXCEPT !.phase = "FAILED"]

DeviceFailed(a) == [RequestExit(a) EXCEPT !.phase = "DEVICE_FAILED"]

SessionCreatedAccepted(a, request, session) ==
    /\ ~a.requests_closed
    /\ a.request_id = request
    /\ session # 0
    /\ a.session_id = 0

SessionCreated(a, session) == [a EXCEPT !.session_id = session]

\* Mutant: a connection counts although the owner is being closed.
ConnectedAcceptedLate(a, session) == session # 0 /\ a.session_id = session

ConnectedAccepted(a, session) ==
    /\ Running(a)
    /\ session # 0
    /\ a.session_id = session

Connected(a) == [a EXCEPT !.connected = TRUE]

\* Mutant: an epoch may go back.
VideoStateAcceptedBack(a, session, transition, epoch, paused) ==
    /\ Running(a)
    /\ session # 0
    /\ a.session_id = session
    /\ transition # 0
    /\ transition > a.video_transition
    /\ paused \/ epoch # 0

VideoStateAccepted(a, session, transition, epoch, paused) ==
    /\ Running(a)
    /\ session # 0
    /\ a.session_id = session
    /\ transition # 0
    /\ transition > a.video_transition
    /\ paused \/ epoch # 0
    /\ epoch >= a.epoch

VideoState(a, transition, epoch, paused) ==
    [a EXCEPT !.video_transition = transition, !.epoch = epoch,
              !.host_video_paused = paused]

PresentedAccepted(a, session, epoch) ==
    /\ Running(a)
    /\ a.connected
    /\ session # 0
    /\ session = a.session_id
    /\ epoch # 0
    /\ epoch = a.epoch
    /\ ~a.host_video_paused
    /\ a.foreground

Presented(a) == [a EXCEPT !.phase = "STREAMING"]

Foreground(a, foreground) == [a EXCEPT !.foreground = foreground]

\* Mutant: facts of any request are taken for the owner's.
CleanupAppliesToAny(a, request, session) == a.phase \in ClosingPhases

CleanupApplies(a, request, session) ==
    /\ a.phase \in ClosingPhases
    /\ request = a.request_id
    /\ session = a.session_id

\* The facts only accumulate; the reported record carries the three of them.
CleanupFacts(a, requests, protocol, video) ==
    [a EXCEPT !.requests_closed = @ \/ requests,
              !.protocol_closed = @ \/ protocol,
              !.video_clean = @ \/ video]

\* The admitted replacement, 0 when there is none (the C return value).
CleanupNext(a, requests, protocol, video) ==
    LET b == CleanupFacts(a, requests, protocol, video)
    IN  IF Cleaned(b) /\ ~b.exit_requested THEN b.pending_request_id ELSE 0

\* Mutant: the video is not waited for.
CleanupWithoutVideo(a, requests, protocol, video) ==
    LET b == CleanupFacts(a, requests, protocol, video)
    IN  IF ~(b.requests_closed /\ b.protocol_closed) \/ b.exit_requested THEN b
        ELSE IF b.pending_request_id # 0 THEN Start(b, b.pending_request_id)
        ELSE [b EXCEPT !.phase = "IDLE", !.connected = FALSE,
                       !.request_id = 0, !.session_id = 0, !.epoch = 0]

Cleanup(a, requests, protocol, video) ==
    LET b == CleanupFacts(a, requests, protocol, video)
    IN  IF ~Cleaned(b) \/ b.exit_requested THEN b
        ELSE IF b.pending_request_id # 0 THEN Start(b, b.pending_request_id)
        ELSE [b EXCEPT !.phase = "IDLE", !.connected = FALSE,
                       !.request_id = 0, !.session_id = 0, !.epoch = 0]

AllowRemote(a, uiWantsRemote) ==
    Running(a) /\ a.connected /\ a.foreground /\ uiWantsRemote

AllowDraw(a) == a.foreground /\ a.phase \notin {"EXITING", "DEVICE_FAILED"}

VideoClockRunning(a) ==
    Running(a) /\ a.connected /\ a.foreground /\ ~a.host_video_paused

CanJoin(a, workerFinished) == a.exit_requested /\ Cleaned(a) /\ workerFinished

-----------------------------------------------------------------------------
(* The policy alone, driven by an arbitrary caller.                        *)

Init == app = LifecycleInit /\ returned = Resources

\* One call of the policy; an owner admitted by it starts with nothing given back.
Call(a) ==
    /\ app' = a
    /\ returned' = IF a.request_id \in {0, app.request_id} THEN returned ELSE {}

DoRequestStart(id) == StartAccepted(app, id) /\ Call(RequestStart(app, id))
DoRequestStop == Call(RequestStop(app))
DoRequestExit == Call(RequestExit(app))
DoDeviceFailed == Call(DeviceFailed(app))
DoSessionCreated(r, s) ==
    SessionCreatedAccepted(app, r, s) /\ Call(SessionCreated(app, s))
DoConnected(s) == ConnectedAccepted(app, s) /\ Call(Connected(app))
DoVideoState(s, t, e, paused) ==
    VideoStateAccepted(app, s, t, e, paused) /\ Call(VideoState(app, t, e, paused))
DoPresented(s, e) == PresentedAccepted(app, s, e) /\ Call(Presented(app))
DoForeground(f) == Call(Foreground(app, f))
DoCleanup(r, s, requests, protocol, video) ==
    /\ (r = app.request_id /\ s = app.session_id) =>
           Given(requests, protocol, video) \subseteq returned
    /\ CleanupApplies(app, r, s)
    /\ Call(Cleanup(app, requests, protocol, video))

\* The runtime, elsewhere, gives a resource of the owner back.
GiveBack(r) ==
    /\ r \notin returned
    /\ returned' = returned \union {r}
    /\ UNCHANGED app

Next ==
    \/ \E id \in RequestIds : DoRequestStart(id)
    \/ DoRequestStop
    \/ DoRequestExit
    \/ DoDeviceFailed
    \/ \E r \in RequestIds, s \in SessionIds : DoSessionCreated(r, s)
    \/ \E s \in SessionIds : DoConnected(s)
    \/ \E s \in SessionIds, t \in Transitions, e \in Epochs, paused \in BOOLEAN :
           DoVideoState(s, t, e, paused)
    \/ \E s \in SessionIds, e \in Epochs : DoPresented(s, e)
    \/ \E f \in BOOLEAN : DoForeground(f)
    \/ \E r \in RequestIds, s \in SessionIds, requests, protocol, video \in BOOLEAN :
           DoCleanup(r, s, requests, protocol, video)
    \/ \E r \in Resources : GiveBack(r)

Spec == Init /\ [][Next]_vars

-----------------------------------------------------------------------------
(* Properties.                                                             *)

\* The policy record has the types of its C struct.
TypeOK == app \in Lifecycle /\ returned \subseteq Resources

Evidence == Given(app.requests_closed, app.protocol_closed, app.video_clean)

\* Which phases go with which evidence.  A running owner owes every cleanup
\* fact, an idle device none; what the record holds is true of the owner that
\* has the device now, never left over from the last one or taken from a
\* stale report; and exit is latched by exactly the two terminal phases
\* (docs/VIDEO_RENDERING_DESIGN.md:171, "exit is never revoked").
PhaseEvidence ==
    /\ Running(app) => app.request_id # 0 /\ Evidence = {}
    /\ app.phase = "IDLE" => app.request_id = 0 /\ Evidence = Resources
    /\ Evidence \subseteq returned
    /\ app.exit_requested <=> app.phase \in {"EXITING", "DEVICE_FAILED"}

\* One owner and at most one waiting intent, in submission order: the intent
\* is the newest id ever accepted, it waits behind a different, older owner,
\* and only while that owner is being closed.
IntentWaitsItsTurn ==
    /\ app.request_id <= app.last_request_id
    /\ app.pending_request_id # 0 =>
           /\ app.phase = "STOPPING"
           /\ app.pending_request_id = app.last_request_id
           /\ app.request_id < app.pending_request_id

\* The remote input gate and the video clock open only for a live session of
\* a running owner, and a STREAMING phase has shown a real epoch of it.
GateNeedsLiveOwner ==
    /\ app.connected => Running(app) /\ app.session_id # 0
    /\ app.phase = "STREAMING" => app.connected /\ app.epoch # 0
    /\ AllowRemote(app, TRUE) \/ VideoClockRunning(app) =>
           ~app.exit_requested /\ AllowDraw(app)

\* A new owner is admitted only when everything of the last one really is
\* given back, in whatever order its facts were reported; never after exit,
\* and never with an id that an earlier owner had.
NewOwnerAfterCleanup ==
    [][app'.request_id \notin {0, app.request_id} =>
          /\ returned = Resources
          /\ ~app.exit_requested
          /\ app'.request_id > app.request_id]_vars

\* A session keeps its identity, and its epoch and transition numbers only
\* grow, until another owner is admitted or the device is idle again.
SessionFactsMonotonic ==
    [][(app'.request_id = app.request_id /\ app.session_id # 0) =>
          /\ app'.session_id = app.session_id
          /\ app'.epoch >= app.epoch
          /\ app'.video_transition >= app.video_transition]_vars

-----------------------------------------------------------------------------
\* The policy is an implementation of the owner slot: every call of it admits,
\* records, closes, releases or shuts exactly as StreamOwner allows, and a
\* new owner appears only with complete evidence of the last one
\* (app_lifecycle.h:39, docs/VIDEO_RENDERING_DESIGN.md:185).
Stage ==
    CASE app.phase = "IDLE" -> "free"
      [] Running(app)       -> "open"
      [] OTHER              -> "closing"

Owner == INSTANCE StreamOwner
    WITH Ids <- RequestIds, owner <- app.request_id, stage <- Stage,
         evidence <- Evidence, intent <- app.pending_request_id,
         newest <- app.last_request_id, shut <- app.exit_requested

OwnerSlot == Owner!Spec
=============================================================================
