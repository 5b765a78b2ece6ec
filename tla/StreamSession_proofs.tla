------------------------ MODULE StreamSession_proofs ------------------------
(***************************************************************************)
(* The safety of StreamSession, for any number of generations and epochs,  *)
(* with or without a PIN, over any transports: one section per part of the *)
(* inductive invariant of StreamSession_steps, then the theorems.          *)
(*                                                                         *)
(* The parts lean on each other.  The commands in flight (CommandInv) need *)
(* the policy record (PolicyInv); what the policy knows of a request       *)
(* (HandoverInv) needs both and the worker (WorkerInv); that nothing       *)
(* starts under a closing owner (FreezeInv) needs the mailbox, which is    *)
(* full whenever a start is still under way; the acknowledgement of a stop *)
(* (AckInv) needs that its generation is newer than all that is in flight; *)
(* and the bounds of the types need the one chance each request has to     *)
(* create a session (TokenInv), and the alternation of pause and resume    *)
(* (TransitionInv).                                                        *)
(* At the end the session is shown to implement VideoLoan.                 *)
(***************************************************************************)
EXTENDS StreamSession_steps

USE DEF Life!Running, Life!RunningPhases, Life!ClosingPhases, Life!Phases, Life!Cleaned
USE DEF At, Goto, StopThen, FailThen, Execute, Post, Closed, FactsOf, NoFlags,
        CreateSession, Called, SessionRuns, mainVars, sharedVars, workerVars
USE DEF Acted, Close

-----------------------------------------------------------------------------
(* The policy record.                                                      *)

\* The user's generation never goes back, and only a new command moves it.
LEMMA GenerationStep ==
    ASSUME TypeOK, PolicyInv, Main
    PROVE  ui'.generation = ui.generation \/ ui'.generation = NextGen
<1> USE MainFieldTypes DEF UiRecords, UiError
<1>1. CASE ReadFacts \/ SkipFacts \/ ApplyFails \/ ApplyStarts \/ ApplyQuiet
          \/ SubmitClosing \/ NoInput \/ Quit \/ BeginExit \/ RequestExit \/ Destroy
  <2>1. UNCHANGED ui
    BY <1>1 DEF ReadFacts, SkipFacts, ApplyFails, ApplyHead, ApplyStarts, ApplyQuiet,
           SubmitClosing, NoInput, Quit, BeginExit, RequestExit, Destroy
  <2> QED
    BY <2>1
<1>2. CASE PollEvent
  BY <1>2, QueueTyped, UiEventFields DEF PollEvent, EventRecords
<1>3. CASE ApplyCrowded
  BY <1>3 DEF ApplyCrowded, ApplyHead
<1>4. CASE AskRefused
  BY <1>4 DEF AskRefused, AskHead
<1>5. CASE AskWaits
  BY <1>5 DEF AskWaits, AskHead
<1>6. CASE AskAdmitted
  BY <1>6 DEF AskAdmitted, AskHead
<1>7. CASE AskCrowded
  BY <1>7 DEF AskCrowded, AskHead
<1>8. CASE PinSubmitted
  BY <1>8 DEF PinSubmitted, PinHead
<1>9. CASE PinRefused
  BY <1>9 DEF PinRefused, PinHead
<1>10. CASE StopHead
  BY <1>10 DEF StopHead
<1>11. CASE ExitAsked
  BY <1>11 DEF ExitAsked
<1>12. CASE Dialog
  BY <1>12 DEF Dialog
<1> QED
  BY <1>1, <1>2, <1>3, <1>4, <1>5, <1>6, <1>7, <1>8, <1>9, <1>10, <1>11, <1>12,
     MainSteps DEF StopAsked, CancelAsked

\* Every call of the policy keeps its record in order.
LEMMA PolicyStep ==
    ASSUME TypeOK, PolicyInv, WorkerInv, [Next]_vars
    PROVE  PolicyInv'
<1>0. /\ app \in Life!Lifecycle /\ ui.generation \in Nat
      /\ app.request_id \in Nat /\ app.last_request_id \in Nat
      /\ app.pending_request_id \in Nat
  BY MainFieldTypes, BoundsAssumption DEF Life!Lifecycle
<1>1. CASE Main
  <2>1. ui'.generation \in Nat /\ ui'.generation >= ui.generation
    BY <1>0, <1>1, GenerationStep DEF NextGen
  <2>2. CASE ApplyFails \/ ApplyStarts \/ ApplyCrowded \/ ApplyQuiet
    <3>1. AppKept \/ AppReleased
      BY <2>2 DEF ApplyFails, ApplyStarts, ApplyCrowded, ApplyQuiet, ApplyHead
    <3>2. CASE AppKept
      BY <1>0, <2>1, <3>2 DEF AppKept, PolicyInv, Life!Lifecycle
    <3>3. CASE AppReleased
      BY <1>0, <2>1, <3>3 DEF AppReleased, PolicyInv, Life!Lifecycle
    <3> QED
      BY <3>1, <3>2, <3>3
  <2>3. CASE AskWaits \/ AskAdmitted \/ AskCrowded
    <3>1. /\ app' = Life!RequestStart(app, NextGen) /\ Life!StartAccepted(app, NextGen)
          /\ ui'.generation = NextGen /\ NextGen \in Nat /\ ui.generation < NextGen
      <4> USE MainFieldTypes DEF UiRecords, UiError, AskHead
      <4>1. CASE AskWaits
        BY <1>0, <4>1 DEF AskWaits, NextGen
      <4>2. CASE AskAdmitted
        BY <1>0, <4>2 DEF AskAdmitted, NextGen
      <4>3. CASE AskCrowded
        BY <1>0, <4>3 DEF AskCrowded, NextGen
      <4> QED
        BY <2>3, <4>1, <4>2, <4>3
    <3>2. app.exit_requested = FALSE /\ app.last_request_id < NextGen /\ NextGen # 0
      BY <1>0, <3>1 DEF Life!StartAccepted, PolicyInv, Life!Lifecycle
    <3> DEFINE s == Life!RequestStart(app, NextGen)
    <3>3. /\ s \in Life!Lifecycle
          /\ s.last_request_id = NextGen /\ s.exit_requested = app.exit_requested
          /\ app.phase = "IDLE" =>
                 /\ s.phase = "STARTING" /\ s.request_id = NextGen
                 /\ s.pending_request_id = 0
                 /\ ~s.requests_closed /\ ~s.protocol_closed /\ ~s.video_clean
          /\ app.phase # "IDLE" =>
                 /\ s.phase = "STOPPING" /\ s.request_id = app.request_id
                 /\ s.pending_request_id = NextGen
                 /\ s.requests_closed = app.requests_closed
                 /\ s.protocol_closed = app.protocol_closed
                 /\ s.video_clean = app.video_clean
      <4>1. app \in Life!Lifecycle /\ NextGen \in Nat
        BY <1>0, <3>1
      <4> QED
        BY ONLY <4>1, StartFields
    <3>a. app' = s
      BY <3>1
    <3> HIDE DEF s
    <3>4. CASE app.phase = "IDLE"
      BY <1>0, <3>1, <3>2, <3>3, <3>4, <3>a DEF PolicyInv
    <3>5. CASE app.phase # "IDLE"
      <4>1. app.phase \in {"STARTING", "STREAMING", "STOPPING"} /\ app.request_id # 0
        BY <1>0, <3>2, <3>5 DEF PolicyInv, Life!Lifecycle
      <4> QED
        BY <1>0, <3>1, <3>2, <3>3, <3>5, <3>a, <4>1 DEF PolicyInv
    <3> QED
      BY <3>4, <3>5
  <2>4. CASE StopHead
    <3>1. app' = Life!RequestStop(app)
      BY <2>4 DEF StopHead
    <3> QED
      BY <1>0, <2>1, <3>1, StopFields DEF PolicyInv
  <2>5. CASE ExitAsked \/ BeginExit
    <3>1. app' = Life!RequestExit(app) /\ app.phase # "DEVICE_FAILED"
      BY <2>5 DEF ExitAsked, BeginExit, PolicyInv
    <3> QED
      BY <1>0, <2>1, <3>1, ExitFields DEF PolicyInv
  <2>6. CASE PollEvent \/ ReadFacts \/ SkipFacts \/ SubmitClosing \/ AskRefused
            \/ PinSubmitted \/ PinRefused \/ Dialog \/ NoInput \/ Quit \/ RequestExit
            \/ Destroy
    <3>1. UNCHANGED app
      BY <2>6 DEF PollEvent, ReadFacts, SkipFacts, SubmitClosing, AskRefused, AskHead,
             PinSubmitted, PinHead, PinRefused, Dialog, NoInput, Quit, RequestExit, Destroy
    <3> QED
      BY <1>0, <2>1, <3>1 DEF PolicyInv
  <2> QED
    BY <1>1, <2>2, <2>3, <2>4, <2>5, <2>6, MainSteps DEF StopAsked, CancelAsked
<1>2. CASE Other \/ UNCHANGED vars
  <2>1. UNCHANGED <<ui, app>>
    BY <1>2, MainVarsStep DEF vars
  <2> QED
    BY <2>1 DEF PolicyInv
<1> QED
  BY <1>1, <1>2 DEF Next, Other, Terminated

\* The main thread keeps the worker's invariant: it only freezes.
LEMMA WorkerStep ==
    ASSUME TypeOK, CommandInv, WorkerInv, [Next]_vars
    PROVE  WorkerInv'
<1>1. CASE Main
  <2>1. /\ UNCHANGED <<facts, flags, wpc, after, wcmd, ticket, worker, ihs>>
        /\ media' = media \/ media' = [media EXCEPT !.frozen = TRUE]
    BY <1>1, MainLeavesWorker
  <2>2. media'.video = media.video /\ (media.frozen => media'.frozen)
    BY <2>1, FieldTypes DEF MediaRecords
  <2> QED
    BY <2>1, <2>2 DEF WorkerInv, Busy, LiveRequest, BeforeLaunch, IdleClient, Registers,
                      ClosedFacts, VideoOwner
<1>2. CASE Other
  BY <1>2, WorkerKeepsInv
<1>3. CASE UNCHANGED vars
  BY <1>3 DEF vars, WorkerInv, Busy, LiveRequest, BeforeLaunch, IdleClient, Registers,
              ClosedFacts, VideoOwner
<1> QED
  BY <1>1, <1>2, <1>3 DEF Next, Other, Terminated

-----------------------------------------------------------------------------
(* The queue of events.                                                    *)

\* The queue holds events.
LEMMA QueuedTyped ==
    ASSUME TypeOK, NEW e \in Queued
    PROVE  e \in EventRecords /\ e.gen \in Nat
<1>1. PICK i \in 1 .. Len(events) : e = events[i]
  BY DEF Queued
<1>2. events \in Seq(EventRecords)
  BY FieldTypes
<1>3. e \in EventRecords
  BY <1>1, <1>2
<1> QED
  BY <1>3, BoundsAssumption DEF EventRecords

\* A posted event joins the queue, nothing else does.
LEMMA QueuePosted ==
    ASSUME TypeOK, NEW e \in EventRecords, events' = Append(events, e)
    PROVE  Queued' \subseteq Queued \union {e}
<1>1. events \in Seq(EventRecords)
  BY FieldTypes
<1> QED
  BY <1>1 DEF Queued

\* A polled event was in the queue, and the rest stays in its order.
LEMMA QueuePolled ==
    ASSUME TypeOK, events # <<>>, events' = Tail(events)
    PROVE  Queued' \subseteq Queued /\ Head(events) \in Queued
<1>1. events \in Seq(EventRecords)
  BY FieldTypes
<1>2. Head(events) \in Queued
  BY <1>1 DEF Queued
<1>3. Queued' \subseteq Queued
  <2> SUFFICES ASSUME NEW i \in 1 .. Len(Tail(events))
               PROVE  Tail(events)[i] \in Queued
    BY DEF Queued
  <2>1. i + 1 \in 1 .. Len(events) /\ Tail(events)[i] = events[i + 1]
    BY <1>1
  <2> QED
    BY <2>1 DEF Queued
<1> QED
  BY <1>2, <1>3

\* What the main thread may do to the queue is to poll it.
LEMMA QueueStep ==
    ASSUME TypeOK, PolicyInv, Main
    PROVE  Queued' \subseteq Queued
<1>1. CASE PollEvent
  BY <1>1, QueuePolled DEF PollEvent
<1>2. CASE ~PollEvent
  <2>1. events' = events
    BY <1>2, MainSteps DEF ReadFacts, SkipFacts, ApplyFails, ApplyStarts, ApplyCrowded,
       ApplyQuiet, ApplyHead, SubmitClosing, AskRefused, AskWaits, AskAdmitted, AskCrowded,
       AskHead, PinSubmitted, PinRefused, PinHead, StopAsked, CancelAsked, StopHead, ExitAsked,
       Dialog, NoInput, Quit, BeginExit, RequestExit, Destroy
  <2> QED
    BY <2>1 DEF Queued
<1> QED
  BY <1>1, <1>2

\* The user sees the PIN page only after an event of this generation asked for it.
LEMMA PinPageStep ==
    ASSUME TypeOK, PolicyInv, Main, ui'.page = "PIN"
    PROVE  /\ ui'.generation = ui.generation
           /\ \/ ui.page = "PIN" /\ ~SubmitPin
              \/ /\ PollEvent /\ Head(events).type = "PIN"
                 /\ Head(events).gen = ui.generation
<1> USE MainFieldTypes DEF UiRecords, UiError
<1>1. CASE ReadFacts \/ SkipFacts \/ ApplyFails \/ ApplyStarts \/ ApplyQuiet
          \/ SubmitClosing \/ NoInput \/ Quit \/ BeginExit \/ RequestExit \/ Destroy
  <2>1. UNCHANGED ui
    BY <1>1 DEF ReadFacts, SkipFacts, ApplyFails, ApplyHead, ApplyStarts, ApplyQuiet,
           SubmitClosing, NoInput, Quit, BeginExit, RequestExit, Destroy
  <2>2. ~SubmitPin
    <3>1. CASE SubmitPin
      <4>1. ui' # ui
        <5>1. CASE PinSubmitted
          BY <5>1, <3>1 DEF PinSubmitted, PinHead
        <5>2. CASE PinRefused
          BY <5>2, <3>1 DEF PinRefused, PinHead
        <5> QED
          BY <3>1, <5>1, <5>2, PinBranches
      <4> QED
        BY <2>1, <4>1
    <3> QED
      BY <3>1
  <2> QED
    BY <2>1, <2>2
<1>2. CASE PollEvent
  <2>1. ~SubmitPin
    BY <1>2 DEF PollEvent, SubmitPin
  <2> QED
    BY <1>2, <2>1, QueueTyped, UiEventFields DEF PollEvent, EventRecords
<1>3. CASE ApplyCrowded
  BY <1>3 DEF ApplyCrowded, ApplyHead
<1>4. CASE AskRefused
  BY <1>4 DEF AskRefused, AskHead
<1>5. CASE AskWaits
  BY <1>5 DEF AskWaits, AskHead
<1>6. CASE AskAdmitted
  BY <1>6 DEF AskAdmitted, AskHead
<1>7. CASE AskCrowded
  BY <1>7 DEF AskCrowded, AskHead
<1>8. CASE PinSubmitted
  BY <1>8 DEF PinSubmitted, PinHead
<1>9. CASE PinRefused
  BY <1>9 DEF PinRefused, PinHead
<1>10. CASE StopHead
  BY <1>10 DEF StopHead
<1>11. CASE ExitAsked
  BY <1>11 DEF ExitAsked
<1>12. CASE Dialog
  BY <1>12 DEF Dialog
<1> QED
  BY <1>1, <1>2, <1>3, <1>4, <1>5, <1>6, <1>7, <1>8, <1>9, <1>10, <1>11, <1>12,
     MainSteps DEF StopAsked, CancelAsked

-----------------------------------------------------------------------------
(* The commands in flight.                                                 *)

\* What the policy calls make of the owner's request id and of the newest one.
LEMMA OwnerStep ==
    ASSUME TypeOK, PolicyInv, Main
    PROVE  /\ app'.last_request_id >= app.last_request_id
           /\ \/ app'.request_id = app.request_id
              \/ AskAdmitted \/ AskCrowded
              \/ mpc = "apply" /\ AppReleased /\ app.request_id # 0
                 /\ app'.request_id = app.pending_request_id
<1>0. /\ app \in Life!Lifecycle /\ app.last_request_id \in Nat /\ ui.generation \in Nat
  BY MainFieldTypes, BoundsAssumption DEF Life!Lifecycle
<1>1. CASE PollEvent \/ ReadFacts \/ SkipFacts \/ SubmitClosing \/ AskRefused
           \/ PinSubmitted \/ PinRefused \/ Dialog \/ NoInput \/ Quit \/ RequestExit
           \/ Destroy
  <2>1. UNCHANGED app
    BY <1>1 DEF PollEvent, ReadFacts, SkipFacts, SubmitClosing, AskRefused, AskHead,
           PinSubmitted, PinHead, PinRefused, Dialog, NoInput, Quit, RequestExit, Destroy
  <2> QED
    BY <1>0, <2>1
<1>2. CASE ApplyFails \/ ApplyStarts \/ ApplyCrowded \/ ApplyQuiet
  <2>1. mpc = "apply" /\ (AppKept \/ AppReleased)
    BY <1>2 DEF ApplyFails, ApplyStarts, ApplyCrowded, ApplyQuiet, ApplyHead
  <2> QED
    BY <1>0, <2>1 DEF AppKept, AppReleased
<1>3. CASE AskWaits \/ AskAdmitted \/ AskCrowded
  <2>1. /\ app' = Life!RequestStart(app, NextGen) /\ NextGen > app.last_request_id
        /\ AskWaits => app.phase # "IDLE"
    BY <1>3 DEF AskWaits, AskAdmitted, AskCrowded, Life!StartAccepted
  <2>2. NextGen \in Nat
    BY <1>0 DEF NextGen
  <2> DEFINE s == Life!RequestStart(app, NextGen)
  <2>3. /\ s.last_request_id = NextGen
        /\ app.phase # "IDLE" => s.request_id = app.request_id
    <3>1. app \in Life!Lifecycle /\ NextGen \in Nat
      BY <1>0, <2>2
    <3> QED
      BY ONLY <3>1, StartFields
  <2>4. app' = s
    BY <2>1
  <2> HIDE DEF s
  <2> QED
    BY <1>0, <1>3, <2>1, <2>2, <2>3, <2>4
<1>4. CASE StopHead
  BY <1>0, <1>4, StopFields DEF StopHead
<1>5. CASE ExitAsked \/ BeginExit
  BY <1>0, <1>5, ExitFields DEF ExitAsked, BeginExit, PolicyInv
<1> QED
  BY <1>1, <1>2, <1>3, <1>4, <1>5, MainSteps DEF StopAsked, CancelAsked

\* A command the main thread puts into the mailbox is the owner's first, its
\* PIN, or a closing command.
LEMMA MailboxStep ==
    ASSUME TypeOK, PolicyInv, Main
    PROVE  \/ pending' = pending
           \/ /\ mpc \in {"submit", "submitFailed"} /\ SubmitClosing
              /\ pending' = out
           \/ /\ pending = NoCommand
              /\ \/ ApplyStarts /\ pending' = Command("STREAM", app.pending_request_id)
                 \/ AskAdmitted /\ pending' = Command("STREAM", NextGen)
                 \/ /\ PinSubmitted
                    /\ pending' = [Command("STREAM", ui.generation) EXCEPT !.pin = TRUE]
<1>1. CASE PollEvent \/ ReadFacts \/ SkipFacts \/ ApplyFails \/ ApplyCrowded \/ ApplyQuiet
           \/ AskRefused \/ AskWaits \/ AskCrowded \/ PinRefused \/ StopAsked \/ CancelAsked
           \/ ExitAsked \/ Dialog \/ NoInput \/ Quit \/ BeginExit \/ RequestExit \/ Destroy
  <2>1. UNCHANGED pending
    BY <1>1 DEF PollEvent, ReadFacts, SkipFacts, ApplyFails, ApplyCrowded, ApplyQuiet,
       AskRefused, AskWaits, AskCrowded, PinRefused, StopAsked, CancelAsked, ExitAsked,
       Dialog, NoInput, Quit, BeginExit, RequestExit, Destroy
  <2> QED
    BY <2>1
<1>2. CASE SubmitClosing
  BY <1>2 DEF SubmitClosing
<1>3. CASE ApplyStarts \/ AskAdmitted \/ PinSubmitted
  BY <1>3 DEF ApplyStarts, AskAdmitted, PinSubmitted
<1> QED
  BY <1>1, <1>2, <1>3, MainSteps

\* Where the main thread copies the facts, and where it has a command to submit.
LEMMA PlacesStep ==
    ASSUME TypeOK, PolicyInv, Main
    PROVE  /\ mpc' = "apply" => ReadFacts /\ snap' = facts /\ facts.request_id = app.request_id
           /\ mpc' \in {"submit", "submitFailed"} =>
                  /\ out'.type \in Closers
                  /\ ApplyFails \/ AskWaits \/ StopAsked \/ CancelAsked \/ ExitAsked
<1> USE DEF Command, Closers
<1>1. CASE ReadFacts
  BY <1>1 DEF ReadFacts
<1>2. CASE PollEvent \/ SkipFacts \/ SubmitClosing \/ ApplyStarts \/ ApplyCrowded \/ ApplyQuiet
           \/ AskRefused \/ AskAdmitted \/ AskCrowded \/ PinSubmitted \/ PinRefused
           \/ Dialog \/ NoInput \/ Quit \/ BeginExit \/ RequestExit \/ Destroy
  <2>1. mpc' \notin {"apply", "submit", "submitFailed"}
    BY <1>2 DEF PollEvent, SkipFacts, SubmitClosing, ApplyStarts, ApplyCrowded, ApplyQuiet,
       AskRefused, AskAdmitted, AskCrowded, PinSubmitted, PinRefused, PinHead,
       Dialog, NoInput, Quit, BeginExit, RequestExit, Destroy
  <2> QED
    BY <2>1
<1>3. CASE ApplyFails \/ AskWaits \/ StopAsked \/ CancelAsked \/ ExitAsked
  <2>1. mpc' \in {"submit", "submitFailed"} /\ out'.type \in Closers
    BY <1>3 DEF ApplyFails, AskWaits, StopAsked, CancelAsked, StopHead, ExitAsked
  <2> QED
    BY <1>3, <2>1
<1> QED
  BY <1>1, <1>2, <1>3, MainSteps

\* The commands in flight stay the owner's: its start is submitted once, when
\* it is admitted, and taken before anything of it can be accepted.
LEMMA CommandStep ==
    ASSUME TypeOK, PolicyInv, WorkerInv, CommandInv, [Next]_vars
    PROVE  CommandInv'
<1>0. /\ facts.request_id \in Nat /\ app.request_id \in Nat /\ app.last_request_id \in Nat
      /\ ui.generation \in Nat /\ app.pending_request_id \in Nat
      /\ wcmd.gen \in Nat /\ pending.gen \in Nat
  BY FieldTypes, MainFieldTypes, BoundsAssumption DEF Life!Lifecycle
<1>1. CASE Main
  <2>1. UNCHANGED <<facts, wcmd>>
    BY <1>1, MainLeavesWorker
  <2>2. app'.last_request_id >= app.last_request_id /\ app'.last_request_id \in Nat
    BY <1>0, <1>1, OwnerStep, AppTyped DEF Life!Lifecycle
  <2>3. \/ app'.request_id = app.request_id
        \/ /\ ~Unaccepted(wcmd) /\ ~Unaccepted(pending)
           /\ \/ AskAdmitted \/ AskCrowded
              \/ mpc = "apply" /\ AppReleased /\ app.request_id # 0
                 /\ app'.request_id = app.pending_request_id
    <3>1. CASE AskAdmitted \/ AskCrowded
      <4>1. app.request_id = 0
        BY <3>1 DEF AskAdmitted, AskCrowded, PolicyInv
      <4> QED
        BY <1>0, <3>1, <4>1 DEF CommandInv
    <3>2. CASE mpc = "apply" /\ AppReleased /\ app.request_id # 0
               /\ app'.request_id = app.pending_request_id
      BY <1>0, <3>2 DEF CommandInv
    <3> QED
      BY <1>1, <3>1, <3>2, OwnerStep
  <2>4. \A c \in {wcmd, pending} :
           /\ Unaccepted(c) => facts.request_id < c.gen /\ c.gen = app'.request_id
           /\ Again(c) => c.gen = facts.request_id /\ c.gen # 0
    BY <2>3 DEF CommandInv
  <2>5. /\ Unaccepted(pending') =>
               facts.request_id < pending'.gen /\ pending'.gen = app'.request_id
        /\ Again(pending') => pending'.gen = facts.request_id /\ pending'.gen # 0
        /\ Unaccepted(wcmd) => pending'.type # "STREAM"
    <3>1. CASE pending' = pending
      BY <2>4, <3>1 DEF CommandInv
    <3>2. CASE mpc \in {"submit", "submitFailed"} /\ pending' = out
      <4>1. pending'.type # "STREAM"
        BY <3>2 DEF CommandInv, Closers
      <4> QED
        BY <4>1 DEF Unaccepted, Again
    <3>3. CASE ApplyStarts /\ pending' = Command("STREAM", app.pending_request_id)
      <4>1. /\ mpc = "apply" /\ app.pending_request_id # 0
            /\ app'.request_id = app.pending_request_id
        BY <3>3 DEF ApplyStarts, ApplyHead, AppReleased
      <4>2. ~Unaccepted(wcmd) /\ facts.request_id < app.pending_request_id
        BY <1>0, <4>1 DEF CommandInv, PolicyInv
      <4> QED
        BY <3>3, <4>1, <4>2 DEF Command, Unaccepted, Again
    <3>4. CASE AskAdmitted /\ pending' = Command("STREAM", NextGen)
      <4>1. /\ app' = Life!RequestStart(app, NextGen) /\ app.phase = "IDLE"
            /\ NextGen > app.last_request_id /\ NextGen \in Nat
        BY <1>0, <3>4 DEF AskAdmitted, Life!StartAccepted, NextGen
      <4> DEFINE s == Life!RequestStart(app, NextGen)
      <4>2. s.request_id = NextGen
        <5>1. app \in Life!Lifecycle /\ NextGen \in Nat /\ app.phase = "IDLE"
          BY <4>1, MainFieldTypes
        <5> QED
          BY ONLY <5>1, StartFields
      <4>3. app'.request_id = NextGen
        BY <4>1, <4>2
      <4>4. ~Unaccepted(wcmd) /\ facts.request_id < NextGen
        BY <1>0, <3>4, <4>1 DEF CommandInv, PolicyInv
      <4> QED
        BY <3>4, <4>3, <4>4 DEF Command, Unaccepted, Again
    <3>5. CASE PinSubmitted /\ pending' = [Command("STREAM", ui.generation) EXCEPT !.pin = TRUE]
      <4>1. /\ ui.page = "PIN" /\ app.phase = "STARTING" /\ app.request_id = ui.generation
        BY <3>5 DEF PinSubmitted, PinHead
      <4>2. facts.request_id = ui.generation /\ ui.generation # 0
        BY <1>0, <4>1 DEF CommandInv, PolicyInv
      <4>3. ~Unaccepted(wcmd)
        BY <1>0, <4>1, <4>2 DEF CommandInv
      <4> QED
        BY <3>5, <4>2, <4>3 DEF Command, Unaccepted, Again
    <3> QED
      BY <1>1, <3>1, <3>2, <3>3, <3>4, <3>5, MailboxStep
  <2>6. mpc' = "apply" => snap'.request_id = app'.request_id /\ app'.request_id = facts.request_id
    <3>1. ReadFacts => app' = app
      BY DEF ReadFacts
    <3> QED
      BY <1>1, <3>1, PlacesStep
  <2>7. ui'.page = "PIN" => ui'.generation <= facts.request_id
    <3> SUFFICES ASSUME ui'.page = "PIN"
                 PROVE  ui'.generation <= facts.request_id
      OBVIOUS
    <3>1. CASE ui.page = "PIN"
      BY <1>1, <3>1, PinPageStep DEF CommandInv
    <3>2. CASE PollEvent /\ Head(events).type = "PIN" /\ Head(events).gen = ui.generation
      BY <1>1, <3>2, PinPageStep, QueuePolled DEF PollEvent, CommandInv
    <3> QED
      BY <1>1, <3>1, <3>2, PinPageStep
  <2>8. \A e \in Queued' : e.type = "PIN" => e.gen <= facts.request_id
    BY <1>1, QueueStep DEF CommandInv
  <2>9. mpc' \in {"submit", "submitFailed"} => out'.type \in Closers
    BY <1>1, PlacesStep
  <2> QED
    BY <1>0, <2>1, <2>2, <2>4, <2>5, <2>6, <2>7, <2>8, <2>9 DEF CommandInv
<1>2. CASE Other
  <2>1. UNCHANGED <<ui, app, mpc, snap, out>>
    BY <1>2, OtherKinds
  <2>2. CASE Quiet
    <3>1. \A e \in Queued' : e.type = "PIN" => e.gen <= facts.request_id
      <4>1. CASE events' = events
        BY <4>1 DEF CommandInv, Queued
      <4>2. CASE \E type \in EventTypes : Posted(type)
        <5> PICK type \in EventTypes : Posted(type)
          BY <4>2
        <5>1. type = "PIN" => worker.active.gen = facts.request_id
          BY DEF Posted, PinRequired, WorkerInv, LiveRequest, Busy
        <5>2. /\ events' = Append(events, Event(type, worker.active.gen))
              /\ Event(type, worker.active.gen) \in EventRecords
          BY FieldTypes DEF Posted, Event, EventRecords
        <5>3. Queued' \subseteq Queued \union {Event(type, worker.active.gen)}
          BY <5>2, QueuePosted
        <5> QED
          BY <1>0, <5>1, <5>3 DEF Event, CommandInv
      <4> QED
        BY <2>2, <4>1, <4>2 DEF Quiet, EventsKept
    <3>2. pending' = pending /\ facts'.request_id = facts.request_id
      BY <2>2 DEF Quiet, FactsKept
    <3>3. wcmd' = wcmd \/ wcmd'.type # "STREAM"
      BY <2>2 DEF Quiet, NoCommand, Command
    <3> QED
      BY <2>1, <3>1, <3>2, <3>3 DEF CommandInv, Unaccepted, Again
  <2>3. CASE Taken
    <3>1. pending'.type # "STREAM" /\ wcmd' = pending /\ facts' = facts /\ Queued' = Queued
      BY <2>3 DEF Taken, NoCommand, Command, Queued
    <3> QED
      BY <2>1, <3>1 DEF CommandInv, Unaccepted, Again
  <2>4. CASE Requeue
    <3>1. /\ wcmd'.type # "STREAM" /\ pending' \in {wcmd, pending} /\ facts' = facts
          /\ Queued' = Queued
      BY <2>4 DEF Requeue, NoCommand, Command, Queued
    <3> QED
      BY <2>1, <3>1 DEF CommandInv, Unaccepted, Again
  <2>5. CASE StartStreaming
    <3>1. /\ wcmd'.type # "STREAM" /\ pending' = pending /\ wcmd.type = "STREAM"
          /\ facts'.request_id = wcmd.gen /\ Queued' = Queued
      BY <2>5 DEF StartStreaming, StartHead, NoCommand, Command, Queued
    <3>2. CASE Unaccepted(wcmd)
      <4>1. /\ facts.request_id < wcmd.gen /\ wcmd.gen = app.request_id
            /\ pending.type # "STREAM" /\ mpc # "apply"
        BY <1>0, <3>2 DEF CommandInv
      <4>2. app.request_id <= app.last_request_id
        BY DEF PolicyInv
      <4>3. \A e \in Queued : e.type = "PIN" => e.gen <= wcmd.gen
        <5> SUFFICES ASSUME NEW e \in Queued, e.type = "PIN"
                     PROVE  e.gen <= wcmd.gen
          OBVIOUS
        <5>1. e.gen \in Nat /\ e.gen <= facts.request_id
          BY QueuedTyped DEF CommandInv
        <5> QED
          BY <1>0, <4>1, <5>1
      <4>4. ui.page = "PIN" => ui.generation <= wcmd.gen
        BY <1>0, <4>1 DEF CommandInv
      <4>5. mpc \in {"submit", "submitFailed"} => out.type \in Closers
        BY DEF CommandInv
      <4> QED
        BY <2>1, <3>1, <4>1, <4>2, <4>3, <4>4, <4>5 DEF CommandInv, Unaccepted, Again
    <3>3. CASE ~Unaccepted(wcmd)
      <4>1. Again(wcmd)
        BY <3>1, <3>3 DEF Unaccepted, Again
      <4>2. wcmd.gen = facts.request_id
        BY <4>1 DEF CommandInv
      <4> QED
        BY <2>1, <3>1, <4>2 DEF CommandInv, Unaccepted, Again
    <3> QED
      BY <3>2, <3>3
  <2>6. CASE StartOther
    <3>1. /\ wcmd'.type # "STREAM" /\ pending' = pending
          /\ facts'.request_id = facts.request_id /\ Queued' = Queued
      BY <2>6, FieldTypes DEF StartOther, StartHead, NoCommand, Command, Queued, Facts
    <3> QED
      BY <2>1, <3>1 DEF CommandInv, Unaccepted, Again
  <2> QED
    BY <1>2, <2>2, <2>3, <2>4, <2>5, <2>6, OtherKinds
<1>3. CASE UNCHANGED vars
  <2>1. UNCHANGED <<ui, app, mpc, snap, out, pending, wcmd, facts>> /\ Queued' = Queued
    BY <1>3 DEF vars, Queued
  <2> QED
    BY <2>1 DEF CommandInv, Unaccepted, Again
<1> QED
  BY <1>1, <1>2, <1>3 DEF Next, Other, Terminated

-----------------------------------------------------------------------------
(* The handover from one owner to the next.                                *)

\* What a step of the main thread does to the owner's evidence.
LEMMA EvidenceStep ==
    ASSUME TypeOK, PolicyInv, Main
    PROVE  \/ mpc = "apply" /\ (AppKept \/ AppReleased)
           \/ /\ AskAdmitted \/ AskCrowded
              /\ app.request_id = 0 /\ app'.request_id = NextGen
              /\ NextGen > app.last_request_id
              /\ ~app'.requests_closed /\ ~app'.protocol_closed /\ ~app'.video_clean
           \/ /\ app'.request_id = app.request_id
              /\ app'.requests_closed = app.requests_closed
              /\ app'.protocol_closed = app.protocol_closed
              /\ app'.video_clean = app.video_clean
<1>0. app \in Life!Lifecycle /\ ui.generation \in Nat
  BY MainFieldTypes, BoundsAssumption
<1>1. CASE PollEvent \/ ReadFacts \/ SkipFacts \/ SubmitClosing \/ AskRefused
           \/ PinSubmitted \/ PinRefused \/ Dialog \/ NoInput \/ Quit \/ RequestExit
           \/ Destroy
  <2>1. UNCHANGED app
    BY <1>1 DEF PollEvent, ReadFacts, SkipFacts, SubmitClosing, AskRefused, AskHead,
           PinSubmitted, PinHead, PinRefused, Dialog, NoInput, Quit, RequestExit, Destroy
  <2> QED
    BY <2>1
<1>2. CASE ApplyFails \/ ApplyStarts \/ ApplyCrowded \/ ApplyQuiet
  BY <1>2 DEF ApplyFails, ApplyStarts, ApplyCrowded, ApplyQuiet, ApplyHead
<1>3. CASE AskWaits \/ AskAdmitted \/ AskCrowded
  <2>1. /\ app' = Life!RequestStart(app, NextGen) /\ NextGen > app.last_request_id
        /\ AskWaits => app.phase # "IDLE"
        /\ AskAdmitted \/ AskCrowded => app.phase = "IDLE"
    BY <1>3 DEF AskWaits, AskAdmitted, AskCrowded, Life!StartAccepted
  <2> DEFINE s == Life!RequestStart(app, NextGen)
  <2>2. /\ app.phase = "IDLE" =>
               /\ s.request_id = NextGen
               /\ ~s.requests_closed /\ ~s.protocol_closed /\ ~s.video_clean
        /\ app.phase # "IDLE" =>
               /\ s.request_id = app.request_id
               /\ s.requests_closed = app.requests_closed
               /\ s.protocol_closed = app.protocol_closed
               /\ s.video_clean = app.video_clean
    <3>1. app \in Life!Lifecycle /\ NextGen \in Nat
      BY <1>0 DEF NextGen
    <3> QED
      BY ONLY <3>1, StartFields
  <2>3. app' = s
    BY <2>1
  <2>4. app.phase = "IDLE" => app.request_id = 0
    BY DEF PolicyInv
  <2> HIDE DEF s
  <2>5. CASE AskWaits
    BY <2>1, <2>2, <2>3, <2>5
  <2>6. CASE AskAdmitted \/ AskCrowded
    BY <2>1, <2>2, <2>3, <2>4, <2>6
  <2> QED
    BY <1>3, <2>5, <2>6
<1>4. CASE StopHead
  BY <1>0, <1>4, StopFields DEF StopHead
<1>5. CASE ExitAsked \/ BeginExit
  BY <1>0, <1>5, ExitFields DEF ExitAsked, BeginExit, PolicyInv
<1> QED
  BY <1>1, <1>2, <1>3, <1>4, <1>5, MainSteps DEF StopAsked, CancelAsked

\* The policy's evidence is true of the request it was reported for, and the
\* next owner has none before its request is accepted.
LEMMA HandoverStep ==
    ASSUME TypeOK, PolicyInv, WorkerInv, CommandInv, HandoverInv, [Next]_vars
    PROVE  HandoverInv'
<1>0. /\ facts.request_id \in Nat /\ app.request_id \in Nat /\ app.last_request_id \in Nat
      /\ app.pending_request_id \in Nat
  BY FieldTypes, MainFieldTypes, BoundsAssumption DEF Life!Lifecycle
<1>1. CASE Main
  <2>1. UNCHANGED <<facts, worker>>
    BY <1>1, MainLeavesWorker
  <2>2. (mpc' = "apply" /\ ~worker.active.pin) =>
            /\ snap'.requests_closed \/ snap'.protocol_closed => facts.requests_closed
            /\ snap'.video_clean => facts.video_clean
    <3>1. mpc' = "apply" => snap' = facts
      BY <1>1, PlacesStep
    <3>2. facts.protocol_closed => facts.requests_closed
      BY DEF WorkerInv, ClosedFacts
    <3> QED
      BY <3>1, <3>2
  <2>3. CASE /\ app'.request_id = app.request_id
             /\ app'.requests_closed = app.requests_closed
             /\ app'.protocol_closed = app.protocol_closed
             /\ app'.video_clean = app.video_clean
    BY <2>1, <2>2, <2>3 DEF HandoverInv, FullClosed
  <2>4. CASE mpc = "apply" /\ AppKept
    <3>1. app'.request_id = facts.request_id
      BY <2>4 DEF AppKept, CommandInv
    <3>2. /\ app'.requests_closed => app.requests_closed \/ snap.requests_closed
          /\ app'.protocol_closed => app.protocol_closed \/ snap.protocol_closed
          /\ app'.video_clean => app.video_clean \/ snap.video_clean
      BY <2>4 DEF AppKept
    <3>3. (app'.request_id # 0 /\ ~worker.active.pin) =>
              /\ app'.requests_closed \/ app'.protocol_closed => facts.requests_closed
              /\ app'.video_clean => facts.video_clean
      BY <2>4, <3>1, <3>2 DEF HandoverInv, CommandInv
    <3> QED
      BY <2>1, <2>2, <3>1, <3>3 DEF HandoverInv
  <2>5. CASE mpc = "apply" /\ AppReleased
    <3>1. /\ app.request_id = facts.request_id /\ app.request_id # 0
          /\ app'.request_id = app.pending_request_id
          /\ app.requests_closed \/ snap.requests_closed
          /\ app.video_clean \/ snap.video_clean
      BY <2>5 DEF AppReleased, CommandInv
    <3>2. ~worker.active.pin => FullClosed
      BY <2>5, <3>1 DEF HandoverInv, FullClosed
    <3>3. app'.request_id # facts.request_id
      BY <1>0, <3>1 DEF PolicyInv
    <3>4. app'.request_id # 0 =>
              ~app'.requests_closed /\ ~app'.protocol_closed /\ ~app'.video_clean
      BY <2>5 DEF AppReleased
    <3> QED
      BY <2>1, <2>2, <3>2, <3>3, <3>4 DEF HandoverInv, FullClosed
  <2>6. CASE /\ app.request_id = 0 /\ app'.request_id = NextGen
             /\ NextGen > app.last_request_id
             /\ ~app'.requests_closed /\ ~app'.protocol_closed /\ ~app'.video_clean
    <3>1. ~worker.active.pin => FullClosed
      BY <2>6 DEF HandoverInv, FullClosed
    <3> QED
      BY <2>1, <2>2, <2>6, <3>1 DEF HandoverInv, FullClosed
  <2> QED
    BY <1>1, <2>3, <2>4, <2>5, <2>6, EvidenceStep
<1>2. CASE Other
  <2>1. UNCHANGED <<app, mpc, snap>>
    BY <1>2, OtherKinds
  <2>2. CASE Quiet
    BY <2>1, <2>2 DEF Quiet, FactsKept, HandoverInv, FullClosed, WorkerInv, ClosedFacts
  <2>3. CASE Taken \/ Requeue
    <3>1. UNCHANGED <<facts, worker>>
      BY <2>3 DEF Taken, Requeue
    <3> QED
      BY <2>1, <3>1 DEF HandoverInv, FullClosed
  <2>4. CASE StartStreaming
    <3>1. /\ wcmd.type = "STREAM" /\ facts'.request_id = wcmd.gen /\ worker'.active = wcmd
      BY <2>4, FieldTypes DEF StartStreaming, StartHead, WorkerRecords
    <3>2. CASE wcmd.pin
      <4>1. facts.request_id = wcmd.gen
        BY <3>1, <3>2 DEF CommandInv, Again
      <4> QED
        BY <2>1, <3>1, <3>2, <4>1 DEF HandoverInv
    <3>3. CASE ~wcmd.pin
      <4>1. facts.request_id < wcmd.gen /\ wcmd.gen = app.request_id /\ mpc # "apply"
        BY <1>0, <3>1, <3>3 DEF CommandInv, Unaccepted
      <4>2. ~app.requests_closed /\ ~app.protocol_closed /\ ~app.video_clean
        BY <1>0, <4>1 DEF HandoverInv
      <4> QED
        BY <2>1, <3>1, <4>1, <4>2 DEF HandoverInv
    <3> QED
      BY <3>2, <3>3
  <2>5. CASE StartOther
    <3>1. facts.requests_closed
      BY <2>5 DEF StartOther, StartHead, WorkerInv, ClosedFacts
    <3>2. /\ facts'.request_id = facts.request_id /\ facts'.requests_closed /\ facts'.video_clean
      BY <2>5, <3>1, FieldTypes DEF StartOther, Facts
    <3> QED
      BY <2>1, <3>2 DEF HandoverInv, FullClosed
  <2> QED
    BY <1>2, <2>2, <2>3, <2>4, <2>5, OtherKinds
<1>3. CASE UNCHANGED vars
  BY <1>3 DEF vars, HandoverInv, FullClosed
<1> QED
  BY <1>1, <1>2, <1>3 DEF Next, Other, Terminated

-----------------------------------------------------------------------------
(* The freeze of a closing owner's video.                                  *)

\* What the main thread does to the freeze.
LEMMA MainFreezes ==
    ASSUME TypeOK, Main
    PROVE  /\ media.frozen => media'.frozen
           /\ SubmitClosing \/ RequestExit \/ BeginExit => media'.frozen
<1>1. media' = media \/ media' = [media EXCEPT !.frozen = TRUE]
  BY MainLeavesWorker
<1>2. SubmitClosing \/ RequestExit \/ BeginExit => media' = [media EXCEPT !.frozen = TRUE]
  BY DEF SubmitClosing, RequestExit, BeginExit
<1> QED
  BY <1>1, <1>2, FieldTypes DEF MediaRecords

\* An owner is settled as closing by its closing command, by the exit, or by a
\* report that its requests are closed already.
LEMMA SettledStep ==
    ASSUME TypeOK, PolicyInv, FreezeInv, Main, Settled'
    PROVE  \/ Settled \/ SubmitClosing \/ RequestExit
           \/ mpc = "apply" /\ snap.requests_closed
<1>1. CASE PollEvent \/ ReadFacts \/ SkipFacts \/ AskRefused \/ PinSubmitted \/ PinRefused
           \/ Dialog \/ NoInput \/ Quit \/ Destroy
  <2>1. UNCHANGED app /\ mpc \notin {"submit", "submitFailed", "leaving"}
    BY <1>1 DEF PollEvent, ReadFacts, SkipFacts, AskRefused, AskHead,
           PinSubmitted, PinHead, PinRefused, Dialog, NoInput, Quit, Destroy
  <2> QED
    BY <2>1 DEF Settled
<1>2. CASE ApplyStarts \/ ApplyCrowded \/ ApplyQuiet
  <2>1. /\ mpc = "apply" /\ (AppKept \/ AppReleased)
        /\ AppKept => ~(snap.failed /\ Life!Running(app)) \/ AppReleased
    BY <1>2 DEF ApplyStarts, ApplyCrowded, ApplyQuiet, ApplyHead
  <2>2. ~AppReleased
    <3>1. AppReleased => app'.phase \in {"IDLE", "STARTING"}
      BY DEF AppReleased
    <3> QED
      BY <3>1 DEF Settled
  <2>3. CASE Life!Running(app)
    <3>1. snap.failed \/ snap.requests_closed
      BY <2>1, <2>2, <2>3 DEF AppKept, Settled
    <3> QED
      BY <2>1, <2>2, <2>3, <3>1
  <2>4. CASE ~Life!Running(app)
    BY <2>1, <2>2, <2>4 DEF AppKept, Settled
  <2> QED
    BY <2>3, <2>4
<1>3. CASE ApplyFails \/ AskWaits \/ StopHead \/ ExitAsked \/ BeginExit
  <2>1. mpc' \in {"submit", "submitFailed", "leaving"}
    BY <1>3 DEF ApplyFails, AskWaits, StopHead, ExitAsked, BeginExit
  <2> QED
    BY <2>1 DEF Settled
<1>4. CASE AskAdmitted \/ AskCrowded
  <2>1. app' = Life!RequestStart(app, NextGen) /\ app.phase = "IDLE"
    BY <1>4 DEF AskAdmitted, AskCrowded
  <2> DEFINE s == Life!RequestStart(app, NextGen)
  <2>2. s.phase = "STARTING"
    <3>1. app \in Life!Lifecycle /\ NextGen \in Nat /\ app.phase = "IDLE"
      BY <2>1, MainFieldTypes, BoundsAssumption DEF NextGen
    <3> QED
      BY ONLY <3>1, StartFields
  <2>3. app'.phase = "STARTING"
    BY <2>1, <2>2
  <2> QED
    BY <2>3 DEF Settled
<1>5. CASE SubmitClosing \/ RequestExit
  BY <1>5
<1> QED
  BY <1>1, <1>2, <1>3, <1>4, <1>5, MainSteps DEF StopAsked, CancelAsked

\* A settled closing owner stays frozen: no start is left to be taken, and one
\* under way finds the mailbox occupied.
LEMMA FreezeStep ==
    ASSUME TypeOK, PolicyInv, WorkerInv, CommandInv, HandoverInv, FreezeInv, [Next]_vars
    PROVE  FreezeInv'
<1>1. CASE Main
  <2>1. UNCHANGED <<facts, wpc, wcmd, worker>>
    BY <1>1, MainLeavesWorker
  <2>2. exitRequested => exitRequested'
    BY <1>1, MainSteps DEF PollEvent, ReadFacts, SkipFacts, ApplyFails, ApplyStarts,
       ApplyCrowded, ApplyQuiet, ApplyHead, SubmitClosing, AskRefused, AskWaits, AskAdmitted,
       AskCrowded, AskHead, PinSubmitted, PinRefused, PinHead, StopAsked, CancelAsked,
       StopHead, ExitAsked, Dialog, NoInput, Quit, BeginExit, RequestExit, Destroy
  <2>3. mpc' \in {"waiting", "joined"} => exitRequested'
    <3>1. CASE RequestExit
      BY <3>1 DEF RequestExit
    <3>2. CASE Destroy
      BY <2>2, <3>2 DEF Destroy, FreezeInv
    <3>3. CASE ~RequestExit /\ ~Destroy
      BY <1>1, <3>3, MainSteps DEF PollEvent, ReadFacts, SkipFacts, ApplyFails, ApplyStarts,
       ApplyCrowded, ApplyQuiet, SubmitClosing, AskRefused, AskWaits, AskAdmitted,
       AskCrowded, PinSubmitted, PinRefused, PinHead, StopAsked, CancelAsked,
       StopHead, ExitAsked, Dialog, NoInput, Quit, BeginExit
    <3> QED
      BY <3>1, <3>2, <3>3
  <2>4. CASE ~Settled'
    BY <2>3, <2>4 DEF FreezeInv
  <2>5. CASE Settled' /\ SubmitClosing
    <3>1. pending' = out /\ mpc \in {"submit", "submitFailed"} /\ media'.frozen
      BY <1>1, <2>5, MainFreezes DEF SubmitClosing
    <3>2. pending'.type # "STREAM" /\ pending' # NoCommand
      BY <3>1 DEF CommandInv, Closers, NoCommand, Command
    <3> QED
      BY <2>3, <3>1, <3>2 DEF FreezeInv, Unaccepted
  <2>6. CASE Settled' /\ RequestExit
    <3>1. exitRequested' /\ media'.frozen
      BY <1>1, <2>6, MainFreezes DEF RequestExit
    <3> QED
      BY <3>1 DEF FreezeInv
  <2>7. CASE Settled' /\ ~SubmitClosing /\ ~RequestExit
    <3>1. pending' = pending \/ Again(pending')
      <4>1. CASE ApplyStarts \/ AskAdmitted
        <5>1. app'.phase = "STARTING"
          <6>1. CASE ApplyStarts
            BY <6>1 DEF ApplyStarts, AppReleased
          <6>2. CASE AskAdmitted
            <7>1. app' = Life!RequestStart(app, NextGen) /\ app.phase = "IDLE"
              BY <6>2 DEF AskAdmitted
            <7> DEFINE s == Life!RequestStart(app, NextGen)
            <7>2. s.phase = "STARTING"
              <8>1. app \in Life!Lifecycle /\ NextGen \in Nat /\ app.phase = "IDLE"
                BY <7>1, MainFieldTypes, BoundsAssumption DEF NextGen
              <8> QED
                BY ONLY <8>1, StartFields
            <7> QED
              BY <7>1, <7>2
          <6> QED
            BY <4>1, <6>1, <6>2
        <5> QED
          BY <2>7, <5>1 DEF Settled
      <4>2. CASE ~ApplyStarts /\ ~AskAdmitted
        BY <1>1, <2>7, <4>2, MailboxStep DEF Again, Command
      <4> QED
        BY <4>1, <4>2
    <3>2. Unaccepted(pending') => Unaccepted(pending)
      BY <3>1 DEF Unaccepted, Again
    <3>3. pending # NoCommand => pending' # NoCommand
      BY <3>1 DEF Again, NoCommand, Command
    <3>4. CASE Settled
      <4>1. media.frozen => media'.frozen
        BY <1>1, MainFreezes
      <4> QED
        BY <2>1, <2>2, <2>3, <3>2, <3>3, <3>4, <4>1 DEF FreezeInv, Unaccepted
    <3>5. CASE mpc = "apply" /\ snap.requests_closed
      <4>1. ~Unaccepted(pending) /\ ~Unaccepted(wcmd)
        <5>1. facts.request_id \in Nat
          BY FieldTypes, BoundsAssumption
        <5> QED
          BY <3>5, <5>1 DEF CommandInv
      <4>2. ~worker.active.pin => facts.requests_closed
        BY <3>5 DEF HandoverInv
      <4>3. facts.requests_closed => wpc # "request" /\ media.frozen
        BY DEF WorkerInv, LiveRequest, Busy, ClosedFacts
      <4>4. media.frozen => media'.frozen
        BY <1>1, MainFreezes
      <4> QED
        BY <2>1, <2>3, <3>2, <4>1, <4>2, <4>3, <4>4 DEF FreezeInv, Unaccepted
    <3> QED
      BY <1>1, <2>7, <3>4, <3>5, SettledStep
  <2> QED
    BY <2>4, <2>5, <2>6, <2>7
<1>2. CASE Other
  <2>1. UNCHANGED <<app, mpc, exitRequested>> /\ (Settled' <=> Settled)
    BY <1>2, OtherKinds DEF Settled
  <2>2. CASE Quiet
    <3>1. /\ pending' = pending /\ worker'.active = worker.active
          /\ Unaccepted(wcmd') => Unaccepted(wcmd)
          /\ wpc' = "request" => wpc = "request"
      BY <2>2 DEF Quiet, Unaccepted, NoCommand, Command
    <3>2. (Settled /\ ~worker.active.pin) => media'.frozen
      BY <2>2 DEF Quiet, FrozenKept, FreezeInv
    <3> QED
      BY <2>1, <3>1, <3>2 DEF FreezeInv, Unaccepted
  <2>3. CASE Taken
    <3>1. /\ ~exitRequested /\ pending'.type # "STREAM" /\ wcmd' = pending
          /\ wpc' = "join" /\ media'.frozen
      BY <2>3 DEF Taken, NoCommand, Command
    <3> QED
      BY <2>1, <3>1 DEF FreezeInv, Unaccepted
  <2>4. CASE Requeue
    <3>1. /\ pending' = (IF pending = NoCommand THEN wcmd ELSE pending)
          /\ wcmd'.type # "STREAM" /\ wpc' = "loop" /\ UNCHANGED <<media, worker>>
      BY <2>4 DEF Requeue, NoCommand, Command
    <3>2. (Settled /\ Unaccepted(pending')) => exitRequested
      BY <3>1 DEF FreezeInv
    <3> QED
      BY <2>1, <3>1, <3>2 DEF FreezeInv, Unaccepted
  <2>5. CASE StartStreaming
    <3>1. /\ pending' = pending /\ wcmd'.type # "STREAM" /\ wcmd.type = "STREAM"
          /\ worker'.active = wcmd /\ media' = media /\ media.frozen
      BY <2>5, FieldTypes DEF StartStreaming, StartHead, NoCommand, Command, WorkerRecords,
         WorkerInv, ClosedFacts
    <3> QED
      BY <2>1, <3>1 DEF FreezeInv, Unaccepted
  <2>6. CASE StartOther
    <3>1. /\ pending' = pending /\ wcmd'.type # "STREAM" /\ wpc' \in {"leave", "stopped"}
          /\ media' = media /\ media.frozen
      BY <2>6 DEF StartOther, StartHead, NoCommand, Command, WorkerInv, ClosedFacts
    <3> QED
      BY <2>1, <3>1 DEF FreezeInv, Unaccepted
  <2> QED
    BY <1>2, <2>2, <2>3, <2>4, <2>5, <2>6, OtherKinds
<1>3. CASE UNCHANGED vars
  BY <1>3 DEF vars, FreezeInv, Settled, Unaccepted
<1> QED
  BY <1>1, <1>2, <1>3 DEF Next, Other, Terminated

-----------------------------------------------------------------------------
(* The acknowledgement the user waits for.                                 *)

\* The generations of the commands and events are numbers.
LEMMA Generations ==
    ASSUME TypeOK, PolicyInv
    PROVE  /\ ui.generation \in Nat /\ NextGen \in Nat /\ ui.generation < NextGen
           /\ pending.gen \in Nat /\ wcmd.gen \in Nat /\ worker.active.gen \in Nat
           /\ out.gen \in Nat
           /\ app.request_id \in Nat /\ app.request_id <= ui.generation
           /\ app.pending_request_id \in Nat /\ app.pending_request_id <= ui.generation
<1>1. /\ ui.generation \in Nat /\ pending.gen \in Nat /\ wcmd.gen \in Nat
      /\ worker.active.gen \in Nat
  BY FieldTypes, MainFieldTypes, BoundsAssumption
<1>2. out.gen \in Nat
  BY MainFieldTypes, BoundsAssumption DEF Commands
<1>3. /\ app.request_id \in Nat /\ app.last_request_id \in Nat
      /\ app.pending_request_id \in Nat
  BY MainFieldTypes DEF Life!Lifecycle
<1> QED
  BY <1>1, <1>2, <1>3 DEF PolicyInv, NextGen

\* A closing command carries a generation the user has used.
LEMMA OutStep ==
    ASSUME TypeOK, PolicyInv, CommandInv, GenerationsInv, Main
    PROVE  out'.gen <= ui'.generation
<1> USE Generations
<1>1. ui'.generation \in Nat /\ ui.generation <= ui'.generation
  BY GenerationStep
<1>2. CASE PollEvent \/ ReadFacts \/ SkipFacts \/ ApplyStarts \/ ApplyCrowded \/ ApplyQuiet
           \/ AskRefused \/ AskAdmitted \/ AskCrowded \/ PinSubmitted \/ PinRefused \/ Dialog
           \/ NoInput \/ Quit \/ BeginExit \/ RequestExit \/ Destroy
  <2>1. out' = out
    BY <1>2 DEF PollEvent, ReadFacts, SkipFacts, ApplyStarts, ApplyCrowded, ApplyQuiet,
       AskRefused, AskAdmitted, AskCrowded, PinSubmitted, PinRefused, PinHead,
       Dialog, NoInput, Quit, BeginExit, RequestExit, Destroy
  <2> QED
    BY <1>1, <2>1 DEF GenerationsInv
<1>3. CASE SubmitClosing
  <2>1. out'.gen = 0
    BY <1>3 DEF SubmitClosing, NoCommand, Command
  <2> QED
    BY <1>1, <2>1
<1>4. CASE ApplyFails
  <2>1. out'.gen = app.request_id
    BY <1>4 DEF ApplyFails, ApplyHead, Command, CommandInv
  <2> QED
    BY <1>1, <2>1
<1>5. CASE AskWaits \/ StopAsked \/ CancelAsked \/ ExitAsked
  <2>1. out'.gen = NextGen
    BY <1>5 DEF AskWaits, StopAsked, CancelAsked, ExitAsked, Command
  <2>2. ui'.generation = NextGen
    <3> USE MainFieldTypes DEF UiRecords
    <3>1. CASE AskWaits
      BY <3>1 DEF AskWaits
    <3>2. CASE StopAsked \/ CancelAsked
      BY <3>2 DEF StopAsked, CancelAsked, StopHead
    <3>3. CASE ExitAsked
      BY <3>3 DEF ExitAsked
    <3> QED
      BY <1>5, <3>1, <3>2, <3>3
  <2> QED
    BY <1>1, <2>1, <2>2
<1> QED
  BY <1>2, <1>3, <1>4, <1>5, MainSteps

\* The user begins to wait with a stop or a cancel of a fresh generation; while
\* the page stays, nothing is started.
LEMMA WaitingStep ==
    ASSUME TypeOK, PolicyInv, StoppingInv, Main, Stopping'
    PROVE  \/ StopHead /\ ui'.generation = NextGen /\ pending' = pending
           \/ /\ Stopping /\ ui'.generation = ui.generation
              /\ \/ PollEvent \/ ReadFacts \/ SkipFacts \/ ApplyQuiet \/ SubmitClosing
                 \/ NoInput \/ Quit \/ BeginExit \/ RequestExit \/ Destroy
<1> USE MainFieldTypes DEF UiRecords, UiError, Stopping
<1>1. CASE StopAsked \/ CancelAsked
  BY <1>1 DEF StopAsked, CancelAsked, StopHead
<1>2. CASE ReadFacts \/ SkipFacts \/ ApplyQuiet \/ SubmitClosing \/ NoInput \/ Quit
           \/ BeginExit \/ RequestExit \/ Destroy
  <2>1. UNCHANGED ui
    BY <1>2 DEF ReadFacts, SkipFacts, ApplyQuiet, ApplyHead, SubmitClosing, NoInput, Quit,
           BeginExit, RequestExit, Destroy
  <2> QED
    BY <1>2, <2>1
<1>3. CASE PollEvent
  BY <1>3, QueueTyped, UiEventFields DEF PollEvent, EventRecords
<1>4. CASE ApplyFails \/ ApplyStarts
  <2>1. ui' = ui /\ (Life!Running(app) \/ app.pending_request_id # 0)
    BY <1>4 DEF ApplyFails, ApplyStarts
  <2> QED
    BY <2>1 DEF StoppingInv
<1>5. CASE ApplyCrowded
  BY <1>5 DEF ApplyCrowded
<1>6. CASE AskRefused
  BY <1>6 DEF AskRefused
<1>7. CASE AskWaits
  BY <1>7 DEF AskWaits
<1>8. CASE AskAdmitted
  BY <1>8 DEF AskAdmitted
<1>9. CASE AskCrowded
  BY <1>9 DEF AskCrowded
<1>10. CASE PinSubmitted
  BY <1>10 DEF PinSubmitted
<1>11. CASE PinRefused
  BY <1>11 DEF PinRefused
<1>12. CASE ExitAsked
  BY <1>12 DEF ExitAsked
<1>13. CASE Dialog
  BY <1>13 DEF Dialog
<1> QED
  BY <1>1, <1>2, <1>3, <1>4, <1>5, <1>6, <1>7, <1>8, <1>9, <1>10, <1>11, <1>12, <1>13,
     MainSteps

\* While the user waits, a step of the main thread starts nothing.
LEMMA WaitingQuietly ==
    ASSUME TypeOK, PolicyInv, CommandInv, StoppingInv, Main, Stopping, ~StopHead, Stopping'
    PROVE  /\ ui'.generation = ui.generation
           /\ ~Life!Running(app') /\ app'.pending_request_id = 0
           /\ mpc' \notin {"submit", "submitFailed"}
           /\ mpc = "submit" => pending'.type # "STREAM" /\ pending' # NoCommand
           /\ mpc # "submit" => pending' = pending
<1>1. /\ ui'.generation = ui.generation
      /\ \/ PollEvent \/ ReadFacts \/ SkipFacts \/ ApplyQuiet \/ SubmitClosing
         \/ NoInput \/ Quit \/ BeginExit \/ RequestExit \/ Destroy
  BY WaitingStep
<1>2. ~Life!Running(app) /\ app.pending_request_id = 0 /\ mpc # "submitFailed"
  BY DEF StoppingInv
<1>3. CASE PollEvent \/ ReadFacts \/ SkipFacts \/ NoInput \/ Quit \/ RequestExit \/ Destroy
  <2>1. UNCHANGED <<app, pending>> /\ mpc # "submit" /\ mpc' \notin {"submit", "submitFailed"}
    BY <1>3 DEF PollEvent, ReadFacts, SkipFacts, NoInput, Quit, RequestExit, Destroy
  <2> QED
    BY <1>1, <1>2, <2>1
<1>4. CASE ApplyQuiet
  <2>1. /\ mpc = "apply" /\ mpc' = "input" /\ pending' = pending /\ (AppKept \/ AppReleased)
    BY <1>4 DEF ApplyQuiet, ApplyHead
  <2>2. ~Life!Running(app') /\ app'.pending_request_id = 0
    BY <1>2, <2>1 DEF AppKept, AppReleased
  <2> QED
    BY <1>1, <2>1, <2>2
<1>5. CASE SubmitClosing
  <2>1. /\ pending' = out /\ app' = app /\ mpc \in {"submit", "submitFailed"}
        /\ mpc' \notin {"submit", "submitFailed"}
    BY <1>5 DEF SubmitClosing
  <2>2. pending'.type # "STREAM" /\ pending' # NoCommand
    BY <2>1 DEF CommandInv, Closers, NoCommand, Command
  <2> QED
    BY <1>1, <1>2, <2>1, <2>2
<1>6. CASE BeginExit
  <2>1. /\ app' = Life!RequestExit(app) /\ pending' = pending /\ mpc = "exiting"
        /\ mpc' = "leaving"
    BY <1>6 DEF BeginExit
  <2>2. app'.phase = "EXITING" /\ app'.pending_request_id = 0
    BY <2>1, ExitFields, MainFieldTypes DEF PolicyInv
  <2> QED
    BY <1>1, <2>1, <2>2
<1> QED
  BY <1>1, <1>3, <1>4, <1>5, <1>6

\* The main thread keeps the generations in order.
LEMMA GenerationsMain ==
    ASSUME TypeOK, PolicyInv, CommandInv, GenerationsInv, StoppingInv, Main
    PROVE  GenerationsInv'
<1> USE Generations
<1>1. UNCHANGED <<wcmd, worker>>
  BY MainLeavesWorker
<1>2. ui'.generation \in Nat /\ ui.generation <= ui'.generation
  BY GenerationStep
<1>3. pending'.gen <= ui'.generation
  <2>1. CASE AskAdmitted /\ pending' = Command("STREAM", NextGen)
    <3>1. ui'.generation = NextGen
      BY <2>1, MainFieldTypes DEF AskAdmitted, UiRecords
    <3> QED
      BY <1>2, <2>1, <3>1 DEF Command
  <2>2. CASE pending' \in {pending, out}
    BY <1>2, <2>2 DEF GenerationsInv
  <2>3. CASE pending' = Command("STREAM", app.pending_request_id)
    BY <1>2, <2>3 DEF Command
  <2>4. CASE pending' = [Command("STREAM", ui.generation) EXCEPT !.pin = TRUE]
    BY <1>2, <2>4 DEF Command
  <2> QED
    BY <2>1, <2>2, <2>3, <2>4, MailboxStep
<1>4. \A e \in Queued' : e.gen \in Nat /\ e.gen <= ui.generation /\ e.gen <= ui'.generation
  <2> SUFFICES ASSUME NEW e \in Queued'
               PROVE  e.gen \in Nat /\ e.gen <= ui.generation /\ e.gen <= ui'.generation
    OBVIOUS
  <2>1. e \in Queued
    BY QueueStep
  <2>2. e.gen \in Nat /\ e.gen <= ui.generation
    BY <2>1, QueuedTyped DEF GenerationsInv
  <2> QED
    BY <1>2, <2>2
<1>5. (Stopping' /\ mpc' = "submit") =>
         /\ \A c \in {pending', wcmd', worker'.active} : c.gen < ui'.generation
         /\ \A e \in Queued' : e.gen < ui'.generation
  <2> SUFFICES ASSUME Stopping', mpc' = "submit"
               PROVE  /\ \A c \in {pending', wcmd', worker'.active} : c.gen < ui'.generation
                      /\ \A e \in Queued' : e.gen < ui'.generation
    OBVIOUS
  <2>1. StopHead
    BY WaitingStep, WaitingQuietly
  <2>2. ui'.generation = NextGen /\ pending' = pending
    BY <2>1, WaitingStep DEF StopHead, PollEvent, ReadFacts, SkipFacts, ApplyQuiet, ApplyHead,
       SubmitClosing, NoInput, Quit, BeginExit, RequestExit, Destroy
  <2>3. \A c \in {pending, wcmd, worker.active} : c.gen \in Nat /\ c.gen <= ui.generation
    BY DEF GenerationsInv
  <2> QED
    BY <1>1, <1>4, <2>2, <2>3
<1>6. out'.gen <= ui'.generation
  BY OutStep
<1>7. \A c \in {wcmd, worker.active} : c.gen <= ui'.generation
  BY <1>2 DEF GenerationsInv
<1> QED
  BY <1>1, <1>3, <1>4, <1>5, <1>6, <1>7 DEF GenerationsInv

\* So do the worker and the callbacks: they only pass generations on.
LEMMA GenerationsOther ==
    ASSUME TypeOK, PolicyInv, WorkerInv, GenerationsInv, Other
    PROVE  GenerationsInv'
<1> USE Generations
<1>1. UNCHANGED <<ui, out, mpc>>
  BY OtherKinds
<1>2. /\ pending'.gen \in {pending.gen, wcmd.gen, 0}
      /\ wcmd'.gen \in {wcmd.gen, pending.gen, 0}
      /\ worker'.active.gen \in {worker.active.gen, wcmd.gen}
  <2>1. CASE Quiet
    BY <2>1 DEF Quiet, NoCommand, Command
  <2>2. CASE Taken
    BY <2>2 DEF Taken, NoCommand, Command
  <2>3. CASE Requeue
    BY <2>3 DEF Requeue, NoCommand, Command
  <2>4. CASE StartStreaming \/ StartOther
    <3>1. pending' = pending /\ wcmd' = NoCommand
      BY <2>4 DEF StartStreaming, StartOther, StartHead
    <3>2. worker'.active = wcmd
      BY <2>4, FieldTypes DEF StartStreaming, StartOther, StartHead, WorkerRecords
    <3> QED
      BY <3>1, <3>2 DEF NoCommand, Command
  <2> QED
    BY <2>1, <2>2, <2>3, <2>4, OtherKinds
<1>3. \A e \in Queued' : e \in Queued \/ e.gen = worker.active.gen
  <2>1. CASE events' = events
    BY <2>1 DEF Queued
  <2>2. CASE \E type \in EventTypes : Posted(type)
    <3> PICK type \in EventTypes : Posted(type)
      BY <2>2
    <3>1. /\ events' = Append(events, Event(type, worker.active.gen))
          /\ Event(type, worker.active.gen) \in EventRecords
      BY FieldTypes DEF Posted, Event, EventRecords
    <3>2. Queued' \subseteq Queued \union {Event(type, worker.active.gen)}
      BY <3>1, QueuePosted
    <3> QED
      BY <3>2 DEF Event
  <2> QED
    BY <2>1, <2>2, EventsStep DEF EventsKept
<1>4. CASE Stopping /\ mpc = "submit"
  <2>1. /\ \A c \in {pending, wcmd, worker.active} : c.gen < ui.generation
        /\ \A e \in Queued : e.gen < ui.generation
        /\ 0 < ui.generation
    BY <1>4 DEF GenerationsInv
  <2>2. \A c \in {pending', wcmd', worker'.active} : c.gen < ui.generation /\ c.gen \in Nat
    BY <1>2, <2>1
  <2>3. \A e \in Queued' : e.gen < ui.generation /\ e.gen \in Nat
    BY <1>3, <2>1, QueuedTyped
  <2>4. out.gen <= ui.generation
    BY DEF GenerationsInv
  <2> QED
    BY <1>1, <2>2, <2>3, <2>4 DEF GenerationsInv
<1>5. CASE ~(Stopping /\ mpc = "submit")
  <2>1. /\ \A c \in {pending, wcmd, worker.active, out} : c.gen <= ui.generation
        /\ \A e \in Queued : e.gen <= ui.generation
    BY DEF GenerationsInv
  <2>2. \A c \in {pending', wcmd', worker'.active, out'} : c.gen <= ui.generation
    BY <1>1, <1>2, <2>1
  <2>3. \A e \in Queued' : e.gen <= ui.generation
    BY <1>3, <2>1
  <2> QED
    BY <1>1, <1>5, <2>2, <2>3 DEF GenerationsInv, Stopping
<1> QED
  BY <1>4, <1>5

\* While the user waits for the acknowledgement nothing can start any more.
LEMMA StoppingMain ==
    ASSUME TypeOK, PolicyInv, CommandInv, GenerationsInv, StoppingInv, Main
    PROVE  StoppingInv'
<1> SUFFICES ASSUME Stopping'
             PROVE  StoppingInv'
  BY DEF StoppingInv
<1>1. UNCHANGED <<wcmd, worker>>
  BY MainLeavesWorker
<1>2. CASE StopHead
  <2>1. app' = Life!RequestStop(app) /\ mpc' = "submit"
    BY <1>2 DEF StopHead
  <2>2. ~Life!Running(app') /\ app'.pending_request_id = 0
    BY <2>1, StopFields, MainFieldTypes
  <2>3. ui'.generation = NextGen /\ pending' = pending
    BY <1>2, WaitingStep DEF StopHead, PollEvent, ReadFacts, SkipFacts, ApplyQuiet, ApplyHead,
       SubmitClosing, NoInput, Quit, BeginExit, RequestExit, Destroy
  <2>4. \A c \in {pending, wcmd, worker.active} : c.gen < NextGen
    BY Generations DEF GenerationsInv
  <2> QED
    BY <1>1, <2>1, <2>2, <2>3, <2>4 DEF StoppingInv
<1>3. CASE ~StopHead
  <2>1. Stopping
    BY <1>3, WaitingStep
  <2>2. /\ ui'.generation = ui.generation
        /\ ~Life!Running(app') /\ app'.pending_request_id = 0
        /\ mpc' \notin {"submit", "submitFailed"}
        /\ mpc = "submit" => pending'.type # "STREAM" /\ pending' # NoCommand
        /\ mpc # "submit" => pending' = pending
    BY <1>3, <2>1, WaitingQuietly
  <2> QED
    BY <1>1, <2>1, <2>2 DEF StoppingInv
<1> QED
  BY <1>2, <1>3

\* Nor does the worker bring a start back: the mailbox is not empty while it
\* holds one.
LEMMA StoppingOther ==
    ASSUME TypeOK, PolicyInv, WorkerInv, StoppingInv, Other
    PROVE  StoppingInv'
<1> SUFFICES ASSUME Stopping'
             PROVE  StoppingInv'
  BY DEF StoppingInv
<1>1. UNCHANGED <<ui, app, mpc>> /\ Stopping
  BY OtherKinds DEF Stopping
<1>2. CASE Quiet
  <2>1. /\ pending' = pending /\ worker'.active = worker.active
        /\ wcmd' = wcmd \/ wcmd'.type # "STREAM"
    BY <1>2 DEF Quiet, NoCommand, Command
  <2> QED
    BY <1>1, <2>1 DEF StoppingInv
<1>3. CASE Taken
  <2>1. /\ pending'.type # "STREAM" /\ wcmd' = pending /\ worker' = worker
    BY <1>3 DEF Taken, NoCommand, Command
  <2> QED
    BY <1>1, <2>1 DEF StoppingInv
<1>4. CASE Requeue
  <2>1. /\ pending' = (IF pending = NoCommand THEN wcmd ELSE pending)
        /\ wcmd'.type # "STREAM" /\ worker' = worker
    BY <1>4 DEF Requeue, NoCommand, Command
  <2> QED
    BY <1>1, <2>1 DEF StoppingInv
<1>5. CASE StartStreaming \/ StartOther
  <2>1. pending' = pending /\ wcmd'.type # "STREAM"
    BY <1>5 DEF StartStreaming, StartOther, StartHead, NoCommand, Command
  <2>2. worker'.active = wcmd
    BY <1>5, FieldTypes DEF StartStreaming, StartOther, StartHead, WorkerRecords
  <2> QED
    BY <1>1, <2>1, <2>2 DEF StoppingInv
<1> QED
  BY <1>2, <1>3, <1>4, <1>5, OtherKinds

\* The acknowledgement the user waits for is sent after the cleanup.
Cleared == (Stopping /\ Acknowledged) =>
               FullClosed /\ pending.type # "STREAM" /\ wcmd.type # "STREAM"

\* The main thread starts nothing between the acknowledgement and its receipt.
LEMMA ClearedMain ==
    ASSUME TypeOK, PolicyInv, CommandInv, GenerationsInv, StoppingInv, Cleared, Main
    PROVE  Cleared'
<1> SUFFICES ASSUME Stopping', Acknowledged'
             PROVE  FullClosed' /\ pending'.type # "STREAM" /\ wcmd'.type # "STREAM"
  BY DEF Cleared
<1>1. UNCHANGED <<facts, wpc, wcmd, worker>>
  BY MainLeavesWorker
<1>2. Queued' \subseteq Queued
  BY QueueStep
<1>3. ~StopHead
  <2>1. SUFFICES ASSUME StopHead
                 PROVE  FALSE
    OBVIOUS
  <2>2. ui'.generation = NextGen
    BY <2>1, WaitingStep DEF StopHead, PollEvent, ReadFacts, SkipFacts, ApplyQuiet, ApplyHead,
       SubmitClosing, NoInput, Quit, BeginExit, RequestExit, Destroy
  <2>3. worker.active.gen # NextGen
    BY Generations DEF GenerationsInv
  <2>4. ASSUME NEW e \in Queued
        PROVE  e.gen # NextGen
    BY Generations, QueuedTyped DEF GenerationsInv
  <2> QED
    BY <1>1, <1>2, <2>2, <2>3, <2>4 DEF Acknowledged
<1>4. Stopping
  BY <1>3, WaitingStep
<1>5. /\ ui'.generation = ui.generation
      /\ mpc # "submit" => pending' = pending
  BY <1>3, <1>4, WaitingQuietly
<1>6. Acknowledged
  BY <1>1, <1>2, <1>5 DEF Acknowledged
<1>7. mpc # "submit"
  <2>1. SUFFICES ASSUME mpc = "submit"
                 PROVE  FALSE
    OBVIOUS
  <2>2. /\ worker.active.gen < ui.generation
        /\ \A e \in Queued : e.gen < ui.generation
    BY <1>4, <2>1 DEF GenerationsInv
  <2>3. worker.active.gen # ui.generation
    BY <2>2, Generations
  <2>4. ASSUME NEW e \in Queued
        PROVE  e.gen # ui.generation
    BY <2>2, QueuedTyped, Generations
  <2> QED
    BY <1>6, <2>3, <2>4 DEF Acknowledged
<1> QED
  BY <1>1, <1>4, <1>5, <1>6, <1>7 DEF Cleared, FullClosed

\* The worker acknowledges only what it executed, after the cleanup.
LEMMA ClearedOther ==
    ASSUME TypeOK, PolicyInv, WorkerInv, GenerationsInv, StoppingInv, Cleared, Other
    PROVE  Cleared'
<1> SUFFICES ASSUME Stopping', Acknowledged'
             PROVE  FullClosed' /\ pending'.type # "STREAM" /\ wcmd'.type # "STREAM"
  BY DEF Cleared
<1>1. UNCHANGED <<ui, mpc>> /\ Stopping
  BY OtherKinds DEF Stopping
<1>2. CASE Quiet
  <2>1. Acknowledged
    <3>1. CASE wpc' = "stopped" /\ worker'.active.gen = ui'.generation
      BY <1>1, <1>2, <3>1 DEF Quiet, Acknowledged
    <3>2. CASE \E e \in Queued' : e.type = "STOPPED" /\ e.gen = ui'.generation
      <4> PICK e \in Queued' : e.type = "STOPPED" /\ e.gen = ui'.generation
        BY <3>2
      <4>1. CASE e \in Queued
        BY <1>1, <4>1 DEF Acknowledged
      <4>2. CASE e \notin Queued
        <5>1. events' # events
          BY <4>2 DEF Queued
        <5> PICK type \in EventTypes : Posted(type)
          BY <1>2, <5>1 DEF Quiet, EventsKept
        <5>2. /\ events' = Append(events, Event(type, worker.active.gen))
              /\ Event(type, worker.active.gen) \in EventRecords
          BY FieldTypes DEF Posted, Event, EventRecords
        <5>3. e = Event(type, worker.active.gen)
          BY <4>2, <5>2, QueuePosted
        <5>4. type = "STOPPED" /\ worker.active.gen = ui.generation
          BY <1>1, <5>3 DEF Event
        <5>5. worker.active.type # "STREAM"
          BY <1>1, <5>4, Generations DEF StoppingInv
        <5> QED
          BY <5>4, <5>5 DEF Posted, Acknowledged
      <4> QED
        BY <4>1, <4>2
    <3> QED
      BY <3>1, <3>2 DEF Acknowledged
  <2>2. /\ pending' = pending /\ FactsKept
        /\ wcmd' = wcmd \/ wcmd'.type # "STREAM"
    BY <1>2 DEF Quiet, NoCommand, Command
  <2> QED
    BY <1>1, <2>1, <2>2 DEF Cleared, FullClosed, FactsKept
<1>3. CASE Taken
  <2>1. /\ wpc' = "join" /\ events' = events /\ facts' = facts
        /\ pending'.type # "STREAM" /\ wcmd' = pending
    BY <1>3 DEF Taken, NoCommand, Command
  <2>2. Acknowledged
    BY <1>1, <2>1 DEF Acknowledged, Queued
  <2> QED
    BY <1>1, <2>1, <2>2 DEF Cleared, FullClosed
<1>4. CASE Requeue
  <2>1. /\ wpc' = "loop" /\ events' = events /\ facts' = facts
        /\ pending' \in {wcmd, pending} /\ wcmd'.type # "STREAM"
    BY <1>4 DEF Requeue, NoCommand, Command
  <2>2. Acknowledged
    BY <1>1, <2>1 DEF Acknowledged, Queued
  <2> QED
    BY <1>1, <2>1, <2>2 DEF Cleared, FullClosed
<1>5. CASE StartStreaming
  <2>1. wpc' = "request" /\ events' = events /\ wcmd.type = "STREAM"
    BY <1>5 DEF StartStreaming, StartHead
  <2>2. Acknowledged
    BY <1>1, <2>1 DEF Acknowledged, Queued
  <2> QED
    BY <1>1, <2>1, <2>2 DEF Cleared
<1>6. CASE StartOther
  <2>1. /\ pending' = pending /\ wcmd'.type # "STREAM" /\ events' = events
        /\ facts.requests_closed
    BY <1>6 DEF StartOther, StartHead, NoCommand, Command, WorkerInv, ClosedFacts
  <2>2. facts'.requests_closed /\ facts'.video_clean /\ worker'.active = wcmd
    BY <1>6, <2>1, FieldTypes DEF StartOther, StartHead, Facts, WorkerRecords
  <2>3. mpc # "submit"
    <3>1. SUFFICES ASSUME mpc = "submit"
                   PROVE  FALSE
      OBVIOUS
    <3>2. /\ wcmd.gen < ui.generation
          /\ \A e \in Queued : e.gen < ui.generation
      BY <1>1, <3>1 DEF GenerationsInv
    <3>3. wcmd.gen # ui.generation
      BY <3>2, Generations
    <3>4. ASSUME NEW e \in Queued
          PROVE  e.gen # ui.generation
      BY <3>2, QueuedTyped, Generations
    <3>5. Queued' = Queued
      BY <2>1 DEF Queued
    <3> QED
      BY <1>1, <2>2, <3>3, <3>4, <3>5 DEF Acknowledged
  <2>4. pending.type # "STREAM"
    BY <1>1, <2>3 DEF StoppingInv
  <2> QED
    BY <2>1, <2>2, <2>4 DEF FullClosed
<1> QED
  BY <1>2, <1>3, <1>4, <1>5, <1>6, OtherKinds

\* The acknowledgement invariant is kept.
LEMMA AckStep ==
    ASSUME TypeOK, PolicyInv, WorkerInv, CommandInv, AckInv, [Next]_vars
    PROVE  AckInv'
<1>0. GenerationsInv /\ StoppingInv /\ Cleared
  BY DEF AckInv, Cleared
<1>1. CASE Main
  <2>1. GenerationsInv' /\ StoppingInv' /\ Cleared'
    BY <1>0, <1>1, GenerationsMain, StoppingMain, ClearedMain
  <2> QED
    BY <2>1 DEF AckInv, Cleared
<1>2. CASE Other
  <2>1. GenerationsInv' /\ StoppingInv' /\ Cleared'
    BY <1>0, <1>2, GenerationsOther, StoppingOther, ClearedOther
  <2> QED
    BY <2>1 DEF AckInv, Cleared
<1>3. CASE UNCHANGED vars
  <2>1. UNCHANGED <<ui, app, mpc, out, pending, exitRequested, wcmd, worker, wpc, facts>>
        /\ Queued' = Queued
    BY <1>3 DEF vars, Queued
  <2>2. GenerationsInv'
    BY <1>0, <2>1 DEF GenerationsInv, Stopping
  <2>3. StoppingInv'
    BY <1>0, <2>1 DEF StoppingInv, Stopping
  <2>4. Cleared'
    BY <1>0, <2>1 DEF Cleared, Stopping, Acknowledged, FullClosed
  <2> QED
    BY <2>2, <2>3, <2>4 DEF AckInv, Cleared
<1> QED
  BY <1>1, <1>2, <1>3 DEF Next, Other, Terminated


-----------------------------------------------------------------------------
(* The chance to create a session.                                         *)

\* Outside a start nobody gains the chance; a session uses it up, and so does
\* the client's question for a PIN.
ChanceKept ==
    /\ Startable' => Startable
    /\ \/ worker'.lastSession = worker.lastSession
       \/ /\ Startable /\ ~Startable'
          /\ worker'.lastSession = worker.lastSession + 1
    /\ PinRequired => Startable /\ ~Startable'

\* The chance in the steps of the worker, the client and the session.
LEMMA ChanceStep ==
    ASSUME TypeOK, WorkerInv, Other, ~StartStreaming
    PROVE  ChanceKept
<1> USE FieldTypes
    DEF ChanceKept, Startable, WorkerRecords, IhsRecords, Flags, WorkerInv, BeforeLaunch,
        IdleClient, Registers, ClosedFacts
<1>p. CASE PinRequired
  <2>1. Startable /\ ~Startable' /\ worker' = worker
    BY <1>p DEF PinRequired
  <2> QED
    BY <2>1
<1>1. CASE VideoClean /\ ~PinRequired
  BY <1>1 DEF VideoClean
<1>2. CASE Fail /\ ~PinRequired
  BY <1>2 DEF Fail
<1>3. CASE TakeExit /\ ~PinRequired
  BY <1>3 DEF TakeExit
<1>4. CASE Stopped /\ ~PinRequired
  BY <1>4 DEF Stopped
<1>5. CASE Requeue /\ ~PinRequired
  BY <1>5 DEF Requeue
<1>6. CASE TakeRevoked /\ ~PinRequired
  BY <1>6 DEF TakeRevoked, TakeHead
<1>7. CASE TakeExecuted /\ ~PinRequired
  BY <1>7 DEF TakeExecuted, TakeHead
<1>8. CASE TakeEnded /\ ~PinRequired
  BY <1>8 DEF TakeEnded, TakeHead
<1>9. CASE TakeServed /\ ~PinRequired
  BY <1>9 DEF TakeServed, TakeHead
<1>10. CASE TakeLaunched /\ ~PinRequired
  BY <1>10 DEF TakeLaunched, TakeHead
<1>11. CASE TakeCommandNone /\ ~PinRequired
  BY <1>11 DEF TakeCommandNone, TakeCommandHead
<1>12. CASE TakeCommandExecuted /\ ~PinRequired
  BY <1>12 DEF TakeCommandExecuted, TakeCommandHead
<1>13. CASE FailureServed /\ ~PinRequired
  BY <1>13 DEF FailureServed, FailureHead
<1>14. CASE FailureStops /\ ~PinRequired
  BY <1>14 DEF FailureStops, FailureHead
<1>15. CASE StartOther /\ ~PinRequired
  BY <1>15 DEF StartOther, StartHead
<1>16. CASE PostStopped /\ ~PinRequired
  BY <1>16 DEF PostStopped
<1>17. CASE RequestThaws /\ ~PinRequired
  BY <1>17 DEF RequestThaws, RequestHead
<1>18. CASE RequestFrozen /\ ~PinRequired
  BY <1>18 DEF RequestFrozen, RequestHead
<1>19. CASE RequestRefused /\ ~PinRequired
  BY <1>19 DEF RequestRefused
<1>20. CASE LaunchSession /\ ~PinRequired
  BY <1>20 DEF LaunchSession, LaunchHead
<1>21. CASE LaunchBackend /\ ~PinRequired
  BY <1>21 DEF LaunchBackend, LaunchHead
<1>22. CASE LaunchRefused /\ ~PinRequired
  BY <1>22 DEF LaunchRefused, LaunchFailsHead
<1>23. CASE ConnectRefused /\ ~PinRequired
  BY <1>23 DEF ConnectRefused, LaunchFailsHead
<1>24. CASE BackendFails /\ ~PinRequired
  BY <1>24 DEF BackendFails
<1>25. CASE Ended /\ ~PinRequired
  BY <1>25 DEF Ended
<1>26. CASE BackendReady /\ ~PinRequired
  BY <1>26 DEF BackendReady
<1>27. CASE TransportFails /\ ~PinRequired
  BY <1>27 DEF TransportFails
<1>28. CASE Sample /\ ~PinRequired
  BY <1>28 DEF Sample
<1>29. CASE RenderFails /\ ~PinRequired
  BY <1>29 DEF RenderFails
<1>30. CASE Wait /\ ~PinRequired
  BY <1>30 DEF Wait
<1>31. CASE Leave /\ ~PinRequired
  BY <1>31 DEF Leave
<1>32. CASE Rejected /\ ~PinRequired
  BY <1>32 DEF Rejected
<1>33. CASE LinkUp /\ ~PinRequired
  BY <1>33 DEF LinkUp
<1>34. CASE LinkDown /\ ~PinRequired
  BY <1>34 DEF LinkDown
<1>35. CASE VideoStart /\ ~PinRequired
  BY <1>35 DEF VideoStart
<1>36. CASE VideoStop /\ ~PinRequired
  BY <1>36 DEF VideoStop
<1>37. CASE VideoDrained /\ ~PinRequired
  BY <1>37 DEF VideoDrained
<1>38. CASE \E t \in Transports : Accepted(t)
  <2> PICK t \in Transports : Accepted(t)
    BY <1>38
  <2>1. ~PinRequired
    BY DEF PinRequired, Accepted
  <2> QED
    BY <2>1 DEF Accepted
<1> QED
  BY <1>p, <1>1, <1>2, <1>3, <1>4, <1>5, <1>6, <1>7, <1>8, <1>9, <1>10, <1>11, <1>12, <1>13,
     <1>14, <1>15, <1>16, <1>17, <1>18, <1>19, <1>20, <1>21, <1>22, <1>23, <1>24, <1>25,
     <1>26, <1>27, <1>28, <1>29, <1>30, <1>31, <1>32, <1>33, <1>34, <1>35, <1>36, <1>37,
     <1>38, OtherSteps

\* At most one queued event asks for the PIN of the accepted request.
OneAsks == \A i, j \in 1 .. Len(events) : AsksPin(events[i]) /\ AsksPin(events[j]) => i = j

\* Polling keeps that, and the event polled was the one.
LEMMA AsksPolled ==
    ASSUME TypeOK, OneAsks, events # <<>>, events' = Tail(events), facts' = facts
    PROVE  /\ OneAsks' /\ (PinQueued' => PinQueued)
           /\ AsksPin(Head(events)) => PinQueued /\ ~PinQueued'
<1>1. events \in Seq(EventRecords)
  BY FieldTypes
<1>2. /\ 1 \in 1 .. Len(events) /\ Head(events) = events[1]
      /\ \A i \in 1 .. Len(Tail(events)) :
            i + 1 \in 1 .. Len(events) /\ Tail(events)[i] = events[i + 1]
  BY <1>1
<1>3. OneAsks'
  <2> SUFFICES ASSUME NEW i \in 1 .. Len(Tail(events)), NEW j \in 1 .. Len(Tail(events)),
                      AsksPin(Tail(events)[i]), AsksPin(Tail(events)[j])
               PROVE  i = j
    BY DEF OneAsks, AsksPin
  <2>1. /\ i + 1 \in 1 .. Len(events) /\ AsksPin(events[i + 1])
        /\ j + 1 \in 1 .. Len(events) /\ AsksPin(events[j + 1])
    BY <1>2
  <2>2. i + 1 = j + 1
    BY <2>1 DEF OneAsks
  <2> QED
    BY <2>2
<1>4. PinQueued' => PinQueued
  BY QueuePolled DEF PinQueued, AsksPin
<1>5. AsksPin(Head(events)) => PinQueued
  BY QueuePolled DEF PinQueued
<1>6. ASSUME AsksPin(Head(events)), PinQueued'
      PROVE  FALSE
  <2>1. PICK i \in 1 .. Len(Tail(events)) : AsksPin(Tail(events)[i])
    BY <1>6 DEF PinQueued, Queued, AsksPin
  <2>2. i + 1 \in 1 .. Len(events) /\ AsksPin(events[i + 1]) /\ AsksPin(events[1])
    BY <1>2, <1>6, <2>1
  <2>3. i + 1 = 1
    BY <1>2, <2>2 DEF OneAsks
  <2> QED
    BY <2>3
<1> QED
  BY <1>3, <1>4, <1>5, <1>6

\* Posting keeps it too, when there was none or the event does not ask.
LEMMA AsksPosted ==
    ASSUME TypeOK, OneAsks, NEW e \in EventRecords, events' = Append(events, e),
           facts'.request_id = facts.request_id, ~PinQueued \/ ~AsksPin(e)
    PROVE  OneAsks' /\ (PinQueued' => PinQueued \/ AsksPin(e))
<1>1. events \in Seq(EventRecords)
  BY FieldTypes
<1>2. \A x : AsksPin(x)' <=> AsksPin(x)
  BY DEF AsksPin
<1>3. OneAsks'
  <2> DEFINE q == Append(events, e)
  <2> SUFFICES ASSUME NEW i \in 1 .. Len(q), NEW j \in 1 .. Len(q),
                      AsksPin(q[i]), AsksPin(q[j])
               PROVE  i = j
    BY DEF OneAsks, AsksPin
  <2>1. /\ Len(q) = Len(events) + 1 /\ Len(events) \in Nat /\ q[Len(events) + 1] = e
        /\ \A k \in 1 .. Len(events) : q[k] = events[k]
    BY <1>1
  <2> HIDE DEF q
  <2>2. CASE ~AsksPin(e)
    <3>1. i \in 1 .. Len(events) /\ j \in 1 .. Len(events)
      BY <2>1, <2>2
    <3> QED
      BY <2>1, <3>1 DEF OneAsks
  <2>3. CASE ~PinQueued
    <3>1. \A k \in 1 .. Len(events) : ~AsksPin(q[k])
      BY <2>1, <2>3 DEF PinQueued, Queued
    <3>2. i = Len(events) + 1 /\ j = Len(events) + 1
      BY <2>1, <3>1
    <3> QED
      BY <3>2
  <2> QED
    BY <2>2, <2>3
<1>4. PinQueued' => PinQueued \/ AsksPin(e)
  BY QueuePosted DEF PinQueued, AsksPin
<1> QED
  BY <1>3, <1>4

\* The main thread hands the chance on: from the queue to the page, and from
\* the page to the mailbox.
LEMMA TokenMain ==
    ASSUME TypeOK, PolicyInv, CommandInv, TokenInv, Main
    PROVE  TokenInv'
<1>1. UNCHANGED <<facts, flags, wpc, wcmd, ticket, worker, ihs>>
  BY MainLeavesWorker
<1>2. (Startable' <=> Startable) /\ (Again(wcmd') <=> Again(wcmd))
  BY <1>1 DEF Startable
<1>3. OneAsks
  BY DEF OneAsks, TokenInv
<1>4. CASE PollEvent
  <2>1. /\ events # <<>> /\ events' = Tail(events) /\ pending' = pending
    BY <1>4 DEF PollEvent
  <2>2. /\ OneAsks' /\ (PinQueued' => PinQueued)
        /\ AsksPin(Head(events)) => PinQueued /\ ~PinQueued'
    BY <1>1, <1>3, <2>1, AsksPolled
  <2>3. OnPinPage' => OnPinPage \/ AsksPin(Head(events))
    <3> SUFFICES ASSUME OnPinPage'
                 PROVE  OnPinPage \/ AsksPin(Head(events))
      OBVIOUS
    <3>1. /\ ui'.page = "PIN" /\ ui'.generation = facts.request_id
          /\ ui'.generation = ui.generation
      BY <1>1, PinPageStep DEF OnPinPage
    <3> QED
      BY <3>1, PinPageStep DEF OnPinPage, AsksPin
  <2> QED
    BY <1>1, <1>2, <2>1, <2>2, <2>3 DEF TokenInv, OneAsks
<1>5. CASE ~PollEvent
  <2>1. events' = events
    BY <1>5, MainSteps DEF ReadFacts, SkipFacts, ApplyFails, ApplyStarts, ApplyCrowded,
       ApplyQuiet, ApplyHead, SubmitClosing, AskRefused, AskWaits, AskAdmitted, AskCrowded,
       AskHead, PinSubmitted, PinRefused, PinHead, StopAsked, CancelAsked, StopHead, ExitAsked,
       Dialog, NoInput, Quit, BeginExit, RequestExit, Destroy
  <2>2. (PinQueued' <=> PinQueued) /\ OneAsks'
    BY <1>1, <1>3, <2>1 DEF PinQueued, Queued, AsksPin, OneAsks
  <2>3. OnPinPage' => OnPinPage /\ ~SubmitPin
    BY <1>1, <1>5, PinPageStep DEF OnPinPage
  <2>4. Again(pending') => Again(pending) \/ (OnPinPage /\ SubmitPin)
    <3>1. CASE pending' = pending
      BY <3>1
    <3>2. CASE mpc \in {"submit", "submitFailed"} /\ pending' = out
      BY <3>2 DEF CommandInv, Closers, Again
    <3>3. CASE \/ pending' = Command("STREAM", app.pending_request_id)
               \/ pending' = Command("STREAM", NextGen)
      BY <3>3 DEF Command, Again
    <3>4. CASE PinSubmitted
      <4>1. ui.page = "PIN" /\ app.phase = "STARTING" /\ app.request_id = ui.generation
        BY <3>4 DEF PinSubmitted, PinHead
      <4>2. /\ facts.request_id \in Nat /\ ui.generation \in Nat
            /\ app.last_request_id \in Nat
        BY FieldTypes, MainFieldTypes, BoundsAssumption DEF Life!Lifecycle
      <4>3. OnPinPage
        BY <4>1, <4>2 DEF CommandInv, PolicyInv, OnPinPage
      <4>4. SubmitPin
        <5>1. /\ ui' = [ui EXCEPT !.page = "CONNECTING"]
              /\ pending' = [Command("STREAM", ui.generation) EXCEPT !.pin = TRUE]
              /\ PinHead /\ app.phase = "STARTING" /\ app.request_id = ui.generation
              /\ pending = NoCommand
          BY <3>4 DEF PinSubmitted
        <5>2. [Command("STREAM", ui.generation) EXCEPT !.pin = TRUE].gen = ui.generation
          BY DEF Command
        <5> QED
          BY <5>1, <5>2 DEF PinHead, SubmitPin, DispatchPin, Admits
      <4> QED
        BY <4>3, <4>4
    <3> QED
      BY <3>1, <3>2, <3>3, <3>4, MailboxStep
  <2> QED
    BY <1>1, <1>2, <2>2, <2>3, <2>4 DEF TokenInv, OneAsks
<1> QED
  BY <1>4, <1>5

\* The worker takes it over with the command, or gives it away for a session
\* or a question.
LEMMA TokenOther ==
    ASSUME TypeOK, PolicyInv, WorkerInv, CommandInv, TokenInv, Other
    PROVE  TokenInv'
<1>0. /\ facts.request_id \in Nat /\ worker.lastSession \in Nat /\ wcmd.gen \in Nat
      /\ ui.generation \in Nat /\ app.request_id \in Nat
  BY FieldTypes, MainFieldTypes, BoundsAssumption DEF Life!Lifecycle
<1>1. ui' = ui
  BY OtherKinds
<1>2. OneAsks
  BY DEF OneAsks, TokenInv
<1>3. ChanceKept \/ StartStreaming
  BY ChanceStep
<1>4. CASE Quiet /\ ~StartStreaming
  <2>1. /\ facts'.request_id = facts.request_id /\ pending' = pending
        /\ Again(wcmd') => Again(wcmd)
    BY <1>4 DEF Quiet, FactsKept, Again, NoCommand, Command
  <2>2. OnPinPage' <=> OnPinPage
    BY <1>1, <2>1 DEF OnPinPage
  <2>3. OneAsks' /\ (PinQueued' => PinQueued \/ (Startable /\ ~Startable'))
    <3>1. CASE events' = events
      BY <1>2, <2>1, <3>1 DEF OneAsks, PinQueued, Queued, AsksPin
    <3>2. CASE \E type \in EventTypes : Posted(type)
      <4> PICK type \in EventTypes : Posted(type)
        BY <3>2
      <4> DEFINE e == Event(type, worker.active.gen)
      <4>1. events' = Append(events, e) /\ e \in EventRecords
        BY FieldTypes DEF Posted, Event, EventRecords
      <4>2. AsksPin(e) => Startable /\ ~Startable'
        BY <1>3, <1>4 DEF AsksPin, Event, Posted, ChanceKept
      <4>3. Startable => ~PinQueued
        BY DEF TokenInv
      <4> HIDE DEF e
      <4> QED
        BY <1>2, <2>1, <4>1, <4>2, <4>3, AsksPosted
    <3> QED
      BY <1>4, <3>1, <3>2 DEF Quiet, EventsKept
  <2>4. CASE worker'.lastSession = worker.lastSession
    BY <1>0, <1>3, <1>4, <2>1, <2>2, <2>3, <2>4 DEF ChanceKept, TokenInv, OneAsks
  <2>5. CASE Startable /\ ~Startable' /\ worker'.lastSession = worker.lastSession + 1
    <3>1. ~OnPinPage /\ ~PinQueued /\ ~Again(pending) /\ ~Again(wcmd)
          /\ worker.lastSession < facts.request_id
      BY <2>5 DEF TokenInv
    <3>2. ~PinQueued'
      <4>1. events' = events \/ ~PinRequired
        <5>1. PinRequired => worker' = worker
          BY DEF PinRequired
        <5>2. worker' # worker
          BY <1>0, <2>5
        <5> QED
          BY <5>1, <5>2
      <4>2. CASE events' = events
        BY <2>1, <3>1, <4>2 DEF PinQueued, Queued, AsksPin
      <4>3. CASE ~PinRequired /\ \E type \in EventTypes : Posted(type)
        <5> PICK type \in EventTypes : Posted(type)
          BY <4>3
        <5>1. /\ events' = Append(events, Event(type, worker.active.gen))
              /\ Event(type, worker.active.gen) \in EventRecords
          BY FieldTypes DEF Posted, Event, EventRecords
        <5>2. ~AsksPin(Event(type, worker.active.gen))
          BY <4>3 DEF AsksPin, Event, Posted
        <5> QED
          BY <1>2, <2>1, <3>1, <5>1, <5>2, AsksPosted
      <4> QED
        BY <1>4, <4>1, <4>2, <4>3 DEF Quiet, EventsKept
    <3> QED
      BY <1>0, <2>1, <2>2, <2>3, <2>5, <3>1, <3>2 DEF TokenInv, OneAsks
  <2> QED
    BY <1>3, <1>4, <2>4, <2>5 DEF ChanceKept
<1>5. CASE (Taken \/ Requeue) /\ ~StartStreaming
  <2>1. /\ UNCHANGED <<facts, worker, events>>
        /\ Again(wcmd') => Again(pending)
        /\ Again(wcmd') => ~Again(pending')
        /\ Again(pending') => Again(pending) \/ Again(wcmd)
    BY <1>5 DEF Taken, Requeue, Again, NoCommand, Command
  <2>2. /\ OnPinPage' <=> OnPinPage
        /\ PinQueued' <=> PinQueued
        /\ OneAsks'
    BY <1>1, <1>2, <2>1 DEF OnPinPage, PinQueued, Queued, AsksPin, OneAsks
  <2>3. Startable' => Startable
    BY <1>3, <1>5 DEF ChanceKept
  <2> QED
    BY <2>1, <2>2, <2>3 DEF TokenInv, OneAsks
<1>6. CASE StartStreaming
  <2>1. /\ wcmd.type = "STREAM" /\ facts'.request_id = wcmd.gen /\ events' = events
        /\ pending' = pending /\ ~Again(wcmd')
    BY <1>6 DEF StartStreaming, StartHead, Again, NoCommand, Command
  <2>2. worker'.lastSession = worker.lastSession
    BY <1>6, FieldTypes DEF StartStreaming, StartHead, WorkerRecords
  <2>3. pending.type # "STREAM" \/ Again(wcmd)
    BY <2>1 DEF CommandInv, Unaccepted, Again
  <2>4. CASE Again(wcmd)
    <3>1. wcmd.gen = facts.request_id
      BY <2>4 DEF CommandInv
    <3>2. /\ ~OnPinPage /\ ~PinQueued /\ ~Again(pending)
          /\ worker.lastSession < facts.request_id
      BY <2>4 DEF TokenInv
    <3>3. ~OnPinPage' /\ ~PinQueued' /\ OneAsks'
      BY <1>1, <1>2, <2>1, <3>1, <3>2 DEF OnPinPage, PinQueued, Queued, AsksPin, OneAsks
    <3> QED
      BY <1>0, <2>1, <2>2, <3>1, <3>2, <3>3 DEF TokenInv, OneAsks
  <2>5. CASE ~Again(wcmd)
    <3>1. /\ Unaccepted(wcmd) /\ pending.type # "STREAM"
      BY <2>1, <2>3, <2>5 DEF Unaccepted, Again
    <3>2. facts.request_id < wcmd.gen
      BY <3>1 DEF CommandInv
    <3>3. ~OnPinPage'
      BY <1>0, <1>1, <2>1, <3>2 DEF OnPinPage, CommandInv
    <3>4. ASSUME NEW e \in Queued
          PROVE  ~(e.type = "PIN" /\ e.gen = wcmd.gen)
      <4>1. e.gen \in Nat /\ (e.type = "PIN" => e.gen <= facts.request_id)
        BY QueuedTyped DEF CommandInv
      <4> QED
        BY <1>0, <3>2, <4>1
    <3>5. ~PinQueued'
      BY <2>1, <3>4 DEF PinQueued, Queued, AsksPin
    <3>6. OneAsks'
      BY <3>5 DEF PinQueued, Queued, OneAsks
    <3>7. worker.lastSession <= facts.request_id
      BY DEF TokenInv
    <3> QED
      BY <1>0, <2>1, <2>2, <3>1, <3>2, <3>3, <3>5, <3>6, <3>7 DEF TokenInv, OneAsks, Again
  <2> QED
    BY <2>4, <2>5
<1>7. CASE StartOther
  <2>1. /\ facts'.request_id = facts.request_id /\ worker'.lastSession = worker.lastSession
    BY <1>7, FieldTypes DEF StartOther, StartHead, Facts, WorkerRecords
  <2>2. events' = events /\ pending' = pending /\ ~Again(wcmd') /\ ~StartStreaming
    BY <1>7 DEF StartOther, StartStreaming, StartHead, Again, NoCommand, Command
  <2>3. /\ OnPinPage' <=> OnPinPage
        /\ PinQueued' <=> PinQueued
        /\ OneAsks'
    BY <1>1, <1>2, <2>1, <2>2 DEF OnPinPage, PinQueued, Queued, AsksPin, OneAsks
  <2> QED
    BY <1>3, <2>1, <2>2, <2>3 DEF ChanceKept, TokenInv, OneAsks
<1> QED
  BY <1>4, <1>5, <1>6, <1>7, OtherKinds

\* There stays one chance.
LEMMA TokenStep ==
    ASSUME TypeOK, PolicyInv, WorkerInv, CommandInv, TokenInv, [Next]_vars
    PROVE  TokenInv'
<1>1. CASE Main
  BY <1>1, TokenMain
<1>2. CASE Other
  BY <1>2, TokenOther
<1>3. CASE UNCHANGED vars
  BY <1>3 DEF vars, TokenInv, Startable, OnPinPage, PinQueued, Queued, AsksPin, Again
<1> QED
  BY <1>1, <1>2, <1>3 DEF Next, Other, Terminated

-----------------------------------------------------------------------------
(* The pauses and resumes of one session.                                  *)

\* What the video numbers depend on.
NumbersKept ==
    /\ facts'.epoch = facts.epoch /\ facts'.transition = facts.transition
    /\ "open" \in media'.video => "open" \in media.video

\* Only the session's video calls and a new request move the video numbers.
LEMMA NumbersStep ==
    ASSUME TypeOK, Other, ~StartStreaming, ~VideoStart, ~VideoStop
    PROVE  NumbersKept
<1> USE FieldTypes DEF Facts, MediaRecords, NumbersKept
<1>1. CASE Requeue \/ TakeServed \/ TakeLaunched \/ TakeCommandNone \/ FailureServed
          \/ PostStopped \/ RequestFrozen \/ RequestRefused \/ LaunchBackend
          \/ BackendFails \/ Ended \/ RenderFails \/ Wait \/ Rejected \/ PinRequired
          \/ LinkDown \/ (\E t \in Transports : Accepted(t))
  <2>1. UNCHANGED <<facts, media>>
    BY <1>1 DEF Requeue, TakeServed, TakeHead, TakeLaunched, TakeCommandNone, TakeCommandHead,
           FailureServed, FailureHead, PostStopped, RequestFrozen, RequestHead,
           RequestRefused, LaunchBackend, LaunchHead, BackendFails, Ended, RenderFails, Wait,
           Rejected, PinRequired, LinkDown, Accepted
  <2> QED
    BY <2>1
<1>2. CASE VideoClean
  BY <1>2 DEF VideoClean
<1>3. CASE Fail
  BY <1>3 DEF Fail
<1>4. CASE TakeExit
  BY <1>4 DEF TakeExit
<1>5. CASE Stopped
  BY <1>5 DEF Stopped
<1>6. CASE TakeRevoked
  BY <1>6 DEF TakeRevoked, TakeHead
<1>7. CASE TakeExecuted
  BY <1>7 DEF TakeExecuted, TakeHead
<1>8. CASE TakeEnded
  BY <1>8 DEF TakeEnded, TakeHead
<1>9. CASE TakeCommandExecuted
  BY <1>9 DEF TakeCommandExecuted, TakeCommandHead
<1>10. CASE FailureStops
  BY <1>10 DEF FailureStops, FailureHead
<1>11. CASE StartOther
  BY <1>11 DEF StartOther, StartHead
<1>12. CASE RequestThaws
  BY <1>12 DEF RequestThaws, RequestHead
<1>13. CASE LaunchSession
  BY <1>13 DEF LaunchSession, LaunchHead
<1>14. CASE LaunchRefused
  BY <1>14 DEF LaunchRefused, LaunchFailsHead
<1>15. CASE ConnectRefused
  BY <1>15 DEF ConnectRefused, LaunchFailsHead
<1>16. CASE BackendReady
  BY <1>16 DEF BackendReady
<1>17. CASE TransportFails
  BY <1>17 DEF TransportFails
<1>18. CASE Sample
  BY <1>18 DEF Sample
<1>19. CASE Leave
  BY <1>19 DEF Leave
<1>20. CASE LinkUp
  BY <1>20 DEF LinkUp
<1>21. CASE VideoDrained
  BY <1>21 DEF VideoDrained
<1> QED
  BY <1>1, <1>2, <1>3, <1>4, <1>5, <1>6, <1>7, <1>8, <1>9, <1>10, <1>11, <1>12, <1>13, <1>14,
     <1>15, <1>16, <1>17, <1>18, <1>19, <1>20, <1>21, OtherSteps

\* Pauses and resumes alternate, beginning with a resume of a new epoch.
LEMMA TransitionStep ==
    ASSUME TypeOK, WorkerInv, TransitionInv, [Next]_vars
    PROVE  TransitionInv'
<1>0. facts \in Facts /\ facts.epoch \in Nat /\ facts.transition \in Nat
  BY FieldTypes, BoundsAssumption DEF Facts
<1>1. CASE Main
  <2>1. /\ facts' = facts
        /\ media' = media \/ media' = [media EXCEPT !.frozen = TRUE]
    BY <1>1, MainLeavesWorker
  <2>2. media'.video = media.video
    BY <2>1, FieldTypes DEF MediaRecords
  <2> QED
    BY <2>1, <2>2 DEF TransitionInv
<1>2. CASE Other /\ ~StartStreaming /\ ~VideoStart /\ ~VideoStop
  BY <1>2, NumbersStep DEF NumbersKept, TransitionInv
<1>3. CASE StartStreaming
  <2>1. facts'.transition = 0 /\ facts'.epoch = 0 /\ media'.video = {}
    BY <1>3 DEF StartStreaming, StartHead
  <2> QED
    BY <2>1 DEF TransitionInv
<1>4. CASE VideoStart
  <2>1. facts.session_id = worker.session
    BY <1>4 DEF VideoStart, WorkerInv, VideoOwner
  <2>2. /\ facts'.epoch = facts.epoch + 1
        /\ facts'.transition = facts.transition + 1
    BY <1>0, <1>4, <2>1 DEF VideoStart, Facts
  <2> QED
    BY <1>0, <2>2 DEF TransitionInv
<1>5. CASE VideoStop
  <2>1. facts.session_id = worker.session
    BY <1>5 DEF VideoStop, WorkerInv, VideoOwner
  <2>2. /\ facts'.epoch = facts.epoch
        /\ facts'.transition = facts.transition + 1
    BY <1>0, <1>5, <2>1 DEF VideoStop, Facts
  <2>3. "open" \notin media'.video
    BY <1>5, FieldTypes DEF VideoStop, MediaRecords
  <2>4. facts.transition < 2 * facts.epoch
    BY <1>5 DEF VideoStop, TransitionInv
  <2> QED
    BY <1>0, <2>2, <2>3, <2>4 DEF TransitionInv
<1>6. CASE UNCHANGED vars
  BY <1>6 DEF vars, TransitionInv
<1> QED
  BY <1>1, <1>2, <1>3, <1>4, <1>5, <1>6 DEF Next, Other, Terminated

-----------------------------------------------------------------------------
(* The theorems.                                                           *)

\* The types hold initially.
LEMMA InitTyped ==
    ASSUME Init
    PROVE  TypeOK
<1> USE BoundsAssumption DEF Init
<1>0. 0 \in 0 .. MaxGen /\ 0 \in 0 .. MaxEpoch /\ 0 \in 0 .. 2 * MaxEpoch
  OBVIOUS
<1>1. ui \in [page : Pages, generation : 0 .. MaxGen, streaming : BOOLEAN, closing : BOOLEAN]
  BY <1>0 DEF Pages
<1>2. app \in Life!Lifecycle
  BY DEF Life!LifecycleInit, Life!Lifecycle
<1>3. out \in Commands /\ pending \in Commands /\ wcmd \in Commands
  BY <1>0 DEF NoCommand, Command, Commands
<1>4. snap \in Facts /\ facts \in Facts
  BY <1>0 DEF Facts
<1>5. events \in Seq([type : EventTypes, gen : 0 .. MaxGen])
  OBVIOUS
<1>6. flags \in Flags
  BY DEF Flags
<1>7. media \in [frozen : BOOLEAN, video : SUBSET {"open", "draining"}]
  OBVIOUS
<1>8. NoCommand \in Commands
  BY <1>3
<1>9. worker \in [active : Commands, session : 0 .. MaxGen, lastSession : 0 .. MaxGen,
                  sns : {"none", "waiting", "up"}, waitingVideo : BOOLEAN,
                  firstReported : BOOLEAN]
  BY <1>0, <1>8
<1>10. ihs \in [request : {"idle", "pending"}, link : {"none", "new", "up", "down"}]
  OBVIOUS
<1>11. replacement \in 0 .. MaxGen /\ exitRequested \in BOOLEAN
       /\ ticket \in {"none", "udp", "sdr"} /\ mpc = "events"
  BY <1>0
<1> QED
  BY <1>1, <1>2, <1>3, <1>4, <1>5, <1>6, <1>7, <1>9, <1>10, <1>11 DEF TypeOK

\* Nothing is owned, in flight or outstanding initially.
LEMMA InitInv ==
    ASSUME Init
    PROVE  IInv
<1> USE DEF NoCommand, Command
<1>0. TypeOK
  BY InitTyped
<1>1. PolicyInv
  BY DEF Init, PolicyInv, Life!LifecycleInit
<1>2. WorkerInv
  BY DEF Init, WorkerInv, LiveRequest, Busy, BeforeLaunch, IdleClient, Registers,
         ClosedFacts, VideoOwner
<1>3. Queued = {}
  BY DEF Init, Queued
<1>4. CommandInv
  BY <1>3 DEF Init, CommandInv, Unaccepted, Again, Life!LifecycleInit
<1>5. HandoverInv
  BY DEF Init, HandoverInv, FullClosed, Life!LifecycleInit
<1>6. FreezeInv
  BY DEF Init, FreezeInv, Settled, Unaccepted, Life!LifecycleInit
<1>7. AckInv
  BY <1>3 DEF Init, AckInv, GenerationsInv, StoppingInv, Stopping
<1>8. TokenInv
  <2>1. /\ events = <<>> /\ worker.lastSession = 0 /\ facts.request_id = 0
        /\ ~Startable /\ ~OnPinPage /\ ~Again(pending) /\ ~Again(wcmd)
    BY DEF Init, Startable, OnPinPage, Again
  <2>2. ~PinQueued
    BY <1>3 DEF PinQueued
  <2> QED
    BY <2>1, <2>2 DEF TokenInv
<1>9. TransitionInv
  BY DEF Init, TransitionInv
<1> QED
  BY <1>0, <1>1, <1>2, <1>4, <1>5, <1>6, <1>7, <1>8, <1>9 DEF IInv

\* The parts of the invariant hold together: each step keeps every part of it.
LEMMA StepInv ==
    ASSUME IInv, [Next]_vars
    PROVE  IInv'
<1> USE DEF IInv
<1>1. TypeOK'
  BY StepTyped
<1>2. PolicyInv'
  BY PolicyStep
<1>3. WorkerInv'
  BY WorkerStep
<1>4. CommandInv'
  BY CommandStep
<1>5. HandoverInv'
  BY HandoverStep
<1>6. FreezeInv'
  BY FreezeStep
<1>7. AckInv'
  BY AckStep
<1>8. TokenInv'
  BY TokenStep
<1>9. TransitionInv'
  BY TransitionStep
<1> QED
  BY <1>1, <1>2, <1>3, <1>4, <1>5, <1>6, <1>7, <1>8, <1>9

\* The inductive invariant of the streaming session.
THEOREM Inductive == Spec => []IInv
<1>1. Init => IInv
  BY InitInv
<1>2. IInv /\ [Next]_vars => IInv'
  BY StepInv
<1> QED
  BY <1>1, <1>2, PTL DEF Spec

\* Where everything of the accepted request is closed, it is really gone.
LEMMA ClosedIsGone ==
    ASSUME TypeOK, WorkerInv, FullClosed
    PROVE  RequestsReturned /\ ProtocolReturned /\ VideoReturned
<1>1. ~Busy
  BY DEF WorkerInv, LiveRequest, ClosedFacts, FullClosed
<1>2. media.video = {}
  BY DEF WorkerInv, VideoOwner, ClosedFacts, FullClosed
<1> QED
  BY <1>1, <1>2, FieldTypes DEF Busy, IhsRecords, RequestsReturned, ProtocolReturned,
     VideoReturned

\* Every variable keeps its type in every behaviour of the session.
THEOREM SessionTypes == Spec => []TypeOK
<1>1. IInv => TypeOK
  BY DEF IInv
<1> QED
  BY <1>1, Inductive, PTL

\* A running owner whose request the runtime has not accepted yet finds nothing
\* left of an older one: the facts of that one said so, and they were true.
THEOREM HandoverHolds == Spec => []OwnerHandover
<1>1. IInv => OwnerHandover
  <2> SUFFICES ASSUME IInv, Life!Running(app), app.request_id # facts.request_id,
                      ~worker.active.pin
               PROVE  RequestsReturned /\ ProtocolReturned /\ VideoReturned
    BY DEF OwnerHandover
  <2>1. FullClosed
    BY DEF IInv, HandoverInv
  <2> QED
    BY <2>1, ClosedIsGone DEF IInv
<1> QED
  BY <1>1, Inductive, PTL

\* The evidence the policy holds is true of the runtime for as long as it
\* holds it, which is what AppLifecycle assumes of its caller.
THEOREM EvidenceHolds == Spec => []EvidenceIsTrue
<1>1. IInv => EvidenceIsTrue
  <2> SUFFICES ASSUME IInv, ~worker.active.pin
               PROVE  Life!Evidence \subseteq Returned
    BY DEF EvidenceIsTrue
  <2>1. /\ app.requests_closed \/ app.protocol_closed => ~Busy
        /\ app.video_clean => media.video = {}
    <3>1. CASE FullClosed
      <4>1. ~Busy
        BY <3>1 DEF IInv, WorkerInv, LiveRequest, ClosedFacts, FullClosed
      <4>2. media.video = {}
        BY <3>1 DEF IInv, WorkerInv, VideoOwner, ClosedFacts, FullClosed
      <4> QED
        BY <4>1, <4>2
    <3>2. CASE ~FullClosed
      <4>1. app.request_id = facts.request_id /\ app.request_id # 0
        BY <3>2 DEF IInv, HandoverInv, FullClosed
      <4>2. /\ app.requests_closed \/ app.protocol_closed => facts.requests_closed
            /\ app.video_clean => facts.video_clean
        BY <4>1 DEF IInv, HandoverInv
      <4> QED
        BY <4>2 DEF IInv, WorkerInv, LiveRequest, ClosedFacts
    <3> QED
      BY <3>1, <3>2
  <2>2. ~Busy => RequestsReturned /\ ProtocolReturned
    BY FieldTypes DEF IInv, Busy, IhsRecords, RequestsReturned, ProtocolReturned
  <2> QED
    BY <2>1, <2>2 DEF Life!Evidence, Life!Given, Life!Resources, Returned, VideoReturned
<1> QED
  BY <1>1, Inductive, PTL

\* No start under way reopens the video of an owner that is being closed.
THEOREM FreezeHolds == Spec => []FrozenWhileClosing
<1>1. IInv => FrozenWhileClosing
  BY DEF IInv, FreezeInv, Settled, FrozenWhileClosing
<1> QED
  BY <1>1, Inductive, PTL

\* Only a launch creates a session or gives the facts another one.
LEMMA SessionStep ==
    ASSUME TypeOK, WorkerInv, Other, ~StartStreaming, ~LaunchSession, ~ConnectRefused,
           ~BackendReady
    PROVE  facts'.session_id = facts.session_id /\ worker'.session \in {0, worker.session}
<1> USE FieldTypes DEF Facts, WorkerRecords
<1>1. CASE TakeExit \/ Requeue \/ TakeRevoked \/ TakeExecuted \/ TakeEnded \/ TakeServed
          \/ TakeLaunched \/ TakeCommandNone \/ TakeCommandExecuted \/ FailureServed
          \/ FailureStops \/ PostStopped \/ RequestThaws \/ RequestFrozen \/ RequestRefused
          \/ LaunchRefused \/ BackendFails \/ Ended \/ TransportFails \/ RenderFails
          \/ Wait \/ Rejected \/ PinRequired \/ LinkDown \/ VideoDrained
          \/ (\E t \in Transports : Accepted(t))
  <2>1. UNCHANGED <<facts, worker>>
    BY <1>1 DEF TakeExit, Requeue, TakeRevoked, TakeHead, TakeExecuted, TakeEnded, TakeServed,
           TakeLaunched, TakeCommandNone, TakeCommandHead, TakeCommandExecuted, FailureServed,
           FailureHead, FailureStops, PostStopped, RequestThaws, RequestHead, RequestFrozen,
           RequestRefused, LaunchRefused, LaunchFailsHead, BackendFails, Ended,
           TransportFails, RenderFails, Wait, Rejected, PinRequired, LinkDown, VideoDrained,
           Accepted
  <2> QED
    BY <2>1
<1>2. CASE VideoClean
  BY <1>2 DEF VideoClean
<1>3. CASE Fail
  BY <1>3 DEF Fail
<1>4. CASE Stopped
  BY <1>4 DEF Stopped
<1>5. CASE StartOther
  BY <1>5 DEF StartOther, StartHead
<1>6. CASE LaunchBackend
  BY <1>6 DEF LaunchBackend, LaunchHead
<1>7. CASE Sample
  BY <1>7 DEF Sample
<1>8. CASE Leave
  BY <1>8 DEF Leave
<1>9. CASE LinkUp
  BY <1>9 DEF LinkUp
<1>10. CASE VideoStart
  <2>1. facts.session_id = worker.session /\ worker' = worker
    BY <1>10 DEF VideoStart, WorkerInv, VideoOwner
  <2> QED
    BY <1>10, <2>1 DEF VideoStart
<1>11. CASE VideoStop
  <2>1. facts.session_id = worker.session /\ worker' = worker
    BY <1>11 DEF VideoStop, WorkerInv, VideoOwner
  <2> QED
    BY <1>11, <2>1 DEF VideoStop
<1> QED
  BY <1>1, <1>2, <1>3, <1>4, <1>5, <1>6, <1>7, <1>8, <1>9, <1>10, <1>11, OtherSteps

\* Once the requests of a request are closed, no session is created under it,
\* and the session it named stays named, whichever answer arrives late.
THEOREM ClosedHolds == Spec => ClosedIsFinal
<1>1. ASSUME IInv, [Next]_vars,
             facts.requests_closed, facts'.requests_closed,
             facts'.request_id = facts.request_id
      PROVE  facts'.session_id = facts.session_id /\ worker'.session \in {0, worker.session}
  <2> USE <1>1 DEF IInv
  <2>1. CASE Main
    BY <2>1, MainLeavesWorker
  <2>2. CASE Other
    <3>1. ~Busy
      BY DEF WorkerInv, LiveRequest
    <3>2. ~LaunchSession /\ ~ConnectRefused /\ ~BackendReady
      BY <3>1 DEF LaunchSession, LaunchHead, ConnectRefused, LaunchFailsHead, BackendReady,
         Busy, WorkerInv, Registers
    <3>3. ~StartStreaming
      BY DEF StartStreaming
    <3> QED
      BY <2>2, <3>2, <3>3, SessionStep
  <2>3. CASE UNCHANGED vars
    BY <2>3 DEF vars
  <2> QED
    BY <2>1, <2>2, <2>3 DEF Next, Other, Terminated
<1> QED
  BY <1>1, Inductive, PTL DEF Spec, ClosedIsFinal

\* Only an acknowledgement opens HOME to a user who waits for the cleanup.
LEMMA HomeStep ==
    ASSUME TypeOK, PolicyInv, StoppingInv, Main, Stopping, ui'.page = "HOME"
    PROVE  Acknowledged
<1> USE MainFieldTypes DEF UiRecords, UiError, Stopping
<1>1. CASE ReadFacts \/ SkipFacts \/ ApplyFails \/ ApplyStarts \/ ApplyQuiet
          \/ SubmitClosing \/ NoInput \/ Quit \/ BeginExit \/ RequestExit \/ Destroy
  <2>1. UNCHANGED ui
    BY <1>1 DEF ReadFacts, SkipFacts, ApplyFails, ApplyHead, ApplyStarts, ApplyQuiet,
           SubmitClosing, NoInput, Quit, BeginExit, RequestExit, Destroy
  <2> QED
    BY <2>1
<1>2. CASE PollEvent
  <2>1. Head(events) \in Queued
    BY <1>2, QueuePolled DEF PollEvent
  <2>2. Head(events).type = "STOPPED" /\ Head(events).gen = ui.generation
    BY <1>2, QueueTyped, UiEventFields DEF PollEvent, EventRecords
  <2> QED
    BY <2>1, <2>2 DEF Acknowledged
<1>3. CASE ApplyCrowded
  BY <1>3 DEF ApplyCrowded
<1>4. CASE AskRefused \/ AskWaits \/ AskAdmitted \/ AskCrowded
  BY <1>4 DEF AskRefused, AskWaits, AskAdmitted, AskCrowded, AskHead
<1>5. CASE PinSubmitted \/ PinRefused
  BY <1>5 DEF PinSubmitted, PinRefused, PinHead
<1>6. CASE StopAsked \/ CancelAsked
  BY <1>6 DEF StopAsked, CancelAsked, StopHead
<1>7. CASE ExitAsked
  BY <1>7 DEF ExitAsked
<1>8. CASE Dialog
  BY <1>8 DEF Dialog
<1> QED
  BY <1>1, <1>2, <1>3, <1>4, <1>5, <1>6, <1>7, <1>8, MainSteps

\* A user who waits in STOPPING comes home only when session, backend, ticket
\* and video of the stopped request are gone.
THEOREM HomeHolds == Spec => HomeAfterCleanup
<1>1. ASSUME IInv, [Next]_vars, ui.page = "STOPPING", ui'.page = "HOME"
      PROVE  RequestsReturned /\ ProtocolReturned /\ VideoReturned
  <2> USE <1>1 DEF IInv, Stopping
  <2>1. CASE Main
    <3>1. Acknowledged
      BY <2>1, HomeStep DEF AckInv
    <3>2. FullClosed
      BY <3>1 DEF AckInv
    <3> QED
      BY <3>2, ClosedIsGone
  <2>2. CASE Other
    BY <2>2, MainVarsStep
  <2>3. CASE UNCHANGED vars
    BY <2>3 DEF vars
  <2> QED
    BY <2>1, <2>2, <2>3 DEF Next, Other, Terminated
<1> QED
  BY <1>1, Inductive, PTL DEF Spec, HomeAfterCleanup
-----------------------------------------------------------------------------
(* The video as VideoLoan has it.                                          *)

\* When a stream is requested the epochs of the one before have drained: the worker
\* looked when it took the command, and since then there is no session to open one.
RequestEmpty == wpc = "request" => media.video = {}

\* Only the branch that has looked leads to the request.
LEMMA RequestEmptyStep ==
    ASSUME IInv, [Next]_vars, RequestEmpty
    PROVE  RequestEmpty'
<1> USE DEF RequestEmpty
<1>1. CASE Main
  <2>1. wpc' = wpc /\ (media' = media \/ media' = [media EXCEPT !.frozen = TRUE])
    BY <1>1, MainLeavesWorker DEF IInv
  <2>2. media'.video = media.video
    BY <2>1, FieldTypes DEF MediaRecords, IInv
  <2> QED
    BY <2>1, <2>2
<1>2. CASE Other
  <2>1. CASE VideoClean \/ Fail \/ TakeExit \/ Stopped \/ Requeue
             \/ TakeRevoked \/ TakeExecuted \/ TakeEnded \/ TakeServed \/ TakeLaunched
             \/ TakeCommandNone \/ TakeCommandExecuted \/ FailureServed \/ FailureStops
             \/ StartOther \/ PostStopped \/ RequestThaws \/ RequestFrozen
             \/ RequestRefused \/ LaunchSession \/ LaunchBackend \/ LaunchRefused
             \/ ConnectRefused \/ BackendFails \/ Ended \/ BackendReady \/ TransportFails
             \/ Sample \/ RenderFails \/ Wait \/ Leave \/ Rejected \/ PinRequired
             \/ (\E t \in Transports : Accepted(t))
    <3>1. after # "request"
      BY DEF IInv, WorkerInv, Registers
    <3>2. wpc' # "request"
      BY <2>1, <3>1 DEF VideoClean, Fail, TakeExit, Stopped, Requeue, TakeRevoked, TakeHead,
         TakeExecuted, TakeEnded, TakeServed, TakeLaunched, TakeCommandNone, TakeCommandHead,
         TakeCommandExecuted, FailureServed, FailureHead, FailureStops, StartOther, StartHead,
         PostStopped, RequestThaws, RequestHead, RequestFrozen, RequestRefused,
         LaunchSession, LaunchHead, LaunchBackend, LaunchRefused, LaunchFailsHead,
         ConnectRefused, BackendFails, Ended, BackendReady, TransportFails, Sample,
         RenderFails, Wait, Leave, Rejected, PinRequired, Accepted
    <3> QED
      BY <3>2
  <2>2. CASE StartStreaming
    <3>1. media.video = {} /\ media' = media
      BY <2>2 DEF StartStreaming, StartHead
    <3> QED
      BY <3>1
  <2>3. CASE LinkUp \/ LinkDown
    <3>1. wpc' = wpc /\ media' = media
      BY <2>3 DEF LinkUp, LinkDown
    <3> QED
      BY <3>1
  <2>4. CASE VideoStart \/ VideoStop
    <3>1. wpc' = wpc /\ worker.session # 0
      BY <2>4 DEF VideoStart, VideoStop
    <3>2. wpc # "request"
      BY <3>1 DEF IInv, WorkerInv, BeforeLaunch
    <3> QED
      BY <3>1, <3>2
  <2>5. CASE VideoDrained
    <3>1. wpc' = wpc /\ media'.video = media.video \ {"draining"}
      BY <2>5, FieldTypes DEF VideoDrained, MediaRecords, IInv
    <3> QED
      BY <3>1
  <2> QED
    BY <1>2, <2>1, <2>2, <2>3, <2>4, <2>5, OtherSteps
<1>3. CASE UNCHANGED vars
  BY <1>3 DEF vars
<1> QED
  BY <1>1, <1>2, <1>3 DEF Next, Other, Terminated

\* Whoever freezes, or leaves the video alone, takes a step of the loan or none.
LEMMA FreezeLends ==
    ASSUME TypeOK, media' = media \/ media' = [media EXCEPT !.frozen = TRUE]
    PROVE  [Loan!Next]_(Loan!vars)
<1>1. CASE media' = media
  BY <1>1 DEF Loan!vars
<1>2. CASE media' = [media EXCEPT !.frozen = TRUE]
  <2>1. media'.frozen = TRUE /\ media'.video = media.video
    BY <1>2, FieldTypes DEF MediaRecords
  <2> QED
    BY <2>1 DEF Loan!Freeze, Loan!Next
<1> QED
  BY <1>1, <1>2

\* Every step of the session is a step of the loan, or none for it.
LEMMA LoanStep ==
    ASSUME IInv, RequestEmpty, [Next]_vars
    PROVE  [Loan!Next]_(Loan!vars)
<1>0. TypeOK /\ media \in MediaRecords
  BY FieldTypes DEF IInv
<1>1. CASE Main
  <2>1. media' = media \/ media' = [media EXCEPT !.frozen = TRUE]
    BY <1>0, <1>1, MainLeavesWorker
  <2> QED
    BY <1>0, <2>1, FreezeLends
<1>2. CASE Other
  <2>1. CASE VideoClean \/ Fail \/ TakeExit \/ Stopped \/ Requeue
             \/ TakeRevoked \/ TakeExecuted \/ TakeEnded \/ TakeServed \/ TakeLaunched
             \/ TakeCommandNone \/ TakeCommandExecuted \/ FailureServed \/ FailureStops
             \/ StartStreaming \/ StartOther \/ PostStopped \/ RequestFrozen
             \/ RequestRefused \/ LaunchSession \/ LaunchBackend \/ LaunchRefused
             \/ ConnectRefused \/ BackendFails \/ Ended \/ BackendReady \/ TransportFails
             \/ Sample \/ RenderFails \/ Wait \/ Leave \/ Rejected \/ PinRequired
             \/ (\E t \in Transports : Accepted(t)) \/ LinkUp \/ LinkDown
    <3>1. media' = media \/ media' = [media EXCEPT !.frozen = TRUE]
      BY <2>1 DEF VideoClean, Fail, TakeExit, Stopped, Requeue, TakeRevoked, TakeHead,
         TakeExecuted, TakeEnded, TakeServed, TakeLaunched, TakeCommandNone, TakeCommandHead,
         TakeCommandExecuted, FailureServed, FailureHead, FailureStops, StartStreaming,
         StartOther, StartHead, PostStopped, RequestHead, RequestFrozen, RequestRefused,
         LaunchSession, LaunchHead, LaunchBackend, LaunchRefused, LaunchFailsHead,
         ConnectRefused, BackendFails, Ended, BackendReady, TransportFails, Sample,
         RenderFails, Wait, Leave, Rejected, PinRequired, Accepted, LinkUp, LinkDown
    <3> QED
      BY <1>0, <3>1, FreezeLends
  <2>2. CASE RequestThaws
    <3>1. wpc = "request" /\ media' = [media EXCEPT !.frozen = FALSE]
      BY <2>2 DEF RequestThaws, RequestHead
    <3>2. media.video = {} /\ media'.frozen = FALSE /\ media'.video = media.video
      BY <1>0, <3>1 DEF RequestEmpty, MediaRecords
    <3> QED
      BY <3>2 DEF Loan!Thaw, Loan!Next
  <2>3. CASE VideoStart
    <3>1. /\ "open" \notin media.video /\ ~media.frozen
          /\ media'.video = media.video \union {"open"} /\ media'.frozen = media.frozen
      BY <1>0, <2>3 DEF VideoStart, MediaRecords
    <3> QED
      BY <3>1 DEF Loan!Start, Loan!Next
  <2>4. CASE VideoStop
    <3>1. /\ "open" \in media.video
          /\ media'.video = {"draining"} /\ media'.frozen = media.frozen
      BY <1>0, <2>4 DEF VideoStop, MediaRecords
    <3> QED
      BY <3>1 DEF Loan!End, Loan!Next
  <2>5. CASE VideoDrained
    <3>1. /\ "draining" \in media.video /\ media'.frozen = media.frozen
          /\ media'.video = media.video \ {"draining"}
      BY <1>0, <2>5 DEF VideoDrained, MediaRecords
    <3> QED
      BY <3>1 DEF Loan!Return, Loan!Next
  <2> QED
    BY <1>0, <1>2, <2>1, <2>2, <2>3, <2>4, <2>5, OtherSteps
<1>3. CASE UNCHANGED vars
  BY <1>3 DEF vars, Loan!vars
<1> QED
  BY <1>1, <1>2, <1>3 DEF Next, Other, Terminated

\* A session uses the video as VideoLoan has it, for any number of requests and epochs:
\* the freeze is lifted only when everything of the request before is returned.
THEOREM SessionLends == Spec => VideoIsLent
<1>1. Init => Loan!Init /\ RequestEmpty
  BY DEF Init, Loan!Init, RequestEmpty
<1>2. IInv /\ RequestEmpty /\ [Next]_vars => RequestEmpty'
  BY RequestEmptyStep
<1>3. IInv /\ RequestEmpty /\ [Next]_vars => [Loan!Next]_(Loan!vars)
  BY LoanStep
<1> QED
  BY <1>1, <1>2, <1>3, Inductive, PTL DEF Spec, VideoIsLent, Loan!Spec
=============================================================================
