------------------------ MODULE AppLifecycle_proofs ------------------------
(***************************************************************************)
(* Proofs about the admission policy, for all sets of identifiers.         *)
(*                                                                         *)
(* The inductive invariant IInv has two halves.  RecordInv relates the     *)
(* fields of the policy record; none of its conjuncts is inductive alone,  *)
(* because a cleanup turns a waiting intent into a running owner (it needs *)
(* IntentWaitsItsTurn) and a stop turns a running owner into a closing one *)
(* (it needs GateNeedsLiveOwner to lose its gate in the same step).        *)
(* EvidenceTrue ties the record to what the owner has really given back;   *)
(* it is what makes a new owner wait for the last one.                     *)
(***************************************************************************)
EXTENDS AppLifecycle, TLAPS

\* PhaseEvidence, field by field.
PhaseFields ==
    /\ Running(app) => /\ app.request_id # 0
                       /\ ~app.requests_closed
                       /\ ~app.protocol_closed
                       /\ ~app.video_clean
    /\ app.phase = "IDLE" => Cleaned(app) /\ app.request_id = 0
    /\ app.exit_requested <=> app.phase \in {"EXITING", "DEVICE_FAILED"}

RecordInv ==
    app \in Lifecycle /\ PhaseFields /\ IntentWaitsItsTurn /\ GateNeedsLiveOwner

EvidenceTrue == Evidence \subseteq returned /\ returned \subseteq Resources

IInv == RecordInv /\ EvidenceTrue

USE DEF RunningPhases, ClosingPhases, Phases, Running, Cleaned

-----------------------------------------------------------------------------
(* The operators.                                                          *)

\* A freshly admitted owner: what start() leaves in the record.
LEMMA StartFields ==
    ASSUME NEW a \in Lifecycle, NEW id \in Nat
    PROVE  LET s == Start(a, id)
           IN  /\ s \in Lifecycle
               /\ s.phase = "STARTING" /\ s.request_id = id
               /\ s.session_id = 0 /\ s.epoch = 0 /\ s.pending_request_id = 0
               /\ s.last_request_id = a.last_request_id
               /\ s.exit_requested = a.exit_requested
               /\ ~s.connected /\ ~s.requests_closed
               /\ ~s.protocol_closed /\ ~s.video_clean
  BY DEF Lifecycle, Start

\* The three flags and the set of resources they stand for.
LEMMA EvidenceAll ==
    /\ Cleaned(app) <=> Evidence = Resources
    /\ (~app.requests_closed /\ ~app.protocol_closed /\ ~app.video_clean) <=> Evidence = {}
  BY DEF Evidence, Given, Resources

\* The same of the next state.
LEMMA EvidenceAllPrime ==
    /\ Cleaned(app') <=> Evidence' = Resources
    /\ (~app'.requests_closed /\ ~app'.protocol_closed /\ ~app'.video_clean)
           <=> Evidence' = {}
  BY DEF Evidence, Given, Resources

\* The named invariants are the two halves put together.
LEMMA IInvImplies ==
    IInv => TypeOK /\ PhaseEvidence /\ IntentWaitsItsTurn /\ GateNeedsLiveOwner
  BY EvidenceAll DEF IInv, RecordInv, EvidenceTrue, TypeOK, PhaseFields, PhaseEvidence

\* A cleanup report adds what it names to the evidence, and touches nothing else.
LEMMA CleanupFields ==
    ASSUME NEW a \in Lifecycle, NEW q \in BOOLEAN, NEW p \in BOOLEAN, NEW v \in BOOLEAN
    PROVE  LET b == CleanupFacts(a, q, p, v)
           IN  /\ b \in Lifecycle
               /\ b.phase = a.phase /\ b.exit_requested = a.exit_requested
               /\ b.request_id = a.request_id
               /\ b.pending_request_id = a.pending_request_id
               /\ b.last_request_id = a.last_request_id
               /\ b.requests_closed <=> (a.requests_closed \/ q)
               /\ b.protocol_closed <=> (a.protocol_closed \/ p)
               /\ b.video_clean <=> (a.video_clean \/ v)
<1> DEFINE b == CleanupFacts(a, q, p, v)
<1>1. b \in Lifecycle
  BY DEF CleanupFacts, Lifecycle
<1>2. /\ b.phase = a.phase /\ b.exit_requested = a.exit_requested
      /\ b.request_id = a.request_id
      /\ b.pending_request_id = a.pending_request_id
      /\ b.last_request_id = a.last_request_id
  BY DEF CleanupFacts, Lifecycle
<1>3. /\ b.requests_closed <=> (a.requests_closed \/ q)
      /\ b.protocol_closed <=> (a.protocol_closed \/ p)
      /\ b.video_clean <=> (a.video_clean \/ v)
  BY DEF CleanupFacts, Lifecycle
<1> QED
  BY <1>1, <1>2, <1>3

-----------------------------------------------------------------------------
(* The record.                                                             *)

\* Admitting the newest accepted identifier re-establishes the record.
LEMMA StartRecord ==
    ASSUME NEW a \in Lifecycle, NEW id \in Nat,
           id # 0, id <= a.last_request_id, ~a.exit_requested, app' = Start(a, id)
    PROVE  RecordInv'
  BY StartFields DEF RecordInv, PhaseFields, IntentWaitsItsTurn, GateNeedsLiveOwner,
                     AllowRemote, AllowDraw, VideoClockRunning

\* The policy starts idle, with everything returned.
LEMMA InitIInv == Init => IInv
  BY DEF Init, LifecycleInit, IInv, RecordInv, EvidenceTrue, Lifecycle, PhaseFields,
         IntentWaitsItsTurn, GateNeedsLiveOwner, AllowRemote, AllowDraw,
         VideoClockRunning, Evidence, Given, Resources

\* Every operation of the policy preserves the relations of the record.
LEMMA NextRecord == RecordInv /\ [Next]_vars => RecordInv'
<1> SUFFICES ASSUME RecordInv, [Next]_vars PROVE RecordInv'
  OBVIOUS
<1> USE IdsAssumption
    DEF RecordInv, Lifecycle, PhaseFields, IntentWaitsItsTurn, GateNeedsLiveOwner,
        AllowRemote, AllowDraw, VideoClockRunning
<1>1. ASSUME NEW id \in RequestIds, DoRequestStart(id) PROVE RecordInv'
  <2>1. id \in Nat /\ StartAccepted(app, id) /\ app' = RequestStart(app, id)
    BY <1>1 DEF DoRequestStart, Call
  <2>2. CASE app.phase = "IDLE"
    <3> DEFINE a == [app EXCEPT !.last_request_id = id]
    <3>1. app' = Start(a, id)
      BY <2>1, <2>2 DEF RequestStart
    <3>2. a \in Lifecycle /\ id <= a.last_request_id
      BY <2>1
    <3>3. id \in Nat /\ id # 0 /\ ~a.exit_requested
      BY <2>1 DEF StartAccepted
    <3> HIDE DEF a, RecordInv
    <3> QED
      BY <3>1, <3>2, <3>3, StartRecord
  <2>3. CASE app.phase # "IDLE"
    <3>1. app' = [app EXCEPT !.last_request_id = id, !.pending_request_id = id,
                             !.phase = "STOPPING", !.connected = FALSE]
      BY <2>1, <2>3 DEF RequestStart
    <3>2. id # 0 /\ id > app.last_request_id /\ ~app.exit_requested
          /\ app.phase # "DEVICE_FAILED"
      BY <2>1 DEF StartAccepted
    <3>3. /\ app' \in Lifecycle
          /\ app'.phase = "STOPPING" /\ ~app'.connected
          /\ app'.pending_request_id = id /\ app'.last_request_id = id
          /\ app'.request_id = app.request_id /\ app'.request_id < id
          /\ ~app'.exit_requested
      <4>1. app.request_id < id
        BY <2>1, <3>2
      <4> HIDE DEF PhaseFields, IntentWaitsItsTurn, GateNeedsLiveOwner
      <4> QED
        BY <2>1, <3>1, <3>2, <4>1
    <3> QED
      BY <2>1, <3>2, <3>3
  <2> QED
    BY <2>2, <2>3
<1>2. CASE DoRequestStop
  BY <1>2 DEF DoRequestStop, Call, RequestStop
<1>3. CASE DoRequestExit
  BY <1>3 DEF DoRequestExit, Call, RequestExit, RequestStop
<1>4. CASE DoDeviceFailed
  BY <1>4 DEF DoDeviceFailed, Call, DeviceFailed, RequestExit, RequestStop
<1>5. ASSUME NEW r \in RequestIds, NEW s \in SessionIds, DoSessionCreated(r, s)
      PROVE  RecordInv'
  BY <1>5 DEF DoSessionCreated, Call, SessionCreatedAccepted, SessionCreated
<1>6. ASSUME NEW s \in SessionIds, DoConnected(s) PROVE RecordInv'
  BY <1>6 DEF DoConnected, Call, ConnectedAccepted, Connected
<1>7. ASSUME NEW s \in SessionIds, NEW t \in Transitions, NEW e \in Epochs,
             NEW paused \in BOOLEAN, DoVideoState(s, t, e, paused)
      PROVE  RecordInv'
  <2>1. /\ VideoStateAccepted(app, s, t, e, paused)
        /\ app' = VideoState(app, t, e, paused)
        /\ t \in Nat /\ e \in Nat
    BY <1>7 DEF DoVideoState, Call
  <2>2. /\ app' \in Lifecycle
        /\ app'.phase = app.phase /\ app'.request_id = app.request_id
        /\ app'.session_id = app.session_id
        /\ app'.pending_request_id = app.pending_request_id
        /\ app'.last_request_id = app.last_request_id
        /\ app'.connected = app.connected
        /\ app'.exit_requested = app.exit_requested
        /\ app'.requests_closed = app.requests_closed
        /\ app'.protocol_closed = app.protocol_closed
        /\ app'.video_clean = app.video_clean
        /\ app'.epoch >= app.epoch
    BY <2>1 DEF VideoStateAccepted, VideoState
  <2> QED
    BY <2>2
<1>8. ASSUME NEW s \in SessionIds, NEW e \in Epochs, DoPresented(s, e) PROVE RecordInv'
  BY <1>8 DEF DoPresented, Call, PresentedAccepted, Presented
<1>9. ASSUME NEW f \in BOOLEAN, DoForeground(f) PROVE RecordInv'
  BY <1>9 DEF DoForeground, Call, Foreground
<1>10. ASSUME NEW r \in RequestIds, NEW s \in SessionIds,
              NEW q \in BOOLEAN, NEW p \in BOOLEAN, NEW v \in BOOLEAN,
              DoCleanup(r, s, q, p, v)
       PROVE  RecordInv'
  <2> DEFINE b == CleanupFacts(app, q, p, v)
  <2>1. app.phase \in ClosingPhases /\ app' = Cleanup(app, q, p, v)
    BY <1>10 DEF DoCleanup, CleanupApplies, Call
  <2>2. /\ b \in Lifecycle
        /\ b.phase = app.phase /\ b.exit_requested = app.exit_requested
        /\ b.request_id = app.request_id /\ b.session_id = app.session_id
        /\ b.pending_request_id = app.pending_request_id
        /\ b.last_request_id = app.last_request_id
        /\ b.connected = app.connected
    BY DEF CleanupFacts
  <2>3. CASE app' = b
    <3>1. /\ app' \in Lifecycle
          /\ app'.phase = app.phase /\ app'.phase \in ClosingPhases
          /\ app'.exit_requested = app.exit_requested
          /\ app'.request_id = app.request_id /\ app'.session_id = app.session_id
          /\ app'.pending_request_id = app.pending_request_id
          /\ app'.last_request_id = app.last_request_id
          /\ app'.connected = app.connected
      BY <2>1, <2>2, <2>3
    <3> HIDE DEF b, Lifecycle
    <3> QED
      BY <3>1
  <2>4. CASE /\ ~b.exit_requested /\ b.pending_request_id # 0
             /\ app' = Start(b, b.pending_request_id)
    <3>1. b.pending_request_id \in Nat /\ b.pending_request_id <= b.last_request_id
      BY <2>2
    <3> HIDE DEF RecordInv, b
    <3> QED
      BY <2>2, <2>4, <3>1, StartRecord
  <2>5. CASE /\ Cleaned(b) /\ ~b.exit_requested /\ b.pending_request_id = 0
             /\ app' = [b EXCEPT !.phase = "IDLE", !.connected = FALSE,
                                 !.request_id = 0, !.session_id = 0, !.epoch = 0]
    <3> HIDE DEF b
    <3>1. /\ app' \in Lifecycle
          /\ app'.phase = "IDLE" /\ ~app'.connected /\ app'.request_id = 0
          /\ app'.pending_request_id = 0 /\ app'.last_request_id \in Nat
          /\ Cleaned(app') /\ ~app'.exit_requested
      BY <2>2, <2>5
    <3> QED
      BY <3>1
  <2> HIDE DEF RecordInv, Lifecycle, b
  <2>6. \/ app' = b
        \/ /\ ~b.exit_requested /\ b.pending_request_id # 0
           /\ app' = Start(b, b.pending_request_id)
        \/ /\ Cleaned(b) /\ ~b.exit_requested /\ b.pending_request_id = 0
           /\ app' = [b EXCEPT !.phase = "IDLE", !.connected = FALSE,
                               !.request_id = 0, !.session_id = 0, !.epoch = 0]
    BY <2>1 DEF Cleanup, b
  <2> QED
    BY <2>3, <2>4, <2>5, <2>6
<1>11. ASSUME NEW r \in Resources, GiveBack(r) PROVE RecordInv'
  BY <1>11 DEF GiveBack
<1>12. CASE UNCHANGED vars
  BY <1>12 DEF vars
<1> QED
  BY <1>1, <1>2, <1>3, <1>4, <1>5, <1>6, <1>7, <1>8, <1>9, <1>10, <1>11, <1>12
     DEF Next

-----------------------------------------------------------------------------
(* The policy implements StreamOwner.                                      *)

\* The abstract stage and evidence, field by field.
LEMMA StageCases ==
    /\ app.phase = "IDLE" => Stage = "free"
    /\ Running(app) => Stage = "open"
    /\ app.phase \in ClosingPhases => Stage = "closing"
  BY DEF Stage

\* The same of the next state.
LEMMA StageCasesPrime ==
    /\ app'.phase = "IDLE" => Stage' = "free"
    /\ Running(app') => Stage' = "open"
    /\ app'.phase \in ClosingPhases => Stage' = "closing"
  BY DEF Stage

\* The record and the abstract slot name the same resources.
LEMMA SameResources == Owner!Resources = Resources
  BY DEF Owner!Resources, Resources

\* A call that leaves the owner and its three flags alone.
LEMMA EvidenceKept ==
    ASSUME NEW a, Call(a), a.request_id = app.request_id,
           a.requests_closed = app.requests_closed,
           a.protocol_closed = app.protocol_closed, a.video_clean = app.video_clean
    PROVE  Evidence' = Evidence /\ returned' = returned
  BY DEF Call, Evidence, Given

\* Calls that leave owner, phase class and evidence alone are stutters.
LEMMA OwnerStutter ==
    ASSUME returned' = returned, app'.request_id = app.request_id,
           app'.pending_request_id = app.pending_request_id,
           app'.last_request_id = app.last_request_id,
           app'.exit_requested = app.exit_requested,
           app'.requests_closed = app.requests_closed,
           app'.protocol_closed = app.protocol_closed,
           app'.video_clean = app.video_clean,
           \/ app'.phase = app.phase
           \/ Running(app) /\ Running(app')
    PROVE  UNCHANGED Owner!vars
<1>1. Evidence' = Evidence
  BY DEF Evidence, Given
<1>2. Stage' = Stage
  <2>1. CASE app'.phase = app.phase
    BY <2>1 DEF Stage
  <2>2. CASE Running(app) /\ Running(app')
    BY <2>2, StageCases, StageCasesPrime
  <2> QED
    BY <2>1, <2>2
<1> QED
  BY <1>1, <1>2 DEF Owner!vars

\* The initial policy record is the free slot.
LEMMA OwnerInit == Init => Owner!Init
  BY StageCases DEF Init, LifecycleInit, Owner!Init, Evidence, Given, Resources, Owner!Resources

\* Each call of the policy is one step of the slot or a stutter.
LEMMA OwnerStep == RecordInv /\ [Next]_vars => [Owner!Next]_(Owner!vars)
<1> SUFFICES ASSUME RecordInv, [Next]_vars PROVE [Owner!Next]_(Owner!vars)
  OBVIOUS
<1> USE IdsAssumption, StageCases, StageCasesPrime
    DEF RecordInv, Lifecycle
<1>1. ASSUME NEW id \in RequestIds, DoRequestStart(id)
      PROVE  Owner!Admit(id) \/ Owner!Intend(id)
  <2>1. /\ id \in Nat /\ id > app.last_request_id /\ ~app.exit_requested
        /\ app.phase # "DEVICE_FAILED" /\ app' = RequestStart(app, id)
    BY <1>1 DEF DoRequestStart, Call, StartAccepted
  <2>2. CASE app.phase = "IDLE"
    <3> DEFINE a == [app EXCEPT !.last_request_id = id]
    <3>1. app' = Start(a, id)
      BY <2>1, <2>2 DEF RequestStart
    <3>2. a \in Lifecycle /\ a.last_request_id = id /\ a.exit_requested = app.exit_requested
      BY <2>1
    <3>3. app.pending_request_id = 0
      BY <2>2 DEF IntentWaitsItsTurn
    <3> HIDE DEF a
    <3>4. /\ app'.phase = "STARTING" /\ app'.request_id = id
          /\ app'.pending_request_id = 0 /\ app'.last_request_id = id
          /\ app'.exit_requested = app.exit_requested
          /\ ~app'.requests_closed /\ ~app'.protocol_closed /\ ~app'.video_clean
      <4> HIDE DEF RecordInv, Lifecycle
      <4>1. id \in Nat
        BY <2>1
      <4> QED
        BY <4>1, <3>1, <3>2, StartFields
    <3>5. Evidence' = {}
      BY <3>4, EvidenceAllPrime
    <3>6. id \notin {0, app.request_id}
      BY <2>1, <2>2 DEF PhaseFields, StartAccepted
    <3>7. returned' = {}
      BY <1>1, <2>1, <3>4, <3>6 DEF DoRequestStart, Call
    <3> HIDE DEF RecordInv, Lifecycle
    <3> QED
      BY <2>1, <2>2, <3>3, <3>4, <3>5, <3>7 DEF Owner!Admit
  <2>3. CASE app.phase # "IDLE"
    <3>1. app' = [app EXCEPT !.last_request_id = id, !.pending_request_id = id,
                             !.phase = "STOPPING", !.connected = FALSE]
      BY <2>1, <2>3 DEF RequestStart
    <3>2. Evidence' = Evidence /\ returned' = returned
      BY <1>1, <2>3, EvidenceKept DEF DoRequestStart, RequestStart
    <3>3. Stage \in {"open", "closing"}
      BY <2>3
    <3>4. Stage' = "closing"
      BY <3>1
    <3> QED
      BY <2>1, <3>1, <3>2, <3>3, <3>4 DEF Owner!Intend
  <2> QED
    BY <2>2, <2>3
<1>2. CASE DoRequestStop
  <2>1. app' = RequestStop(app)
    BY <1>2 DEF DoRequestStop, Call
  <2>2. Evidence' = Evidence /\ returned' = returned
    BY <1>2, EvidenceKept DEF DoRequestStop, RequestStop
  <2>3. Stage' = IF Stage = "open" THEN "closing" ELSE Stage
    BY <2>1 DEF RequestStop
  <2> QED
    BY <2>1, <2>2, <2>3 DEF RequestStop, Owner!Close, Owner!Next
<1>3. CASE DoRequestExit \/ DoDeviceFailed
  <2>1. Evidence' = Evidence /\ returned' = returned
    BY <1>3, EvidenceKept
       DEF DoRequestExit, DoDeviceFailed, DeviceFailed, RequestExit, RequestStop
  <2>2. Stage' = "closing"
    BY <1>3 DEF DoRequestExit, Call, DoDeviceFailed, DeviceFailed, RequestExit, RequestStop
  <2> QED
    BY <1>3, <2>1, <2>2 DEF DoRequestExit, Call, DoDeviceFailed, DeviceFailed, RequestExit,
                             RequestStop, Owner!Shut, Owner!Next
<1>4. ASSUME NEW r \in RequestIds, NEW s \in SessionIds, DoSessionCreated(r, s)
      PROVE  UNCHANGED Owner!vars
  BY <1>4, OwnerStutter DEF DoSessionCreated, Call, SessionCreated
<1>5. ASSUME NEW s \in SessionIds, DoConnected(s) PROVE UNCHANGED Owner!vars
  BY <1>5, OwnerStutter DEF DoConnected, Call, Connected
<1>6. ASSUME NEW s \in SessionIds, NEW t \in Transitions, NEW e \in Epochs,
             NEW paused \in BOOLEAN, DoVideoState(s, t, e, paused)
      PROVE  UNCHANGED Owner!vars
  BY <1>6, OwnerStutter DEF DoVideoState, Call, VideoState
<1>7. ASSUME NEW s \in SessionIds, NEW e \in Epochs, DoPresented(s, e)
      PROVE  UNCHANGED Owner!vars
  BY <1>7, OwnerStutter DEF DoPresented, Call, PresentedAccepted, Presented
<1>8. ASSUME NEW f \in BOOLEAN, DoForeground(f) PROVE UNCHANGED Owner!vars
  BY <1>8, OwnerStutter DEF DoForeground, Call, Foreground
<1>9. ASSUME NEW r \in RequestIds, NEW s \in SessionIds,
             NEW q \in BOOLEAN, NEW p \in BOOLEAN, NEW v \in BOOLEAN,
             DoCleanup(r, s, q, p, v)
      PROVE  \E seen \in SUBSET Owner!Resources :
                 Owner!Report(seen) \/ Owner!Release(seen)
  <2> DEFINE b == CleanupFacts(app, q, p, v)
             Seen == Given(q, p, v)
  <2>1. /\ app.phase \in ClosingPhases /\ app' = Cleanup(app, q, p, v)
        /\ Seen \subseteq returned
        /\ returned' = IF app'.request_id \in {0, app.request_id} THEN returned ELSE {}
    BY <1>9 DEF DoCleanup, CleanupApplies, Call
  <2>2. /\ b \in Lifecycle
        /\ b.phase = app.phase /\ b.exit_requested = app.exit_requested
        /\ b.request_id = app.request_id
        /\ b.pending_request_id = app.pending_request_id
        /\ b.last_request_id = app.last_request_id
        /\ b.requests_closed <=> (app.requests_closed \/ q)
        /\ b.protocol_closed <=> (app.protocol_closed \/ p)
        /\ b.video_clean <=> (app.video_clean \/ v)
    <3>1. app \in Lifecycle
      BY DEF RecordInv
    <3> HIDE DEF RecordInv, Lifecycle, PhaseFields, IntentWaitsItsTurn, GateNeedsLiveOwner
    <3> QED
      BY <3>1, CleanupFields, Z3
  <2>3. Evidence \union Seen = Given(b.requests_closed, b.protocol_closed, b.video_clean)
    <3> HIDE DEF b, RecordInv, Lifecycle
    <3> QED
      BY <2>2 DEF Evidence, Given
  <2>4. Seen \in SUBSET Owner!Resources
    BY SameResources DEF Given
  <2>5. Stage = "closing"
    BY <2>1
  <2>6. SUFFICES Owner!Report(Seen) \/ Owner!Release(Seen)
    BY <2>4
  <2> HIDE DEF b, Seen, RecordInv, Lifecycle
  <2>7. Cleaned(b) <=> Evidence \union Seen = Owner!Resources
    BY <2>3, SameResources DEF Given, Resources
  <2>8. CASE ~Cleaned(b) \/ b.exit_requested
    <3>1. app' = b
      BY <2>1, <2>8 DEF Cleanup, b
    <3>2. Evidence' = Evidence \union Seen
      BY <2>3, <3>1 DEF Evidence
    <3>3. Stage' = "closing"
      BY <2>1, <2>2, <3>1
    <3>4. returned' = returned
      BY <2>1, <2>2, <3>1
    <3> QED
      BY <2>1, <2>2, <2>5, <2>7, <2>8, <3>1, <3>2, <3>3, <3>4 DEF Owner!Report
  <2>9. CASE Cleaned(b) /\ ~b.exit_requested /\ b.pending_request_id # 0
    <3>1. app' = Start(b, b.pending_request_id)
      BY <2>1, <2>9 DEF Cleanup, b
    <3>2. b.pending_request_id \in Nat
      BY <2>2 DEF Lifecycle
    <3>3. /\ app'.phase = "STARTING" /\ app'.request_id = app.pending_request_id
          /\ app'.pending_request_id = 0
          /\ app'.last_request_id = app.last_request_id
          /\ app'.exit_requested = app.exit_requested
          /\ ~app'.requests_closed /\ ~app'.protocol_closed /\ ~app'.video_clean
      BY <2>2, <3>1, <3>2, StartFields
    <3>4. Evidence' = {}
      BY <3>3, EvidenceAllPrime
    <3>5. app.pending_request_id \notin {0, app.request_id}
      BY <2>2, <2>9 DEF RecordInv, Lifecycle, IntentWaitsItsTurn
    <3>6. returned' = {}
      BY <2>1, <3>3, <3>5
    <3> QED
      BY <2>1, <2>2, <2>5, <2>7, <2>9, <3>3, <3>4, <3>6 DEF Owner!Release
  <2>10. CASE Cleaned(b) /\ ~b.exit_requested /\ b.pending_request_id = 0
    <3>1. app' = [b EXCEPT !.phase = "IDLE", !.connected = FALSE,
                           !.request_id = 0, !.session_id = 0, !.epoch = 0]
      BY <2>1, <2>10 DEF Cleanup, b
    <3>2. /\ app'.phase = "IDLE" /\ app'.request_id = 0
          /\ app'.pending_request_id = app.pending_request_id
          /\ app'.last_request_id = app.last_request_id
          /\ app'.exit_requested = app.exit_requested
          /\ Cleaned(app')
      BY <2>2, <2>10, <3>1 DEF Lifecycle
    <3>3. Evidence' = Owner!Resources
      BY <3>2, EvidenceAllPrime, SameResources
    <3>4. returned' = returned
      BY <2>1, <3>2
    <3> QED
      BY <2>1, <2>2, <2>5, <2>7, <2>10, <3>2, <3>3, <3>4 DEF Owner!Release
  <2> QED
    BY <2>8, <2>9, <2>10
<1>10. ASSUME NEW r \in Resources, GiveBack(r) PROVE Owner!Return(r)
  BY <1>10 DEF GiveBack, Owner!Return, Evidence, Given, Stage
<1>11. CASE UNCHANGED vars
  BY <1>11, OwnerStutter DEF vars
<1> QED
  BY <1>1, <1>2, <1>3, <1>4, <1>5, <1>6, <1>7, <1>8, <1>9, <1>10, <1>11, SameResources
     DEF Next, Owner!Next

-----------------------------------------------------------------------------
(* What the slot guarantees, and the theorems.                             *)

NewOwner ==
    app'.request_id \notin {0, app.request_id} =>
        /\ returned = Resources
        /\ ~app.exit_requested
        /\ app'.request_id > app.request_id

\* The rest is read off the slot: evidence stays true, and an owner is
\* admitted only when nothing of the last one is outstanding.
LEMMA SlotStep ==
    IInv /\ [Owner!Next]_(Owner!vars) => EvidenceTrue' /\ NewOwner
<1> SUFFICES ASSUME IInv, [Owner!Next]_(Owner!vars) PROVE EvidenceTrue' /\ NewOwner
  OBVIOUS
<1>1. /\ Evidence \subseteq returned /\ returned \subseteq Resources
      /\ app.phase = "IDLE" => Evidence = Resources /\ app.request_id = 0
      /\ app.request_id \in Nat /\ app.pending_request_id \in Nat
      /\ app.last_request_id \in Nat
      /\ app.request_id <= app.last_request_id
      /\ app.pending_request_id # 0 => app.request_id < app.pending_request_id
      /\ app.exit_requested => app.phase \in ClosingPhases
      /\ app.phase \in Phases
  BY EvidenceAll DEF IInv, RecordInv, EvidenceTrue, PhaseFields, IntentWaitsItsTurn,
                     Lifecycle
<1> USE SameResources DEF EvidenceTrue, NewOwner
<1>2. ASSUME NEW id \in RequestIds, Owner!Admit(id) PROVE EvidenceTrue' /\ NewOwner
  <2>1. app.phase = "IDLE"
    BY <1>1, <1>2, StageCases DEF Owner!Admit
  <2>2. id \in Nat /\ id > app.request_id
    BY <1>1, <1>2, IdsAssumption DEF Owner!Admit
  <2>3. Evidence' = {} /\ returned' = {} /\ app'.request_id = id /\ ~app.exit_requested
    BY <1>2 DEF Owner!Admit
  <2> QED
    BY <1>1, <2>1, <2>2, <2>3
<1>3. ASSUME NEW id \in RequestIds, Owner!Intend(id) PROVE EvidenceTrue' /\ NewOwner
  BY <1>1, <1>3 DEF Owner!Intend
<1>4. CASE Owner!Close
  BY <1>1, <1>4 DEF Owner!Close
<1>5. ASSUME NEW r \in Owner!Resources, Owner!Return(r) PROVE EvidenceTrue' /\ NewOwner
  BY <1>1, <1>5 DEF Owner!Return
<1>6. ASSUME NEW seen \in SUBSET Owner!Resources, Owner!Report(seen)
      PROVE  EvidenceTrue' /\ NewOwner
  BY <1>1, <1>6 DEF Owner!Report
<1>7. ASSUME NEW seen \in SUBSET Owner!Resources, Owner!Release(seen)
      PROVE  EvidenceTrue' /\ NewOwner
  <2>1. returned = Resources
    BY <1>1, <1>7 DEF Owner!Release
  <2> QED
    BY <1>1, <1>7, <2>1 DEF Owner!Release
<1>8. CASE Owner!Shut
  BY <1>1, <1>8 DEF Owner!Shut
<1>9. CASE UNCHANGED Owner!vars
  BY <1>1, <1>9 DEF Owner!vars
<1> QED
  BY <1>2, <1>3, <1>4, <1>5, <1>6, <1>7, <1>8, <1>9 DEF Owner!Next

\* Both halves of the invariant are kept by every step.
LEMMA NextIInv == IInv /\ [Next]_vars => IInv'
  BY NextRecord, OwnerStep, SlotStep DEF IInv

\* The inductive invariant holds in every reachable state.
THEOREM IInvHolds == Spec => []IInv
  BY InitIInv, NextIInv, PTL DEF Spec

\* The policy record keeps the types of struct sl_app_lifecycle.
THEOREM TypeCorrect == Spec => []TypeOK
  BY IInvHolds, IInvImplies, PTL

\* A running owner owes all cleanup facts, an idle device none, the recorded
\* evidence is true of the present owner, and exit is latched by the two
\* terminal phases: for every caller, every identifier and every stale report.
THEOREM PhaseEvidenceHolds == Spec => []PhaseEvidence
  BY IInvHolds, IInvImplies, PTL

\* At most one intent waits; it is the newest and its elder is closing.
THEOREM IntentHolds == Spec => []IntentWaitsItsTurn
  BY IInvHolds, IInvImplies, PTL

\* The remote input gate opens only for a live session of a running owner.
THEOREM GateHolds == Spec => []GateNeedsLiveOwner
  BY IInvHolds, IInvImplies, PTL

\* A new owner is admitted only when every resource of the last one has really
\* been given back, never after exit, and always with a larger id.
THEOREM NewOwnerHolds == Spec => NewOwnerAfterCleanup
<1>1. IInv /\ [Next]_vars => [NewOwner]_vars
  BY OwnerStep, SlotStep DEF IInv
<1> QED
  BY <1>1, IInvHolds, PTL DEF Spec, NewOwnerAfterCleanup, NewOwner

\* Whatever its callers do, the policy is a correct owner slot: one owner,
\* replaced only on complete evidence, at most one newer intent, no
\* admission after exit.
THEOREM OwnerSlotHolds == Spec => OwnerSlot
<1>1. RecordInv /\ [Next]_vars => [Owner!Next]_(Owner!vars)
  BY OwnerStep
<1>2. IInv => RecordInv
  BY DEF IInv
<1> QED
  BY OwnerInit, <1>1, <1>2, IInvHolds, PTL DEF Spec, OwnerSlot, Owner!Spec

-----------------------------------------------------------------------------
(* The facts of a session.                                                 *)

\* Nobody's device has no session, and none can be created for it.
SessionHasOwner ==
    app.request_id = 0 => app.requests_closed /\ app.session_id = 0

\* One step of SessionFactsMonotonic.
SessionFacts ==
    (app'.request_id = app.request_id /\ app.session_id # 0) =>
        /\ app'.session_id = app.session_id
        /\ app'.epoch >= app.epoch
        /\ app'.video_transition >= app.video_transition

\* A call keeps the facts when it writes none of them, and needs not when it
\* admits another owner.
LEMMA FactsKept ==
    ASSUME RecordInv, SessionHasOwner,
           \/ /\ app'.request_id = app.request_id /\ app'.session_id = app.session_id
              /\ app'.epoch = app.epoch /\ app'.video_transition = app.video_transition
              /\ app.requests_closed => app'.requests_closed
           \/ app'.request_id # 0 /\ app'.request_id # app.request_id
    PROVE  SessionHasOwner' /\ SessionFacts
  BY DEF RecordInv, Lifecycle, SessionHasOwner, SessionFacts

\* Only a session that is created, a state of the video and a cleanup write them.
LEMMA SessionStep ==
    ASSUME RecordInv, SessionHasOwner, [Next]_vars
    PROVE  SessionHasOwner' /\ SessionFacts
<1>1. app \in Lifecycle
  BY DEF RecordInv
<1>2. ASSUME NEW id \in RequestIds, DoRequestStart(id) PROVE SessionHasOwner' /\ SessionFacts
  <2>1. id # 0 /\ id > app.last_request_id /\ app' = RequestStart(app, id)
    BY <1>2 DEF DoRequestStart, Call, StartAccepted
  <2>2. id # app.request_id
    BY <1>1, <2>1, IdsAssumption DEF RecordInv, IntentWaitsItsTurn, Lifecycle
  <2>3. CASE app.phase = "IDLE"
    <3>1. app'.request_id = id
      BY <1>1, <2>1, <2>3 DEF RequestStart, Start, Lifecycle
    <3> QED
      BY <2>1, <2>2, <3>1, FactsKept
  <2>4. CASE app.phase # "IDLE"
    <3>1. /\ app'.request_id = app.request_id /\ app'.session_id = app.session_id
          /\ app'.epoch = app.epoch /\ app'.video_transition = app.video_transition
          /\ app'.requests_closed = app.requests_closed
      BY <1>1, <2>1, <2>4 DEF RequestStart, Lifecycle
    <3> QED
      BY <3>1, FactsKept
  <2> QED
    BY <2>3, <2>4
<1>3. CASE \/ DoRequestStop \/ DoRequestExit \/ DoDeviceFailed
           \/ \E s \in SessionIds : DoConnected(s)
           \/ \E s \in SessionIds, e \in Epochs : DoPresented(s, e)
           \/ \E f \in BOOLEAN : DoForeground(f)
           \/ \E r \in Resources : GiveBack(r)
           \/ UNCHANGED vars
  <2>1. /\ app'.request_id = app.request_id /\ app'.session_id = app.session_id
        /\ app'.epoch = app.epoch /\ app'.video_transition = app.video_transition
        /\ app'.requests_closed = app.requests_closed
    BY <1>1, <1>3 DEF DoRequestStop, DoRequestExit, DoDeviceFailed, DoConnected, DoPresented,
       DoForeground, GiveBack, vars, Call, RequestStop, RequestExit, DeviceFailed, Connected,
       Presented, Foreground, Lifecycle
  <2> QED
    BY <2>1, FactsKept
<1>4. ASSUME NEW r \in RequestIds, NEW s \in SessionIds, DoSessionCreated(r, s)
      PROVE  SessionHasOwner' /\ SessionFacts
  BY <1>1, <1>4 DEF DoSessionCreated, Call, SessionCreatedAccepted, SessionCreated,
     SessionHasOwner, SessionFacts, Lifecycle
<1>5. ASSUME NEW s \in SessionIds, NEW t \in Transitions, NEW e \in Epochs,
             NEW paused \in BOOLEAN, DoVideoState(s, t, e, paused)
      PROVE  SessionHasOwner' /\ SessionFacts
  <2>1. /\ t > app.video_transition /\ e >= app.epoch
        /\ app'.request_id = app.request_id /\ app'.session_id = app.session_id
        /\ app'.epoch = e /\ app'.video_transition = t
        /\ app'.requests_closed = app.requests_closed
    BY <1>1, <1>5 DEF DoVideoState, Call, VideoStateAccepted, VideoState, Lifecycle
  <2> QED
    BY <1>1, <2>1, IdsAssumption DEF SessionHasOwner, SessionFacts, Lifecycle
<1>6. ASSUME NEW r \in RequestIds, NEW s \in SessionIds,
             NEW q \in BOOLEAN, NEW p \in BOOLEAN, NEW v \in BOOLEAN,
             DoCleanup(r, s, q, p, v)
      PROVE  SessionHasOwner' /\ SessionFacts
  <2> DEFINE b == CleanupFacts(app, q, p, v)
  <2>1. app' = Cleanup(app, q, p, v)
    BY <1>6 DEF DoCleanup, Call
  <2>2. /\ b \in Lifecycle
        /\ b.request_id = app.request_id /\ b.session_id = app.session_id
        /\ b.epoch = app.epoch /\ b.video_transition = app.video_transition
        /\ b.pending_request_id = app.pending_request_id
        /\ app.requests_closed => b.requests_closed
    BY <1>1 DEF CleanupFacts, Lifecycle
  <2> HIDE DEF b
  <2>3. CASE app' = b
    BY <2>2, <2>3, FactsKept
  <2>4. CASE b.pending_request_id # 0 /\ app' = Start(b, b.pending_request_id)
    <3>1. app'.request_id = b.pending_request_id
      BY <2>2, <2>4 DEF Start, Lifecycle
    <3>2. app.request_id < app.pending_request_id
      BY <2>2, <2>4 DEF RecordInv, IntentWaitsItsTurn
    <3> QED
      BY <1>1, <2>2, <2>4, <3>1, <3>2, FactsKept DEF Lifecycle
  <2>5. CASE /\ Cleaned(b)
             /\ app' = [b EXCEPT !.phase = "IDLE", !.connected = FALSE,
                                 !.request_id = 0, !.session_id = 0, !.epoch = 0]
    BY <1>1, <2>2, <2>5 DEF SessionHasOwner, SessionFacts, Lifecycle
  <2>6. \/ app' = b
        \/ b.pending_request_id # 0 /\ app' = Start(b, b.pending_request_id)
        \/ /\ Cleaned(b)
           /\ app' = [b EXCEPT !.phase = "IDLE", !.connected = FALSE,
                               !.request_id = 0, !.session_id = 0, !.epoch = 0]
    BY <2>1 DEF Cleanup, b
  <2> QED
    BY <2>3, <2>4, <2>5, <2>6
<1> QED
  BY <1>2, <1>3, <1>4, <1>5, <1>6 DEF Next

\* While one request has the device, its session keeps its identity and the
\* epochs and transitions only grow, whoever calls and however late.
THEOREM FactsMonotonicHolds == Spec => SessionFactsMonotonic
<1>1. Init => SessionHasOwner
  BY DEF Init, LifecycleInit, SessionHasOwner
<1>2. SessionHasOwner /\ IInv /\ [Next]_vars => SessionHasOwner'
  BY SessionStep DEF IInv
<1>3. SessionHasOwner /\ IInv /\ [Next]_vars => [SessionFacts]_vars
  BY SessionStep DEF IInv
<1> QED
  BY <1>1, <1>2, <1>3, IInvHolds, PTL DEF Spec, SessionFactsMonotonic, SessionFacts
=============================================================================
