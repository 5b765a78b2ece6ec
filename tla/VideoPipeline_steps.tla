------------------------ MODULE VideoPipeline_steps -------------------------
(***************************************************************************)
(* The inductive invariant of VideoPipeline, and what its proof needs of the *)
(* steps: the actions split where a step branches (so that a branch says   *)
(* outright what it changes), who changes which variable, the types of every *)
(* variable, how often a frame stands in a sequence, and what a release and a *)
(* retain do to a frame.  That the invariant is preserved, and what it     *)
(* implies, is in VideoPipeline_proofs.                                    *)
(***************************************************************************)
EXTENDS VideoPipeline, FiniteSetTheorems, SequenceTheorems, TLAPS

-----------------------------------------------------------------------------
(* The inductive invariant, part by part.                                  *)

\* Where the session's thread holds the decoder lock, has an epoch, and owes
\* the ticket of the task in its hands.
Holding == {"codec", "decode", "evicted", "publish", "queue"}
HasEpoch == {"codec", "streaming", "failed", "decode", "evicted", "publish", "queue"}
InHand == {"decode", "evicted", "publish", "queue"}

\* Who holds the decoder lock; the worker reaps only after the join.
ThreadsInv ==
    /\ lock = "session" <=> session.pc \in Holding \/ reap["session"].stage = "maps"
    /\ lock = "worker" <=> reap["worker"].stage = "maps"
    /\ session.pc \in {"start", "stopped"} <=> reap["session"].at # 0
    /\ worker = "clean" <=> reap["worker"].at # 0
    /\ session.pc # "idle" => worker \in {"runs", "frozen", "join"}
    /\ \A t \in Reapers : reap[t].stage # "look" => reap[t].at \in 1 .. Domains
    /\ session.lease # 0 <=> session.pc = "publish"
    /\ session.dom # 0 <=> session.pc = "codec"
    /\ render.sel # NoSelection => render.pc \in {"check", "draw", "failed", "redraw", "present"}

\* The epochs in their order, and the numbers of the frames.
EpochInv ==
    /\ box.active <= session.key
    /\ session.pc \in HasEpoch \union {"open"} => session.key # 0
    /\ session.pc = "start" => session.key < MaxKey
    /\ session.pc = "open" => box.active < session.key
    /\ session.pc = "codec" => box.active = session.key
    /\ box.accepting => box.active = session.key /\ session.pc \in HasEpoch \ {"codec"}
    /\ session.seq <= box.seq /\ box.seq <= session.task
    /\ session.pc \in {"decode", "evicted", "publish"} => box.seq < session.task
    /\ session.seq # 0 => session.pc = "queue"

\* A mailbox that is not empty belongs to an epoch that is accepted, or to one
\* that a freeze has found and not yet closed.
Empty == box.pending = <<>> /\ box.jobs = <<>> /\ box.image = 0

MailboxInv ==
    /\ worker \in {"frozen", "join", "clean"} => box.frozen
    /\ box.frozen => ~box.accepting
    /\ worker # "runs" => ~box.accepting
    /\ worker \in {"idle", "join", "clean"} => Empty
    /\ \/ Empty \/ box.accepting
       \/ /\ box.frozen
          /\ worker = "frozen" \/ (render.pc = "frozen" /\ render.closing = box.active)

\* Nobody owes a ticket that was never given out, and none is lost.
TicketsInv == 0 \notin owed /\ NoTaskLost

\* One batch is recorded while the turn has one, and a free one is empty.
BatchInv ==
    /\ \A b \in Batches : batches[b].state = "free" => batches[b] = FreeBatch
    /\ (\E b \in Batches : batches[b].state = "recording")
         <=> render.pc \in {"check", "draw", "failed", "redraw", "present"}
    /\ \A b, c \in Batches :
         batches[b].state = "recording" /\ batches[c].state = "recording" => b = c

\* The envelope about to be published is nobody's yet.
OwnEnvelope == session.lease # 0 => lease[session.lease].refs = 0

\* The domains in use are those of different epochs, all of them named before.
DomainsInv ==
    /\ \A d \in 1 .. Domains : dom[d].occupied => dom[d].key # 0 /\ dom[d].key <= box.active
    /\ \A d, e \in 1 .. Domains :
         dom[d].occupied /\ dom[e].occupied /\ dom[d].key = dom[e].key => d = e
    /\ session.pc = "codec" =>
         /\ ~dom[session.dom].occupied
         /\ \A d \in 1 .. Domains : dom[d].occupied => dom[d].key # session.key
    /\ \A l \in Leases : lease[l].refs > 0 => lease[l].dom # 0 /\ lease[l].key # 0
    /\ \A g \in Groups : groups[g].key # 0 => groups[g].dom # 0

\* A reaper that looks at the groups of a domain has seen its last frame; one
\* that destroys the codec its last group as well.
ReapInv ==
    \A t \in Reapers :
        /\ reap[t].stage # "look" =>
              \A l \in Leases : lease[l].refs > 0 => lease[l].dom # reap[t].at
        /\ reap[t].stage = "free" =>
              \A g \in Groups : groups[g].key # 0 => groups[g].dom # reap[t].at

\* The pending frames are numbered in their order; a task and a picture with the
\* same number come from the same submission.
PicturesInv ==
    /\ \A i \in 1 .. Len(box.pending) : lease[box.pending[i]].seq <= box.seq
    /\ \A i, j \in 1 .. Len(box.pending) :
         i < j => lease[box.pending[i]].seq < lease[box.pending[j]].seq
    /\ \A n \in 1 .. Len(box.jobs), i \in 1 .. Len(box.pending) :
         ~box.jobs[n].placeholder /\ lease[box.pending[i]].seq = box.jobs[n].seq
             => lease[box.pending[i]].task = box.jobs[n].task
    /\ \A n \in 1 .. Len(box.jobs) : box.jobs[n].seq <= box.seq
    /\ \A i \in 1 .. Len(box.pending) :
         session.seq # 0 /\ lease[box.pending[i]].seq = session.seq
             => lease[box.pending[i]].task = session.task
    /\ SelectionIsOwnPicture

IInv ==
    /\ TypeOK /\ ThreadsInv /\ EpochInv /\ MailboxInv /\ BatchInv /\ TicketsInv
    /\ ReferencesCounted /\ OwnEnvelope /\ DomainsInv /\ DomainOutlivesUse /\ ReapInv
    /\ PicturesInv /\ BatchKeepsGroups

-----------------------------------------------------------------------------
(* The steps that branch, split.                                           *)

\* What the steps of several threads have in common.
ClosedBox == [box EXCEPT !.cancelled = TRUE, !.accepting = FALSE,
                         !.pending = <<>>, !.jobs = <<>>, !.image = 0]

OpenRefused ==
    /\ session.pc = "open" /\ drop["session"] = <<>> /\ lock = "none"
    /\ ~Admissible
    /\ session' = [session EXCEPT !.pc = "idle"]
    /\ UNCHANGED <<lock, box, dom, lease, owed, render, groups, batches, worker, drop, reap>>

OpenBare ==
    /\ session.pc = "open" /\ drop["session"] = <<>> /\ lock = "none"
    /\ Admissible
    /\ box' = [box EXCEPT !.active = session.key, !.cancelled = FALSE, !.seq = 0]
    /\ session' = [session EXCEPT !.pc = "streaming"]
    /\ UNCHANGED <<lock, dom, lease, owed, render, groups, batches, worker, drop, reap>>

OpenDomain ==
    /\ session.pc = "open" /\ drop["session"] = <<>> /\ lock = "none"
    /\ Admissible
    /\ lock' = "session"
    /\ box' = [box EXCEPT !.active = session.key, !.cancelled = FALSE, !.seq = 0]
    /\ \E d \in FreeDomains :
           session' = [session EXCEPT !.pc = "codec", !.dom = d]
    /\ UNCHANGED <<dom, lease, owed, render, groups, batches, worker, drop, reap>>

OpenedAccepted ==
    /\ session.pc = "codec" /\ drop["session"] = <<>>
    /\ ~box.cancelled /\ ~box.frozen
    /\ lock' = "none"
    /\ box' = [box EXCEPT !.accepting = TRUE]
    /\ dom' = [dom EXCEPT ![session.dom] =
                   [occupied |-> TRUE, stopped |-> FALSE, reaping |-> FALSE, key |-> session.key]]
    /\ session' = [session EXCEPT !.pc = "streaming", !.dom = 0]
    /\ UNCHANGED <<lease, owed, render, groups, batches, worker, drop, reap>>

OpenedInVain ==
    /\ session.pc = "codec" /\ drop["session"] = <<>>
    /\ box.cancelled \/ box.frozen
    /\ lock' = "none"
    /\ box' = [box EXCEPT !.accepting = FALSE]
    /\ dom' = [dom EXCEPT ![session.dom] =
                   [occupied |-> TRUE, stopped |-> TRUE, reaping |-> FALSE, key |-> session.key]]
    /\ session' = [session EXCEPT !.pc = "idle", !.dom = 0]
    /\ UNCHANGED <<lease, owed, render, groups, batches, worker, drop, reap>>

SubmitReset ==
    /\ session.pc = "streaming" /\ drop["session"] = <<>> /\ lock = "none"
    /\ session.task < MaxTask /\ box.frozen
    /\ session' = [session EXCEPT !.task = @ + 1]
    /\ UNCHANGED <<lock, box, dom, lease, owed, render, groups, batches, worker, drop, reap>>

SubmitFails ==
    /\ session.pc = "streaming" /\ drop["session"] = <<>> /\ lock = "none"
    /\ session.task < MaxTask
    /\ session' = [session EXCEPT !.pc = "failed"]
    /\ UNCHANGED <<lock, box, dom, lease, owed, render, groups, batches, worker, drop, reap>>

SubmitAccepted ==
    /\ session.pc = "streaming" /\ drop["session"] = <<>> /\ lock = "none"
    /\ session.task < MaxTask
    /\ lock' = "session"
    /\ owed' = owed \union {session.task + 1}
    /\ session' = [session EXCEPT !.pc = "decode", !.task = @ + 1]
    /\ UNCHANGED <<box, dom, lease, render, groups, batches, worker, drop, reap>>

EvictNone ==
    /\ session.pc = "decode" /\ drop["session"] = <<>>
    /\ session' = [session EXCEPT !.pc = "evicted"]
    /\ UNCHANGED <<lock, box, dom, lease, owed, render, groups, batches, worker, drop, reap>>

EvictOldest ==
    /\ session.pc = "decode" /\ drop["session"] = <<>> /\ box.pending # <<>>
    /\ box' = [box EXCEPT !.pending = Tail(@)]
    /\ session' = [session EXCEPT !.pc = "evicted"]
    /\ drop' = [drop EXCEPT !["session"] = <<Head(box.pending)>>]
    /\ UNCHANGED <<lock, dom, lease, owed, render, groups, batches, worker, reap>>

PublishQueued ==
    /\ session.pc = "publish" /\ drop["session"] = <<>>
    /\ IsCurrent(session.key)
    /\ box' = [box EXCEPT !.seq = @ + 1, !.pending = Append(@, session.lease)]
    /\ \E d \in DomainOf(session.key) :
           lease' = [lease EXCEPT ![session.lease] =
               [refs |-> 1, key |-> session.key, dom |-> d, task |-> session.task,
                seq |-> box.seq + 1]]
    /\ session' = [session EXCEPT !.pc = "queue", !.lease = 0, !.seq = box.seq + 1]
    /\ UNCHANGED <<lock, dom, owed, render, groups, batches, worker, drop, reap>>

PublishDropped ==
    /\ session.pc = "publish" /\ drop["session"] = <<>>
    /\ \E d \in DomainOf(session.key) :
           lease' = [lease EXCEPT ![session.lease] =
               [refs |-> 1, key |-> session.key, dom |-> d, task |-> session.task,
                seq |-> 0]]
    /\ session' = [session EXCEPT !.pc = "queue", !.lease = 0, !.seq = 0]
    /\ drop' = [drop EXCEPT !["session"] = <<session.lease>>]
    /\ UNCHANGED <<lock, box, dom, owed, render, groups, batches, worker, reap>>

QueueAccepted ==
    /\ session.pc = "queue" /\ drop["session"] = <<>> /\ IsCurrent(session.key)
    /\ lock' = "none"
    /\ box' = [box EXCEPT !.jobs = Append(@, Task(session.task,
                  IF session.seq = 0 THEN box.seq ELSE session.seq, session.seq = 0))]
    /\ session' = [session EXCEPT !.pc = "streaming", !.seq = 0]
    /\ UNCHANGED <<dom, lease, owed, render, groups, batches, worker, drop, reap>>

QueueRefused ==
    /\ session.pc = "queue" /\ drop["session"] = <<>>
    /\ lock' = "none"
    /\ owed' = owed \ {session.task}
    /\ \E pc \in {"streaming", "failed"} :
           session' = [session EXCEPT !.pc = pc, !.seq = 0]
    /\ UNCHANGED <<box, dom, lease, render, groups, batches, worker, drop, reap>>

FlushActive ==
    /\ session.pc = "streaming" /\ drop["session"] = <<>>
    /\ box' = ClosedBox
    /\ owed' = owed \ QueuedTasks
    /\ drop' = [drop EXCEPT !["session"] = Queued]
    /\ UNCHANGED <<lock, dom, lease, session, render, groups, batches, worker, reap>>

StopActive ==
    /\ session.pc \in {"streaming", "failed"} /\ drop["session"] = <<>>
    /\ box.active = session.key
    /\ box' = ClosedBox
    /\ owed' = owed \ QueuedTasks
    /\ session' = [session EXCEPT !.pc = "stop"]
    /\ drop' = [drop EXCEPT !["session"] = Queued]
    /\ UNCHANGED <<lock, dom, lease, render, groups, batches, worker, reap>>

StopStale ==
    /\ session.pc \in {"streaming", "failed"} /\ drop["session"] = <<>>
    /\ box.active # session.key
    /\ session' = [session EXCEPT !.pc = "stop"]
    /\ UNCHANGED <<lock, box, dom, lease, owed, render, groups, batches, worker, drop, reap>>

StopNothing ==
    /\ session.pc = "stop" /\ drop["session"] = <<>> /\ lock = "none"
    /\ reap["session"].at = 0
    /\ session' = [session EXCEPT !.pc = "stopped"]
    /\ reap' = [reap EXCEPT !["session"] = [at |-> 1, stage |-> "look"]]
    /\ UNCHANGED <<lock, box, dom, lease, owed, render, groups, batches, worker, drop>>

StopCodec ==
    /\ session.pc = "stop" /\ drop["session"] = <<>> /\ lock = "none"
    /\ \E D \in SUBSET (1 .. Domains) :
           dom' = [d \in 1 .. Domains |->
                  IF d \in D THEN [dom[d] EXCEPT !.stopped = TRUE, !.reaping = TRUE] ELSE dom[d]]
    /\ session' = [session EXCEPT !.pc = "teardown"]
    /\ UNCHANGED <<lock, box, lease, owed, render, groups, batches, worker, drop, reap>>

ReapPasses(t) ==
    /\ Reaping(t) /\ reap[t].stage = "look" /\ lock = "none"
    /\ reap' = [reap EXCEPT ![t] = [at |-> reap[t].at + 1, stage |-> "look"]]
    /\ UNCHANGED <<lock, box, dom, lease, owed, session, render, groups, batches, worker, drop>>

ReapFinds(t) ==
    /\ Reaping(t) /\ reap[t].stage = "look" /\ lock = "none"
    /\ External(reap[t].at) = 0
    /\ lock' = t
    /\ reap' = [reap EXCEPT ![t] = [at |-> reap[t].at, stage |-> "maps"]]
    /\ UNCHANGED <<box, dom, lease, owed, session, render, groups, batches, worker, drop>>

ReapLeaves(t) ==
    /\ Reaping(t) /\ reap[t].stage = "maps"
    /\ lock' = "none"
    /\ reap' = [reap EXCEPT ![t] = [at |-> reap[t].at + 1, stage |-> "look"]]
    /\ UNCHANGED <<box, dom, lease, owed, session, render, groups, batches, worker, drop>>

ReapTakes(t) ==
    /\ Reaping(t) /\ reap[t].stage = "maps" /\ Mappings(reap[t].at) = 0
    /\ lock' = "none"
    /\ dom' = [dom EXCEPT ![reap[t].at].reaping = TRUE]
    /\ reap' = [reap EXCEPT ![t] = [at |-> reap[t].at, stage |-> "free"]]
    /\ UNCHANGED <<box, lease, owed, session, render, groups, batches, worker, drop>>

DropStale ==
    /\ render.pc = "current" /\ drop["main"] = <<>> /\ render.current # 0
    /\ lease' = Released(lease, {render.current})
    /\ render' = [render EXCEPT !.pc = "forget", !.current = 0]
    /\ UNCHANGED <<lock, box, dom, owed, session, groups, batches, worker, drop, reap>>

KeepShown ==
    /\ render.pc = "current" /\ drop["main"] = <<>>
    /\ render' = [render EXCEPT !.pc = "forget"]
    /\ UNCHANGED <<lock, box, dom, lease, owed, session, groups, batches, worker, drop, reap>>

ForgetNothing ==
    /\ render.pc = "forget" /\ drop["main"] = <<>>
    /\ render' = [render EXCEPT !.pc = "select"]
    /\ UNCHANGED <<lock, box, dom, lease, owed, session, groups, batches, worker, drop, reap>>

ForgetAll ==
    /\ render.pc = "forget" /\ drop["main"] = <<>>
    /\ render' = [render EXCEPT !.pc = "select", !.group = 0]
    /\ groups' = Retired(0)
    /\ UNCHANGED <<lock, box, dom, lease, owed, session, batches, worker, drop, reap>>

MainClosesActive ==
    /\ render.pc = "frozen" /\ drop["main"] = <<>>
    /\ box.active = render.closing
    /\ box' = ClosedBox
    /\ owed' = owed \ QueuedTasks
    /\ render' = [render EXCEPT !.pc = "collect", !.closing = 0]
    /\ drop' = [drop EXCEPT !["main"] = Queued]
    /\ UNCHANGED <<lock, dom, lease, session, groups, batches, worker, reap>>

MainClosesStale ==
    /\ render.pc = "frozen" /\ drop["main"] = <<>>
    /\ box.active # render.closing
    /\ render' = [render EXCEPT !.pc = "collect", !.closing = 0]
    /\ UNCHANGED <<lock, box, dom, lease, owed, session, groups, batches, worker, drop, reap>>

CheckKept ==
    /\ render.pc = "check" /\ drop["main"] = <<>> /\ IsCurrent(render.sel.key)
    /\ render' = [render EXCEPT !.pc = "draw"]
    /\ UNCHANGED <<lock, box, dom, lease, owed, session, groups, batches, worker, drop, reap>>

CheckVoid ==
    /\ render.pc = "check" /\ drop["main"] = <<>>
    /\ lease' = Released(lease, {render.sel.frame})
    /\ owed' = owed \ {render.sel.task}
    /\ render' = [render EXCEPT !.pc = "draw", !.sel = NoSelection]
    /\ UNCHANGED <<lock, box, dom, session, groups, batches, worker, drop, reap>>

CloseFailedActive ==
    /\ render.pc = "failed" /\ drop["main"] = <<>>
    /\ box.active = render.sel.key
    /\ box' = ClosedBox
    /\ owed' = owed \ QueuedTasks
    /\ render' = [render EXCEPT !.pc = IF render.current = 0 THEN "present" ELSE "redraw"]
    /\ drop' = [drop EXCEPT !["main"] = Queued]
    /\ UNCHANGED <<lock, dom, lease, session, groups, batches, worker, reap>>

CloseFailedStale ==
    /\ render.pc = "failed" /\ drop["main"] = <<>>
    /\ box.active # render.sel.key
    /\ render' = [render EXCEPT !.pc = IF render.current = 0 THEN "present" ELSE "redraw"]
    /\ UNCHANGED <<lock, box, dom, lease, owed, session, groups, batches, worker, drop, reap>>

PresentShown ==
    /\ render.pc = "present" /\ drop["main"] = <<>>
    /\ lease' = Released(lease, {render.current})
    /\ owed' = owed \ {render.sel.task}
    /\ render' = [render EXCEPT !.pc = "collect", !.sel = NoSelection,
                              !.current = render.sel.frame]
    /\ batches' = [batches EXCEPT ![Recording].state = "submitted"]
    /\ UNCHANGED <<lock, box, dom, session, groups, worker, drop, reap>>

PresentHeld ==
    /\ render.pc = "present" /\ drop["main"] = <<>>
    /\ lease' = Released(lease, {render.sel.frame})
    /\ owed' = owed \ {render.sel.task}
    /\ render' = [render EXCEPT !.pc = "collect", !.sel = NoSelection]
    /\ batches' = [batches EXCEPT ![Recording].state = "submitted"]
    /\ UNCHANGED <<lock, box, dom, session, groups, worker, drop, reap>>

WorkerClosesActive ==
    /\ worker = "frozen" /\ drop["worker"] = <<>>
    /\ box' = ClosedBox
    /\ owed' = owed \ QueuedTasks
    /\ worker' = "join"
    /\ drop' = [drop EXCEPT !["worker"] = Queued]
    /\ UNCHANGED <<lock, dom, lease, session, render, groups, batches, reap>>

CleanedDone ==
    /\ worker = "clean" /\ drop["worker"] = <<>>
    /\ reap["worker"].at = Domains + 1 /\ Clean
    /\ worker' = "idle"
    /\ reap' = [reap EXCEPT !["worker"] = [at |-> 0, stage |-> "look"]]
    /\ UNCHANGED <<lock, box, dom, lease, owed, session, render, groups, batches, drop>>

CleanedAgain ==
    /\ worker = "clean" /\ drop["worker"] = <<>>
    /\ reap["worker"].at = Domains + 1
    /\ reap' = [reap EXCEPT !["worker"] = [at |-> 1, stage |-> "look"]]
    /\ UNCHANGED <<lock, box, dom, lease, owed, session, render, groups, batches, worker, drop>>

USE DEF SessionAt, SessionTo, RenderAt, RenderTo, OnlyRender, WorkerAt, ReapBegins, ReapDone,
        Reaper, Look, Reaping, Freeze, Close, ClosedBox, decoderVars, frameVars, drawVars

\* All the steps.
Steps ==
    \/ Start \/ Name \/ OpenRefused \/ OpenBare \/ OpenDomain \/ OpenFails
    \/ OpenedAccepted \/ OpenedInVain \/ SubmitReset \/ SubmitFails \/ SubmitAccepted
    \/ Rejected \/ NoPicture \/ Acquire \/ EvictNone \/ EvictOldest \/ Exhausted
    \/ PublishQueued \/ PublishDropped \/ QueueAccepted \/ QueueRefused \/ FlushActive
    \/ StopActive \/ StopStale \/ StopNothing \/ StopCodec \/ Teardown \/ Stopped
    \/ (\E t \in Threads : Release(t)) \/ (\E t \in Reapers : ReapPasses(t))
    \/ (\E t \in Reapers : ReapFinds(t)) \/ (\E t \in Reapers : ReapLeaves(t))
    \/ (\E t \in Reapers : ReapTakes(t)) \/ (\E t \in Reapers : ReapFree(t))
    \/ (\E b \in Batches : Completed(b)) \/ Collected \/ DropStale \/ KeepShown
    \/ ForgetNothing \/ ForgetAll \/ Skip \/ MainFreezes \/ MainClosesActive
    \/ MainClosesStale \/ Repaint \/ Select \/ CheckKept \/ CheckVoid \/ DrawNothing
    \/ Draw \/ ImportFails \/ DrawFails \/ CloseFailedActive \/ CloseFailedStale
    \/ PresentShown \/ PresentHeld \/ Thaw \/ WorkerFreezes \/ WorkerClosesActive \/ Joined
    \/ CleanedDone \/ CleanedAgain

\* Every step is one of them.
LEMMA StepBranches ==
    ASSUME TypeOK, Next
    PROVE  Steps
<1>1. ASSUME Open
      PROVE  OpenRefused \/ OpenBare \/ OpenDomain
  BY <1>1 DEF TypeOK, Open, OpenRefused, OpenBare, OpenDomain
<1>2. ASSUME Opened
      PROVE  OpenedAccepted \/ OpenedInVain
  BY <1>2 DEF TypeOK, Opened, OpenedAccepted, OpenedInVain
<1>3. ASSUME Submit
      PROVE  SubmitReset \/ SubmitFails \/ SubmitAccepted
  BY <1>3 DEF TypeOK, Submit, SubmitReset, SubmitFails, SubmitAccepted
<1>4. ASSUME Evict
      PROVE  EvictNone \/ EvictOldest
  BY <1>4 DEF TypeOK, Evict, EvictNone, EvictOldest
<1>5. ASSUME Publish
      PROVE  PublishQueued \/ PublishDropped
  BY <1>5 DEF TypeOK, Publish, PublishQueued, PublishDropped
<1>6. ASSUME QueueTask
      PROVE  QueueAccepted \/ QueueRefused
  BY <1>6 DEF TypeOK, QueueTask, QueueAccepted, QueueRefused
<1>7. ASSUME FlushPlayer
      PROVE  FlushActive
  BY <1>7 DEF FlushPlayer, FlushActive, IsCurrent
<1>8. ASSUME Stop
      PROVE  StopActive \/ StopStale
  BY <1>8 DEF TypeOK, Stop, StopActive, StopStale
<1>9. ASSUME StopDomain
      PROVE  StopNothing \/ StopCodec
  <2> DEFINE D == {d \in DomainOf(session.key) : ~dom[d].reaping}
  <2>1. CASE D = {}
    <3>1. dom' = dom
      BY <1>9, <2>1 DEF TypeOK, StopDomain
    <3> QED
      BY <1>9, <2>1, <3>1 DEF StopDomain, StopNothing
  <2>2. CASE D # {}
    <3>1. D \in SUBSET (1 .. Domains)
      BY DEF DomainOf
    <3>2. session' = [session EXCEPT !.pc = "teardown"] /\ reap' = reap
      BY <1>9, <2>2 DEF StopDomain
    <3> QED
      BY <1>9, <3>1, <3>2 DEF StopDomain, StopCodec
  <2> QED
    BY <2>1, <2>2
<1>10. ASSUME NEW t \in Reapers, ReapLook(t)
      PROVE  ReapPasses(t) \/ ReapFinds(t)
  BY <1>10 DEF TypeOK, ReapLook, Unused, ReapPasses, ReapFinds
<1>11. ASSUME NEW t \in Reapers, ReapMaps(t)
      PROVE  ReapLeaves(t) \/ ReapTakes(t)
  BY <1>11 DEF TypeOK, ReapMaps, Unused, ReapLeaves, ReapTakes
<1>12. ASSUME DropCurrent
      PROVE  DropStale \/ KeepShown
  BY <1>12 DEF TypeOK, DropCurrent, DropStale, KeepShown
<1>13. ASSUME Forget
      PROVE  ForgetNothing \/ ForgetAll
  BY <1>13 DEF TypeOK, Forget, ForgetNothing, ForgetAll
<1>14. ASSUME MainCloses
      PROVE  MainClosesActive \/ MainClosesStale
  BY <1>14 DEF TypeOK, MainCloses, MainClosesActive, MainClosesStale
<1>15. ASSUME Check
      PROVE  CheckKept \/ CheckVoid
  BY <1>15 DEF TypeOK, Check, CheckKept, CheckVoid
<1>16. ASSUME CloseFailed
      PROVE  CloseFailedActive \/ CloseFailedStale
  BY <1>16 DEF TypeOK, CloseFailed, CloseFailedActive, CloseFailedStale
<1>17. ASSUME Present
      PROVE  PresentShown \/ PresentHeld
  BY <1>17 DEF TypeOK, Present, PresentShown, PresentHeld
<1>18. ASSUME WorkerCloses
      PROVE  WorkerClosesActive
  BY <1>18 DEF TypeOK, WorkerCloses, WorkerClosesActive
<1>19. ASSUME Cleaned
      PROVE  CleanedDone \/ CleanedAgain
  BY <1>19 DEF TypeOK, Cleaned, CleanedDone, CleanedAgain
<1> QED
  BY <1>1, <1>2, <1>3, <1>4, <1>5, <1>6, <1>7, <1>8, <1>9, <1>10, <1>11, <1>12, <1>13, <1>14,
     <1>15, <1>16, <1>17, <1>18, <1>19
     DEF Next, Session, Render, Worker, Steps, Threads, Reapers, Reap

\* Who changes the decoder lock,
LEMMA LockSteps ==
    ASSUME Steps
    PROVE  UNCHANGED lock \/ OpenDomain \/ OpenFails \/ OpenedAccepted \/ OpenedInVain
           \/ SubmitAccepted \/ Rejected \/ Exhausted \/ QueueAccepted \/ QueueRefused
           \/ (\E t \in Reapers : ReapFinds(t)) \/ (\E t \in Reapers : ReapLeaves(t))
           \/ (\E t \in Reapers : ReapTakes(t))
<1>1. CASE Start \/ Name \/ OpenRefused \/ OpenBare \/ SubmitReset \/ SubmitFails
          \/ NoPicture \/ Acquire \/ EvictNone \/ EvictOldest \/ PublishQueued
          \/ PublishDropped \/ FlushActive \/ StopActive \/ StopStale \/ StopNothing
          \/ StopCodec \/ Teardown \/ Stopped \/ (\E t \in Threads : Release(t))
          \/ (\E t \in Reapers : ReapPasses(t)) \/ (\E t \in Reapers : ReapFree(t))
          \/ (\E b \in Batches : Completed(b)) \/ Collected \/ DropStale \/ KeepShown
          \/ ForgetNothing \/ ForgetAll \/ Skip \/ MainFreezes \/ MainClosesActive
          \/ MainClosesStale \/ Repaint \/ Select \/ CheckKept \/ CheckVoid \/ DrawNothing
          \/ Draw \/ ImportFails \/ DrawFails \/ CloseFailedActive \/ CloseFailedStale
          \/ PresentShown \/ PresentHeld \/ Thaw \/ WorkerFreezes \/ WorkerClosesActive
          \/ Joined \/ CleanedDone \/ CleanedAgain
  <2>1. UNCHANGED lock
    BY <1>1 DEF Start, Name, OpenRefused, OpenBare, SubmitReset, SubmitFails, NoPicture,
           Acquire, EvictNone, EvictOldest, PublishQueued, PublishDropped, FlushActive,
           StopActive, StopStale, StopNothing, StopCodec, Teardown, Stopped, Release,
           ReapPasses, ReapFree, Completed, Collected, DropStale, KeepShown, ForgetNothing,
           ForgetAll, Skip, MainFreezes, MainClosesActive, MainClosesStale, Repaint, Select,
           CheckKept, CheckVoid, DrawNothing, Draw, ImportFails, DrawFails, CloseFailedActive,
           CloseFailedStale, PresentShown, PresentHeld, Thaw, WorkerFreezes,
           WorkerClosesActive, Joined, CleanedDone, CleanedAgain
  <2> QED
    BY <2>1
<1> QED
  BY <1>1 DEF Steps

\* ... the mailbox,
LEMMA BoxSteps ==
    ASSUME Steps
    PROVE  UNCHANGED box \/ OpenBare \/ OpenDomain \/ OpenedAccepted \/ OpenedInVain \/ EvictOldest
           \/ PublishQueued \/ QueueAccepted \/ FlushActive \/ StopActive \/ MainFreezes
           \/ MainClosesActive \/ Select \/ CloseFailedActive \/ Thaw \/ WorkerFreezes
           \/ WorkerClosesActive
<1>1. CASE Start \/ Name \/ OpenRefused \/ OpenFails \/ SubmitReset \/ SubmitFails
          \/ SubmitAccepted \/ Rejected \/ NoPicture \/ Acquire \/ EvictNone \/ Exhausted
          \/ PublishDropped \/ QueueRefused \/ StopStale \/ StopNothing \/ StopCodec
          \/ Teardown \/ Stopped \/ (\E t \in Threads : Release(t))
          \/ (\E t \in Reapers : ReapPasses(t)) \/ (\E t \in Reapers : ReapFinds(t))
          \/ (\E t \in Reapers : ReapLeaves(t)) \/ (\E t \in Reapers : ReapTakes(t))
          \/ (\E t \in Reapers : ReapFree(t)) \/ (\E b \in Batches : Completed(b))
          \/ Collected \/ DropStale \/ KeepShown \/ ForgetNothing \/ ForgetAll \/ Skip
          \/ MainClosesStale \/ Repaint \/ CheckKept \/ CheckVoid \/ DrawNothing \/ Draw
          \/ ImportFails \/ DrawFails \/ CloseFailedStale \/ PresentShown \/ PresentHeld
          \/ Joined \/ CleanedDone \/ CleanedAgain
  <2>1. UNCHANGED box
    BY <1>1 DEF Start, Name, OpenRefused, OpenFails, SubmitReset, SubmitFails, SubmitAccepted,
           Rejected, NoPicture, Acquire, EvictNone, Exhausted, PublishDropped, QueueRefused,
           StopStale, StopNothing, StopCodec, Teardown, Stopped, Release, ReapPasses,
           ReapFinds, ReapLeaves, ReapTakes, ReapFree, Completed, Collected, DropStale,
           KeepShown, ForgetNothing, ForgetAll, Skip, MainClosesStale, Repaint, CheckKept,
           CheckVoid, DrawNothing, Draw, ImportFails, DrawFails, CloseFailedStale,
           PresentShown, PresentHeld, Joined, CleanedDone, CleanedAgain
  <2> QED
    BY <2>1
<1> QED
  BY <1>1 DEF Steps

\* ... the domains,
LEMMA DomainSteps ==
    ASSUME Steps
    PROVE  UNCHANGED dom \/ OpenedAccepted \/ OpenedInVain \/ StopCodec \/ Teardown
           \/ (\E t \in Reapers : ReapTakes(t)) \/ (\E t \in Reapers : ReapFree(t))
<1>1. CASE Start \/ Name \/ OpenRefused \/ OpenBare \/ OpenDomain \/ OpenFails
          \/ SubmitReset \/ SubmitFails \/ SubmitAccepted \/ Rejected \/ NoPicture
          \/ Acquire \/ EvictNone \/ EvictOldest \/ Exhausted \/ PublishQueued
          \/ PublishDropped \/ QueueAccepted \/ QueueRefused \/ FlushActive \/ StopActive
          \/ StopStale \/ StopNothing \/ Stopped \/ (\E t \in Threads : Release(t))
          \/ (\E t \in Reapers : ReapPasses(t)) \/ (\E t \in Reapers : ReapFinds(t))
          \/ (\E t \in Reapers : ReapLeaves(t)) \/ (\E b \in Batches : Completed(b))
          \/ Collected \/ DropStale \/ KeepShown \/ ForgetNothing \/ ForgetAll \/ Skip
          \/ MainFreezes \/ MainClosesActive \/ MainClosesStale \/ Repaint \/ Select
          \/ CheckKept \/ CheckVoid \/ DrawNothing \/ Draw \/ ImportFails \/ DrawFails
          \/ CloseFailedActive \/ CloseFailedStale \/ PresentShown \/ PresentHeld \/ Thaw
          \/ WorkerFreezes \/ WorkerClosesActive \/ Joined \/ CleanedDone \/ CleanedAgain
  <2>1. UNCHANGED dom
    BY <1>1 DEF Start, Name, OpenRefused, OpenBare, OpenDomain, OpenFails, SubmitReset,
           SubmitFails, SubmitAccepted, Rejected, NoPicture, Acquire, EvictNone, EvictOldest,
           Exhausted, PublishQueued, PublishDropped, QueueAccepted, QueueRefused, FlushActive,
           StopActive, StopStale, StopNothing, Stopped, Release, ReapPasses, ReapFinds,
           ReapLeaves, Completed, Collected, DropStale, KeepShown, ForgetNothing, ForgetAll,
           Skip, MainFreezes, MainClosesActive, MainClosesStale, Repaint, Select, CheckKept,
           CheckVoid, DrawNothing, Draw, ImportFails, DrawFails, CloseFailedActive,
           CloseFailedStale, PresentShown, PresentHeld, Thaw, WorkerFreezes,
           WorkerClosesActive, Joined, CleanedDone, CleanedAgain
  <2> QED
    BY <2>1
<1> QED
  BY <1>1 DEF Steps

\* ... the frames,
LEMMA LeaseSteps ==
    ASSUME Steps
    PROVE  UNCHANGED lease \/ PublishQueued \/ PublishDropped \/ (\E t \in Threads : Release(t))
           \/ (\E b \in Batches : Completed(b)) \/ DropStale \/ Select \/ CheckVoid \/ Draw
           \/ DrawFails \/ PresentShown \/ PresentHeld
<1>1. CASE Start \/ Name \/ OpenRefused \/ OpenBare \/ OpenDomain \/ OpenFails
          \/ OpenedAccepted \/ OpenedInVain \/ SubmitReset \/ SubmitFails \/ SubmitAccepted
          \/ Rejected \/ NoPicture \/ Acquire \/ EvictNone \/ EvictOldest \/ Exhausted
          \/ QueueAccepted \/ QueueRefused \/ FlushActive \/ StopActive \/ StopStale
          \/ StopNothing \/ StopCodec \/ Teardown \/ Stopped
          \/ (\E t \in Reapers : ReapPasses(t)) \/ (\E t \in Reapers : ReapFinds(t))
          \/ (\E t \in Reapers : ReapLeaves(t)) \/ (\E t \in Reapers : ReapTakes(t))
          \/ (\E t \in Reapers : ReapFree(t)) \/ Collected \/ KeepShown \/ ForgetNothing
          \/ ForgetAll \/ Skip \/ MainFreezes \/ MainClosesActive \/ MainClosesStale
          \/ Repaint \/ CheckKept \/ DrawNothing \/ ImportFails \/ CloseFailedActive
          \/ CloseFailedStale \/ Thaw \/ WorkerFreezes \/ WorkerClosesActive \/ Joined
          \/ CleanedDone \/ CleanedAgain
  <2>1. UNCHANGED lease
    BY <1>1 DEF Start, Name, OpenRefused, OpenBare, OpenDomain, OpenFails, OpenedAccepted,
           OpenedInVain, SubmitReset, SubmitFails, SubmitAccepted, Rejected, NoPicture,
           Acquire, EvictNone, EvictOldest, Exhausted, QueueAccepted, QueueRefused,
           FlushActive, StopActive, StopStale, StopNothing, StopCodec, Teardown, Stopped,
           ReapPasses, ReapFinds, ReapLeaves, ReapTakes, ReapFree, Collected, KeepShown,
           ForgetNothing, ForgetAll, Skip, MainFreezes, MainClosesActive, MainClosesStale,
           Repaint, CheckKept, DrawNothing, ImportFails, CloseFailedActive, CloseFailedStale,
           Thaw, WorkerFreezes, WorkerClosesActive, Joined, CleanedDone, CleanedAgain
  <2> QED
    BY <2>1
<1> QED
  BY <1>1 DEF Steps

\* ... the tickets,
LEMMA OwedSteps ==
    ASSUME Steps
    PROVE  UNCHANGED owed \/ SubmitAccepted \/ Rejected \/ NoPicture \/ Exhausted \/ QueueRefused
           \/ FlushActive \/ StopActive \/ MainClosesActive \/ Select \/ CheckVoid
           \/ CloseFailedActive \/ PresentShown \/ PresentHeld \/ WorkerClosesActive
<1>1. CASE Start \/ Name \/ OpenRefused \/ OpenBare \/ OpenDomain \/ OpenFails
          \/ OpenedAccepted \/ OpenedInVain \/ SubmitReset \/ SubmitFails \/ Acquire
          \/ EvictNone \/ EvictOldest \/ PublishQueued \/ PublishDropped \/ QueueAccepted
          \/ StopStale \/ StopNothing \/ StopCodec \/ Teardown \/ Stopped
          \/ (\E t \in Threads : Release(t)) \/ (\E t \in Reapers : ReapPasses(t))
          \/ (\E t \in Reapers : ReapFinds(t)) \/ (\E t \in Reapers : ReapLeaves(t))
          \/ (\E t \in Reapers : ReapTakes(t)) \/ (\E t \in Reapers : ReapFree(t))
          \/ (\E b \in Batches : Completed(b)) \/ Collected \/ DropStale \/ KeepShown
          \/ ForgetNothing \/ ForgetAll \/ Skip \/ MainFreezes \/ MainClosesStale
          \/ Repaint \/ CheckKept \/ DrawNothing \/ Draw \/ ImportFails \/ DrawFails
          \/ CloseFailedStale \/ Thaw \/ WorkerFreezes \/ Joined \/ CleanedDone
          \/ CleanedAgain
  <2>1. UNCHANGED owed
    BY <1>1 DEF Start, Name, OpenRefused, OpenBare, OpenDomain, OpenFails, OpenedAccepted,
           OpenedInVain, SubmitReset, SubmitFails, Acquire, EvictNone, EvictOldest,
           PublishQueued, PublishDropped, QueueAccepted, StopStale, StopNothing, StopCodec,
           Teardown, Stopped, Release, ReapPasses, ReapFinds, ReapLeaves, ReapTakes, ReapFree,
           Completed, Collected, DropStale, KeepShown, ForgetNothing, ForgetAll, Skip,
           MainFreezes, MainClosesStale, Repaint, CheckKept, DrawNothing, Draw, ImportFails,
           DrawFails, CloseFailedStale, Thaw, WorkerFreezes, Joined, CleanedDone, CleanedAgain
  <2> QED
    BY <2>1
<1> QED
  BY <1>1 DEF Steps

\* ... the session's thread,
LEMMA SessionSteps ==
    ASSUME Steps
    PROVE  UNCHANGED session \/ Start \/ Name \/ OpenRefused \/ OpenBare \/ OpenDomain \/ OpenFails
           \/ OpenedAccepted \/ OpenedInVain \/ SubmitReset \/ SubmitFails
           \/ SubmitAccepted \/ Rejected \/ NoPicture \/ Acquire \/ EvictNone
           \/ EvictOldest \/ Exhausted \/ PublishQueued \/ PublishDropped \/ QueueAccepted
           \/ QueueRefused \/ StopActive \/ StopStale \/ StopNothing \/ StopCodec
           \/ Teardown \/ Stopped
<1>1. CASE FlushActive \/ (\E t \in Threads : Release(t))
          \/ (\E t \in Reapers : ReapPasses(t)) \/ (\E t \in Reapers : ReapFinds(t))
          \/ (\E t \in Reapers : ReapLeaves(t)) \/ (\E t \in Reapers : ReapTakes(t))
          \/ (\E t \in Reapers : ReapFree(t)) \/ (\E b \in Batches : Completed(b))
          \/ Collected \/ DropStale \/ KeepShown \/ ForgetNothing \/ ForgetAll \/ Skip
          \/ MainFreezes \/ MainClosesActive \/ MainClosesStale \/ Repaint \/ Select
          \/ CheckKept \/ CheckVoid \/ DrawNothing \/ Draw \/ ImportFails \/ DrawFails
          \/ CloseFailedActive \/ CloseFailedStale \/ PresentShown \/ PresentHeld \/ Thaw
          \/ WorkerFreezes \/ WorkerClosesActive \/ Joined \/ CleanedDone \/ CleanedAgain
  <2>1. UNCHANGED session
    BY <1>1 DEF FlushActive, Release, ReapPasses, ReapFinds, ReapLeaves, ReapTakes, ReapFree,
           Completed, Collected, DropStale, KeepShown, ForgetNothing, ForgetAll, Skip,
           MainFreezes, MainClosesActive, MainClosesStale, Repaint, Select, CheckKept,
           CheckVoid, DrawNothing, Draw, ImportFails, DrawFails, CloseFailedActive,
           CloseFailedStale, PresentShown, PresentHeld, Thaw, WorkerFreezes,
           WorkerClosesActive, Joined, CleanedDone, CleanedAgain
  <2> QED
    BY <2>1
<1> QED
  BY <1>1 DEF Steps

\* ... the main thread,
LEMMA RenderSteps ==
    ASSUME Steps
    PROVE  UNCHANGED render \/ Collected \/ DropStale \/ KeepShown \/ ForgetNothing \/ ForgetAll
           \/ Skip \/ MainFreezes \/ MainClosesActive \/ MainClosesStale \/ Repaint
           \/ Select \/ CheckKept \/ CheckVoid \/ DrawNothing \/ Draw \/ ImportFails
           \/ DrawFails \/ CloseFailedActive \/ CloseFailedStale \/ PresentShown
           \/ PresentHeld
<1>1. CASE Start \/ Name \/ OpenRefused \/ OpenBare \/ OpenDomain \/ OpenFails
          \/ OpenedAccepted \/ OpenedInVain \/ SubmitReset \/ SubmitFails \/ SubmitAccepted
          \/ Rejected \/ NoPicture \/ Acquire \/ EvictNone \/ EvictOldest \/ Exhausted
          \/ PublishQueued \/ PublishDropped \/ QueueAccepted \/ QueueRefused
          \/ FlushActive \/ StopActive \/ StopStale \/ StopNothing \/ StopCodec \/ Teardown
          \/ Stopped \/ (\E t \in Threads : Release(t))
          \/ (\E t \in Reapers : ReapPasses(t)) \/ (\E t \in Reapers : ReapFinds(t))
          \/ (\E t \in Reapers : ReapLeaves(t)) \/ (\E t \in Reapers : ReapTakes(t))
          \/ (\E t \in Reapers : ReapFree(t)) \/ (\E b \in Batches : Completed(b)) \/ Thaw
          \/ WorkerFreezes \/ WorkerClosesActive \/ Joined \/ CleanedDone \/ CleanedAgain
  <2>1. UNCHANGED render
    BY <1>1 DEF Start, Name, OpenRefused, OpenBare, OpenDomain, OpenFails, OpenedAccepted,
           OpenedInVain, SubmitReset, SubmitFails, SubmitAccepted, Rejected, NoPicture,
           Acquire, EvictNone, EvictOldest, Exhausted, PublishQueued, PublishDropped,
           QueueAccepted, QueueRefused, FlushActive, StopActive, StopStale, StopNothing,
           StopCodec, Teardown, Stopped, Release, ReapPasses, ReapFinds, ReapLeaves,
           ReapTakes, ReapFree, Completed, Thaw, WorkerFreezes, WorkerClosesActive, Joined,
           CleanedDone, CleanedAgain
  <2> QED
    BY <2>1
<1> QED
  BY <1>1 DEF Steps

\* ... the groups,
LEMMA GroupSteps ==
    ASSUME Steps
    PROVE  UNCHANGED groups \/ Collected \/ ForgetAll \/ Draw \/ DrawFails
<1>1. CASE Start \/ Name \/ OpenRefused \/ OpenBare \/ OpenDomain \/ OpenFails
          \/ OpenedAccepted \/ OpenedInVain \/ SubmitReset \/ SubmitFails \/ SubmitAccepted
          \/ Rejected \/ NoPicture \/ Acquire \/ EvictNone \/ EvictOldest \/ Exhausted
          \/ PublishQueued \/ PublishDropped \/ QueueAccepted \/ QueueRefused
          \/ FlushActive \/ StopActive \/ StopStale \/ StopNothing \/ StopCodec \/ Teardown
          \/ Stopped \/ (\E t \in Threads : Release(t))
          \/ (\E t \in Reapers : ReapPasses(t)) \/ (\E t \in Reapers : ReapFinds(t))
          \/ (\E t \in Reapers : ReapLeaves(t)) \/ (\E t \in Reapers : ReapTakes(t))
          \/ (\E t \in Reapers : ReapFree(t)) \/ (\E b \in Batches : Completed(b))
          \/ DropStale \/ KeepShown \/ ForgetNothing \/ Skip \/ MainFreezes
          \/ MainClosesActive \/ MainClosesStale \/ Repaint \/ Select \/ CheckKept
          \/ CheckVoid \/ DrawNothing \/ ImportFails \/ CloseFailedActive
          \/ CloseFailedStale \/ PresentShown \/ PresentHeld \/ Thaw \/ WorkerFreezes
          \/ WorkerClosesActive \/ Joined \/ CleanedDone \/ CleanedAgain
  <2>1. UNCHANGED groups
    BY <1>1 DEF Start, Name, OpenRefused, OpenBare, OpenDomain, OpenFails, OpenedAccepted,
           OpenedInVain, SubmitReset, SubmitFails, SubmitAccepted, Rejected, NoPicture,
           Acquire, EvictNone, EvictOldest, Exhausted, PublishQueued, PublishDropped,
           QueueAccepted, QueueRefused, FlushActive, StopActive, StopStale, StopNothing,
           StopCodec, Teardown, Stopped, Release, ReapPasses, ReapFinds, ReapLeaves,
           ReapTakes, ReapFree, Completed, DropStale, KeepShown, ForgetNothing, Skip,
           MainFreezes, MainClosesActive, MainClosesStale, Repaint, Select, CheckKept,
           CheckVoid, DrawNothing, ImportFails, CloseFailedActive, CloseFailedStale,
           PresentShown, PresentHeld, Thaw, WorkerFreezes, WorkerClosesActive, Joined,
           CleanedDone, CleanedAgain
  <2> QED
    BY <2>1
<1> QED
  BY <1>1 DEF Steps

\* ... the batches,
LEMMA BatchSteps ==
    ASSUME Steps
    PROVE  UNCHANGED batches \/ (\E b \in Batches : Completed(b)) \/ Repaint \/ Select \/ Draw
           \/ DrawFails \/ PresentShown \/ PresentHeld
<1>1. CASE Start \/ Name \/ OpenRefused \/ OpenBare \/ OpenDomain \/ OpenFails
          \/ OpenedAccepted \/ OpenedInVain \/ SubmitReset \/ SubmitFails \/ SubmitAccepted
          \/ Rejected \/ NoPicture \/ Acquire \/ EvictNone \/ EvictOldest \/ Exhausted
          \/ PublishQueued \/ PublishDropped \/ QueueAccepted \/ QueueRefused
          \/ FlushActive \/ StopActive \/ StopStale \/ StopNothing \/ StopCodec \/ Teardown
          \/ Stopped \/ (\E t \in Threads : Release(t))
          \/ (\E t \in Reapers : ReapPasses(t)) \/ (\E t \in Reapers : ReapFinds(t))
          \/ (\E t \in Reapers : ReapLeaves(t)) \/ (\E t \in Reapers : ReapTakes(t))
          \/ (\E t \in Reapers : ReapFree(t)) \/ Collected \/ DropStale \/ KeepShown
          \/ ForgetNothing \/ ForgetAll \/ Skip \/ MainFreezes \/ MainClosesActive
          \/ MainClosesStale \/ CheckKept \/ CheckVoid \/ DrawNothing \/ ImportFails
          \/ CloseFailedActive \/ CloseFailedStale \/ Thaw \/ WorkerFreezes
          \/ WorkerClosesActive \/ Joined \/ CleanedDone \/ CleanedAgain
  <2>1. UNCHANGED batches
    BY <1>1 DEF Start, Name, OpenRefused, OpenBare, OpenDomain, OpenFails, OpenedAccepted,
           OpenedInVain, SubmitReset, SubmitFails, SubmitAccepted, Rejected, NoPicture,
           Acquire, EvictNone, EvictOldest, Exhausted, PublishQueued, PublishDropped,
           QueueAccepted, QueueRefused, FlushActive, StopActive, StopStale, StopNothing,
           StopCodec, Teardown, Stopped, Release, ReapPasses, ReapFinds, ReapLeaves,
           ReapTakes, ReapFree, Collected, DropStale, KeepShown, ForgetNothing, ForgetAll,
           Skip, MainFreezes, MainClosesActive, MainClosesStale, CheckKept, CheckVoid,
           DrawNothing, ImportFails, CloseFailedActive, CloseFailedStale, Thaw, WorkerFreezes,
           WorkerClosesActive, Joined, CleanedDone, CleanedAgain
  <2> QED
    BY <2>1
<1> QED
  BY <1>1 DEF Steps

\* ... the worker,
LEMMA WorkerSteps ==
    ASSUME Steps
    PROVE  UNCHANGED worker \/ Thaw \/ WorkerFreezes \/ WorkerClosesActive \/ Joined \/ CleanedDone
<1>1. CASE Start \/ Name \/ OpenRefused \/ OpenBare \/ OpenDomain \/ OpenFails
          \/ OpenedAccepted \/ OpenedInVain \/ SubmitReset \/ SubmitFails \/ SubmitAccepted
          \/ Rejected \/ NoPicture \/ Acquire \/ EvictNone \/ EvictOldest \/ Exhausted
          \/ PublishQueued \/ PublishDropped \/ QueueAccepted \/ QueueRefused
          \/ FlushActive \/ StopActive \/ StopStale \/ StopNothing \/ StopCodec \/ Teardown
          \/ Stopped \/ (\E t \in Threads : Release(t))
          \/ (\E t \in Reapers : ReapPasses(t)) \/ (\E t \in Reapers : ReapFinds(t))
          \/ (\E t \in Reapers : ReapLeaves(t)) \/ (\E t \in Reapers : ReapTakes(t))
          \/ (\E t \in Reapers : ReapFree(t)) \/ (\E b \in Batches : Completed(b))
          \/ Collected \/ DropStale \/ KeepShown \/ ForgetNothing \/ ForgetAll \/ Skip
          \/ MainFreezes \/ MainClosesActive \/ MainClosesStale \/ Repaint \/ Select
          \/ CheckKept \/ CheckVoid \/ DrawNothing \/ Draw \/ ImportFails \/ DrawFails
          \/ CloseFailedActive \/ CloseFailedStale \/ PresentShown \/ PresentHeld
          \/ CleanedAgain
  <2>1. UNCHANGED worker
    BY <1>1 DEF Start, Name, OpenRefused, OpenBare, OpenDomain, OpenFails, OpenedAccepted,
           OpenedInVain, SubmitReset, SubmitFails, SubmitAccepted, Rejected, NoPicture,
           Acquire, EvictNone, EvictOldest, Exhausted, PublishQueued, PublishDropped,
           QueueAccepted, QueueRefused, FlushActive, StopActive, StopStale, StopNothing,
           StopCodec, Teardown, Stopped, Release, ReapPasses, ReapFinds, ReapLeaves,
           ReapTakes, ReapFree, Completed, Collected, DropStale, KeepShown, ForgetNothing,
           ForgetAll, Skip, MainFreezes, MainClosesActive, MainClosesStale, Repaint, Select,
           CheckKept, CheckVoid, DrawNothing, Draw, ImportFails, DrawFails, CloseFailedActive,
           CloseFailedStale, PresentShown, PresentHeld, CleanedAgain
  <2> QED
    BY <2>1
<1> QED
  BY <1>1 DEF Steps

\* ... what a thread has to release,
LEMMA DropSteps ==
    ASSUME Steps
    PROVE  UNCHANGED drop \/ EvictOldest \/ PublishDropped \/ FlushActive \/ StopActive
           \/ (\E t \in Threads : Release(t)) \/ MainClosesActive \/ Select
           \/ CloseFailedActive \/ WorkerClosesActive
<1>1. CASE Start \/ Name \/ OpenRefused \/ OpenBare \/ OpenDomain \/ OpenFails
          \/ OpenedAccepted \/ OpenedInVain \/ SubmitReset \/ SubmitFails \/ SubmitAccepted
          \/ Rejected \/ NoPicture \/ Acquire \/ EvictNone \/ Exhausted \/ PublishQueued
          \/ QueueAccepted \/ QueueRefused \/ StopStale \/ StopNothing \/ StopCodec
          \/ Teardown \/ Stopped \/ (\E t \in Reapers : ReapPasses(t))
          \/ (\E t \in Reapers : ReapFinds(t)) \/ (\E t \in Reapers : ReapLeaves(t))
          \/ (\E t \in Reapers : ReapTakes(t)) \/ (\E t \in Reapers : ReapFree(t))
          \/ (\E b \in Batches : Completed(b)) \/ Collected \/ DropStale \/ KeepShown
          \/ ForgetNothing \/ ForgetAll \/ Skip \/ MainFreezes \/ MainClosesStale
          \/ Repaint \/ CheckKept \/ CheckVoid \/ DrawNothing \/ Draw \/ ImportFails
          \/ DrawFails \/ CloseFailedStale \/ PresentShown \/ PresentHeld \/ Thaw
          \/ WorkerFreezes \/ Joined \/ CleanedDone \/ CleanedAgain
  <2>1. UNCHANGED drop
    BY <1>1 DEF Start, Name, OpenRefused, OpenBare, OpenDomain, OpenFails, OpenedAccepted,
           OpenedInVain, SubmitReset, SubmitFails, SubmitAccepted, Rejected, NoPicture,
           Acquire, EvictNone, Exhausted, PublishQueued, QueueAccepted, QueueRefused,
           StopStale, StopNothing, StopCodec, Teardown, Stopped, ReapPasses, ReapFinds,
           ReapLeaves, ReapTakes, ReapFree, Completed, Collected, DropStale, KeepShown,
           ForgetNothing, ForgetAll, Skip, MainFreezes, MainClosesStale, Repaint, CheckKept,
           CheckVoid, DrawNothing, Draw, ImportFails, DrawFails, CloseFailedStale,
           PresentShown, PresentHeld, Thaw, WorkerFreezes, Joined, CleanedDone, CleanedAgain
  <2> QED
    BY <2>1
<1> QED
  BY <1>1 DEF Steps

\* ... the reapers.
LEMMA ReapSteps ==
    ASSUME Steps
    PROVE  UNCHANGED reap \/ Start \/ Name \/ StopNothing \/ Teardown \/ Stopped
           \/ (\E t \in Reapers : ReapPasses(t)) \/ (\E t \in Reapers : ReapFinds(t))
           \/ (\E t \in Reapers : ReapLeaves(t)) \/ (\E t \in Reapers : ReapTakes(t))
           \/ (\E t \in Reapers : ReapFree(t)) \/ Joined \/ CleanedDone \/ CleanedAgain
<1>1. CASE OpenRefused \/ OpenBare \/ OpenDomain \/ OpenFails \/ OpenedAccepted
          \/ OpenedInVain \/ SubmitReset \/ SubmitFails \/ SubmitAccepted \/ Rejected
          \/ NoPicture \/ Acquire \/ EvictNone \/ EvictOldest \/ Exhausted \/ PublishQueued
          \/ PublishDropped \/ QueueAccepted \/ QueueRefused \/ FlushActive \/ StopActive
          \/ StopStale \/ StopCodec \/ (\E t \in Threads : Release(t))
          \/ (\E b \in Batches : Completed(b)) \/ Collected \/ DropStale \/ KeepShown
          \/ ForgetNothing \/ ForgetAll \/ Skip \/ MainFreezes \/ MainClosesActive
          \/ MainClosesStale \/ Repaint \/ Select \/ CheckKept \/ CheckVoid \/ DrawNothing
          \/ Draw \/ ImportFails \/ DrawFails \/ CloseFailedActive \/ CloseFailedStale
          \/ PresentShown \/ PresentHeld \/ Thaw \/ WorkerFreezes \/ WorkerClosesActive
  <2>1. UNCHANGED reap
    BY <1>1 DEF OpenRefused, OpenBare, OpenDomain, OpenFails, OpenedAccepted, OpenedInVain,
           SubmitReset, SubmitFails, SubmitAccepted, Rejected, NoPicture, Acquire, EvictNone,
           EvictOldest, Exhausted, PublishQueued, PublishDropped, QueueAccepted, QueueRefused,
           FlushActive, StopActive, StopStale, StopCodec, Release, Completed, Collected,
           DropStale, KeepShown, ForgetNothing, ForgetAll, Skip, MainFreezes,
           MainClosesActive, MainClosesStale, Repaint, Select, CheckKept, CheckVoid,
           DrawNothing, Draw, ImportFails, DrawFails, CloseFailedActive, CloseFailedStale,
           PresentShown, PresentHeld, Thaw, WorkerFreezes, WorkerClosesActive
  <2> QED
    BY <2>1
<1> QED
  BY <1>1 DEF Steps

-----------------------------------------------------------------------------
(* Types.                                                                  *)

\* The types of the variables one by one.
SessionPc == {"idle", "start", "open", "codec", "streaming", "failed", "decode",
              "evicted", "publish", "queue", "stop", "teardown", "stopped"}
SessionType == [pc : SessionPc, key : Keys, dom : 0 .. Domains, task : Tasks,
                lease : Frames, seq : Tasks]
RenderPc == {"collect", "current", "forget", "select", "frozen", "check", "draw",
             "failed", "redraw", "present"}
SelectionType == [task : Tasks, key : Keys, frame : Frames]
RenderType == [pc : RenderPc, sel : SelectionType, current : Frames,
               group : Groups \union {0}, closing : Keys]
JobType == [task : Tasks, seq : Tasks, placeholder : BOOLEAN]
BoxType == [frozen : BOOLEAN, cancelled : BOOLEAN, accepting : BOOLEAN, active : Keys,
            seq : Tasks, pending : Seq(Leases), image : Frames, jobs : Seq(JobType)]
DomainType == [occupied : BOOLEAN, stopped : BOOLEAN, reaping : BOOLEAN, key : Keys]
LeaseType == [refs : Nat, key : Keys, dom : 0 .. Domains, seq : Tasks, task : Tasks]
GroupType == [key : Keys, dom : 0 .. Domains, retiring : BOOLEAN]
BatchType == [state : {"free", "recording", "submitted"}, frames : SUBSET Leases,
              groups : SUBSET Groups]
ReapType == [at : 0 .. Domains + 1, stage : {"look", "maps", "free"}]

\* TypeOK, with the types by name.
LEMMA Types ==
    TypeOK <=> /\ lock \in Reapers \union {"none"} /\ box \in BoxType
               /\ dom \in [1 .. Domains -> DomainType] /\ lease \in [Leases -> LeaseType]
               /\ owed \subseteq Tasks /\ session \in SessionType /\ render \in RenderType
               /\ groups \in [Groups -> GroupType] /\ batches \in [Batches -> BatchType]
               /\ worker \in {"idle", "runs", "frozen", "join", "clean"}
               /\ drop \in [Threads -> Seq(Leases)] /\ reap \in [Reapers -> ReapType]
  BY DEF TypeOK, SessionType, SessionPc, SelectionType, RenderType, RenderPc, JobType, BoxType,
         DomainType, LeaseType, GroupType, BatchType, ReapType

\* The fields of the mailbox,
LEMMA BoxFields ==
    ASSUME TypeOK
    PROVE  /\ box.frozen \in BOOLEAN /\ box.cancelled \in BOOLEAN /\ box.accepting \in BOOLEAN
           /\ box.active \in Keys /\ box.seq \in Tasks /\ box.pending \in Seq(Leases)
           /\ box.image \in Frames /\ box.jobs \in Seq(JobType)
  BY Types DEF BoxType

\* ... of the session's thread,
LEMMA SessionFields ==
    ASSUME TypeOK
    PROVE  /\ session.pc \in SessionPc /\ session.key \in Keys /\ session.dom \in 0 .. Domains
           /\ session.task \in Tasks /\ session.lease \in Frames /\ session.seq \in Tasks
  BY Types DEF SessionType

\* ... of the main thread,
LEMMA RenderFields ==
    ASSUME TypeOK
    PROVE  /\ render.pc \in RenderPc /\ render.sel \in SelectionType
           /\ render.sel.task \in Tasks /\ render.sel.key \in Keys
           /\ render.sel.frame \in Frames /\ render.current \in Frames
           /\ render.group \in Groups \union {0} /\ render.closing \in Keys
<1>1. render \in RenderType
  BY Types
<1>2. render.sel \in SelectionType
  BY <1>1 DEF RenderType
<1>3. /\ render.sel.task \in Tasks /\ render.sel.key \in Keys /\ render.sel.frame \in Frames
  BY <1>2 DEF SelectionType
<1> QED
  BY <1>1, <1>2, <1>3 DEF RenderType

\* ... of a frame,
LEMMA LeaseFields ==
    ASSUME TypeOK, NEW l \in Leases
    PROVE  /\ lease[l] \in LeaseType
           /\ lease[l].refs \in Nat /\ lease[l].key \in Keys /\ lease[l].dom \in 0 .. Domains
           /\ lease[l].seq \in Tasks /\ lease[l].task \in Tasks
  BY Types DEF LeaseType

\* ... of a reaper.
LEMMA ReapFields ==
    ASSUME TypeOK, NEW t \in Reapers
    PROVE  /\ reap[t].at \in 0 .. Domains + 1 /\ reap[t].stage \in {"look", "maps", "free"}
  BY Types DEF ReapType

\* The bounds as numbers and sets of numbers.
LEMMA Bounds ==
    /\ Domains \in Nat /\ MaxKey \in Nat /\ MaxTask \in Nat
    /\ Leases \subseteq Nat \ {0} /\ Groups \subseteq Nat \ {0} /\ Batches \subseteq Nat \ {0}
    /\ Keys = 0 .. MaxKey /\ Tasks = 0 .. MaxTask /\ Frames = Leases \union {0}
  BY PoolsAssumption DEF Keys, Tasks, Frames

\* The frame that is drawn is one.
LEMMA TargetTyped ==
    ASSUME TypeOK, Target # 0
    PROVE  Target \in Leases
  BY RenderFields, Bounds DEF Target

\* The groups stay groups when one is imported ...
LEMMA ImportedTyped ==
    ASSUME TypeOK, NEW l \in Leases, NEW g \in Groups, NEW gs \in [Groups -> GroupType]
    PROVE  Imported(l, g, gs) \in [Groups -> GroupType]
<1>1. gs[g] \in GroupType /\ lease[l].key \in Keys /\ lease[l].dom \in 0 .. Domains
  BY LeaseFields
<1>2. [gs[g] EXCEPT !.key = lease[l].key, !.dom = lease[l].dom] \in GroupType
  BY <1>1 DEF GroupType
<1>3. Imported(l, g, gs) = [gs EXCEPT ![g] = [gs[g] EXCEPT !.key = lease[l].key,
                                                         !.dom = lease[l].dom]]
  BY <1>1 DEF Imported, GroupType
<1> QED
  BY <1>2, <1>3

\* ... and when others retire.
LEMMA RetiredTyped ==
    ASSUME TypeOK, NEW g
    PROVE  Retired(g) \in [Groups -> GroupType]
<1>1. ASSUME NEW k \in Groups
      PROVE  groups[k] \in GroupType /\ [groups[k] EXCEPT !.retiring = TRUE] \in GroupType
  <2>1. groups[k] \in GroupType
    BY Types
  <2> QED
    BY <2>1 DEF GroupType
<1> QED
  BY <1>1 DEF Retired

\* The session's thread.
LEMMA SessionTyped ==
    ASSUME TypeOK, EpochInv, ThreadsInv, Steps
    PROVE  session' \in SessionType
<1>1. CASE Start
  BY <1>1, Types, SessionFields, BoxFields, Bounds
     DEF Start, SessionType, SessionPc, EpochInv, FreeDomains, Available, IsCurrent
<1>2. CASE Name
  <2>1. session' = [session EXCEPT !.pc = "open", !.key = session.key + 1]
    BY <1>2 DEF Name
  <2>2. session.key + 1 \in Keys
    BY <1>2, SessionFields, BoxFields, Bounds DEF Name, EpochInv
  <2>3. session \in SessionType
    BY Types
  <2> QED
    BY <2>1, <2>2, <2>3 DEF SessionType, SessionPc
<1>3. CASE OpenRefused
  BY <1>3, Types, SessionFields, BoxFields, Bounds
     DEF OpenRefused, SessionType, SessionPc, EpochInv, FreeDomains, Available, IsCurrent
<1>4. CASE OpenBare
  BY <1>4, Types, SessionFields, BoxFields, Bounds
     DEF OpenBare, SessionType, SessionPc, EpochInv, FreeDomains, Available, IsCurrent
<1>5. CASE OpenDomain
  <2>1. PICK d \in 1 .. Domains : session' = [session EXCEPT !.pc = "codec", !.dom = d]
    BY <1>5 DEF OpenDomain, FreeDomains
  <2>2. session \in SessionType /\ 0 .. Domains = {0} \union 1 .. Domains /\ 0 \in Tasks
    BY Types, Bounds
  <2> QED
    BY <2>1, <2>2 DEF SessionType, SessionPc
<1>6. CASE OpenFails
  <2>1. PICK pc \in {"idle", "streaming"} : session' = [session EXCEPT !.pc = pc, !.dom = 0]
    BY <1>6 DEF OpenFails
  <2>2. session \in SessionType /\ 0 .. Domains = {0} \union 1 .. Domains /\ 0 \in Tasks
    BY Types, Bounds
  <2> QED
    BY <2>1, <2>2 DEF SessionType, SessionPc
<1>7. CASE OpenedAccepted
  <2>1. session' = [session EXCEPT !.pc = "streaming", !.dom = 0]
    BY <1>7 DEF OpenedAccepted
  <2>2. 0 \in 0 .. Domains
    BY <1>7, Bounds DEF OpenedAccepted
  <2>3. session \in SessionType
    BY Types
  <2> QED
    BY <2>1, <2>2, <2>3 DEF SessionType, SessionPc
<1>8. CASE OpenedInVain
  <2>1. session' = [session EXCEPT !.pc = "idle", !.dom = 0]
    BY <1>8 DEF OpenedInVain
  <2>2. 0 \in 0 .. Domains
    BY <1>8, Bounds DEF OpenedInVain
  <2>3. session \in SessionType
    BY Types
  <2> QED
    BY <2>1, <2>2, <2>3 DEF SessionType, SessionPc
<1>9. CASE SubmitReset
  <2>1. session' = [session EXCEPT !.task = session.task + 1]
    BY <1>9 DEF SubmitReset
  <2>2. session.task + 1 \in Tasks
    BY <1>9, SessionFields, BoxFields, Bounds DEF SubmitReset
  <2>3. session \in SessionType
    BY Types
  <2> QED
    BY <2>1, <2>2, <2>3 DEF SessionType, SessionPc
<1>10. CASE SubmitFails
  BY <1>10, Types, SessionFields, BoxFields, Bounds
     DEF SubmitFails, SessionType, SessionPc, EpochInv, FreeDomains, Available, IsCurrent
<1>11. CASE SubmitAccepted
  <2>1. session' = [session EXCEPT !.pc = "decode", !.task = session.task + 1]
    BY <1>11 DEF SubmitAccepted
  <2>2. session.task + 1 \in Tasks
    BY <1>11, SessionFields, BoxFields, Bounds DEF SubmitAccepted
  <2>3. session \in SessionType
    BY Types
  <2> QED
    BY <2>1, <2>2, <2>3 DEF SessionType, SessionPc
<1>12. CASE Rejected
  BY <1>12, Types, SessionFields, BoxFields, Bounds
     DEF Rejected, SessionType, SessionPc, EpochInv, FreeDomains, Available, IsCurrent
<1>13. CASE NoPicture
  BY <1>13, Types, SessionFields, BoxFields, Bounds
     DEF NoPicture, SessionType, SessionPc, EpochInv, FreeDomains, Available, IsCurrent
<1>14. CASE Acquire
  BY <1>14, Types, SessionFields, BoxFields, Bounds
     DEF Acquire, SessionType, SessionPc, EpochInv, FreeDomains, Available, IsCurrent
<1>15. CASE EvictNone
  BY <1>15, Types, SessionFields, BoxFields, Bounds
     DEF EvictNone, SessionType, SessionPc, EpochInv, FreeDomains, Available, IsCurrent
<1>16. CASE EvictOldest
  BY <1>16, Types, SessionFields, BoxFields, Bounds
     DEF EvictOldest, SessionType, SessionPc, EpochInv, FreeDomains, Available, IsCurrent
<1>17. CASE Exhausted
  BY <1>17, Types, SessionFields, BoxFields, Bounds
     DEF Exhausted, SessionType, SessionPc, EpochInv, FreeDomains, Available, IsCurrent
<1>18. CASE PublishQueued
  <2>1. session' = [session EXCEPT !.pc = "queue", !.lease = 0, !.seq = box.seq + 1]
    BY <1>18 DEF PublishQueued
  <2>2. box.seq < session.task
    BY <1>18 DEF PublishQueued, EpochInv
  <2>3. box.seq + 1 \in Tasks /\ 0 \in Frames
    BY <2>2, SessionFields, BoxFields, Bounds
  <2>4. session \in SessionType
    BY Types
  <2> QED
    BY <2>1, <2>3, <2>4 DEF SessionType, SessionPc
<1>19. CASE PublishDropped
  BY <1>19, Types, SessionFields, BoxFields, Bounds
     DEF PublishDropped, SessionType, SessionPc, EpochInv, FreeDomains, Available, IsCurrent
<1>20. CASE QueueAccepted
  <2>1. session' = [session EXCEPT !.pc = "streaming", !.seq = 0]
    BY <1>20 DEF QueueAccepted
  <2>2. 0 \in Tasks
    BY <1>20, Bounds DEF QueueAccepted
  <2>3. session \in SessionType
    BY Types
  <2> QED
    BY <2>1, <2>2, <2>3 DEF SessionType, SessionPc
<1>21. CASE QueueRefused
  <2>1. PICK pc \in {"streaming", "failed"} : session' = [session EXCEPT !.pc = pc, !.seq = 0]
    BY <1>21 DEF QueueRefused
  <2>2. session \in SessionType /\ 0 .. Domains = {0} \union 1 .. Domains /\ 0 \in Tasks
    BY Types, Bounds
  <2> QED
    BY <2>1, <2>2 DEF SessionType, SessionPc
<1>22. CASE StopActive
  BY <1>22, Types, SessionFields, BoxFields, Bounds
     DEF StopActive, SessionType, SessionPc, EpochInv, FreeDomains, Available, IsCurrent
<1>23. CASE StopStale
  BY <1>23, Types, SessionFields, BoxFields, Bounds
     DEF StopStale, SessionType, SessionPc, EpochInv, FreeDomains, Available, IsCurrent
<1>24. CASE StopNothing
  BY <1>24, Types, SessionFields, BoxFields, Bounds
     DEF StopNothing, SessionType, SessionPc, EpochInv, FreeDomains, Available, IsCurrent
<1>25. CASE StopCodec
  BY <1>25, Types, SessionFields, BoxFields, Bounds
     DEF StopCodec, SessionType, SessionPc, EpochInv, FreeDomains, Available, IsCurrent
<1>26. CASE Teardown
  BY <1>26, Types, SessionFields, BoxFields, Bounds
     DEF Teardown, SessionType, SessionPc, EpochInv, FreeDomains, Available, IsCurrent
<1>27. CASE Stopped
  BY <1>27, Types, SessionFields, BoxFields, Bounds
     DEF Stopped, SessionType, SessionPc, EpochInv, FreeDomains, Available, IsCurrent
<1>28. CASE UNCHANGED session
  BY <1>28, Types
<1> QED
  BY <1>1, <1>2, <1>3, <1>4, <1>5, <1>6, <1>7, <1>8, <1>9, <1>10, <1>11, <1>12, <1>13, <1>14,
     <1>15, <1>16, <1>17, <1>18, <1>19, <1>20, <1>21, <1>22, <1>23, <1>24, <1>25, <1>26,
     <1>27, <1>28, SessionSteps

\* The decoder lock.
LEMMA LockTyped ==
    ASSUME TypeOK, EpochInv, ThreadsInv, Steps
    PROVE  lock' \in Reapers \union {"none"}
<1>1. CASE OpenDomain
  BY <1>1, Types
     DEF OpenDomain, Reapers
<1>2. CASE OpenFails
  BY <1>2, Types
     DEF OpenFails, Reapers
<1>3. CASE OpenedAccepted
  BY <1>3, Types
     DEF OpenedAccepted, Reapers
<1>4. CASE OpenedInVain
  BY <1>4, Types
     DEF OpenedInVain, Reapers
<1>5. CASE SubmitAccepted
  BY <1>5, Types
     DEF SubmitAccepted, Reapers
<1>6. CASE Rejected
  BY <1>6, Types
     DEF Rejected, Reapers
<1>7. CASE Exhausted
  BY <1>7, Types
     DEF Exhausted, Reapers
<1>8. CASE QueueAccepted
  BY <1>8, Types
     DEF QueueAccepted, Reapers
<1>9. CASE QueueRefused
  BY <1>9, Types
     DEF QueueRefused, Reapers
<1>10. CASE (\E t \in Reapers : ReapFinds(t))
  BY <1>10, Types
     DEF ReapFinds, Reapers
<1>11. CASE (\E t \in Reapers : ReapLeaves(t))
  BY <1>11, Types
     DEF ReapLeaves, Reapers
<1>12. CASE (\E t \in Reapers : ReapTakes(t))
  BY <1>12, Types
     DEF ReapTakes, Reapers
<1>13. CASE UNCHANGED lock
  BY <1>13, Types
<1> QED
  BY <1>1, <1>2, <1>3, <1>4, <1>5, <1>6, <1>7, <1>8, <1>9, <1>10, <1>11, <1>12, <1>13,
     LockSteps

\* The worker.
LEMMA WorkerTyped ==
    ASSUME TypeOK, EpochInv, ThreadsInv, Steps
    PROVE  worker' \in {"idle", "runs", "frozen", "join", "clean"}
<1>1. CASE Thaw
  BY <1>1, Types
     DEF Thaw
<1>2. CASE WorkerFreezes
  BY <1>2, Types
     DEF WorkerFreezes
<1>3. CASE WorkerClosesActive
  BY <1>3, Types
     DEF WorkerClosesActive
<1>4. CASE Joined
  BY <1>4, Types
     DEF Joined
<1>5. CASE CleanedDone
  BY <1>5, Types
     DEF CleanedDone
<1>6. CASE UNCHANGED worker
  BY <1>6, Types
<1> QED
  BY <1>1, <1>2, <1>3, <1>4, <1>5, <1>6, WorkerSteps

\* The reapers.
LEMMA ReapTyped ==
    ASSUME TypeOK, EpochInv, ThreadsInv, Steps
    PROVE  reap' \in [Reapers -> ReapType]
<1>1. CASE Start
  BY <1>1, Types, ReapFields, Bounds
     DEF Start, ReapType, Reapers
<1>2. CASE Name
  BY <1>2, Types, ReapFields, Bounds
     DEF Name, ReapType, Reapers
<1>3. CASE StopNothing
  BY <1>3, Types, ReapFields, Bounds
     DEF StopNothing, ReapType, Reapers
<1>4. CASE Teardown
  BY <1>4, Types, ReapFields, Bounds
     DEF Teardown, ReapType, Reapers
<1>5. CASE Stopped
  BY <1>5, Types, ReapFields, Bounds
     DEF Stopped, ReapType, Reapers
<1>6. CASE (\E t \in Reapers : ReapPasses(t))
  BY <1>6, Types, ReapFields, Bounds
     DEF ReapPasses, ReapType, Reapers
<1>7. CASE (\E t \in Reapers : ReapFinds(t))
  BY <1>7, Types, ReapFields, Bounds
     DEF ReapFinds, ReapType, Reapers
<1>8. CASE (\E t \in Reapers : ReapLeaves(t))
  BY <1>8, Types, ReapFields, Bounds
     DEF ReapLeaves, ReapType, Reapers
<1>9. CASE (\E t \in Reapers : ReapTakes(t))
  BY <1>9, Types, ReapFields, Bounds
     DEF ReapTakes, ReapType, Reapers
<1>10. CASE (\E t \in Reapers : ReapFree(t))
  BY <1>10, Types, ReapFields, Bounds
     DEF ReapFree, ReapType, Reapers
<1>11. CASE Joined
  BY <1>11, Types, ReapFields, Bounds
     DEF Joined, ReapType, Reapers
<1>12. CASE CleanedDone
  BY <1>12, Types, ReapFields, Bounds
     DEF CleanedDone, ReapType, Reapers
<1>13. CASE CleanedAgain
  BY <1>13, Types, ReapFields, Bounds
     DEF CleanedAgain, ReapType, Reapers
<1>14. CASE UNCHANGED reap
  BY <1>14, Types
<1> QED
  BY <1>1, <1>2, <1>3, <1>4, <1>5, <1>6, <1>7, <1>8, <1>9, <1>10, <1>11, <1>12, <1>13, <1>14,
     ReapSteps

\* The tickets that are owed.
LEMMA OwedTyped ==
    ASSUME TypeOK, EpochInv, ThreadsInv, Steps
    PROVE  owed' \subseteq Tasks
<1>1. CASE SubmitAccepted
  BY <1>1, Types, SessionFields, Bounds
     DEF SubmitAccepted
<1>2. CASE Rejected
  BY <1>2, Types, SessionFields, Bounds
     DEF Rejected
<1>3. CASE NoPicture
  BY <1>3, Types, SessionFields, Bounds
     DEF NoPicture
<1>4. CASE Exhausted
  BY <1>4, Types, SessionFields, Bounds
     DEF Exhausted
<1>5. CASE QueueRefused
  BY <1>5, Types, SessionFields, Bounds
     DEF QueueRefused
<1>6. CASE FlushActive
  BY <1>6, Types, SessionFields, Bounds
     DEF FlushActive
<1>7. CASE StopActive
  BY <1>7, Types, SessionFields, Bounds
     DEF StopActive
<1>8. CASE MainClosesActive
  BY <1>8, Types, SessionFields, Bounds
     DEF MainClosesActive
<1>9. CASE Select
  BY <1>9, Types, SessionFields, Bounds
     DEF Select
<1>10. CASE CheckVoid
  BY <1>10, Types, SessionFields, Bounds
     DEF CheckVoid
<1>11. CASE CloseFailedActive
  BY <1>11, Types, SessionFields, Bounds
     DEF CloseFailedActive
<1>12. CASE PresentShown
  BY <1>12, Types, SessionFields, Bounds
     DEF PresentShown
<1>13. CASE PresentHeld
  BY <1>13, Types, SessionFields, Bounds
     DEF PresentHeld
<1>14. CASE WorkerClosesActive
  BY <1>14, Types, SessionFields, Bounds
     DEF WorkerClosesActive
<1>15. CASE UNCHANGED owed
  BY <1>15, Types
<1> QED
  BY <1>1, <1>2, <1>3, <1>4, <1>5, <1>6, <1>7, <1>8, <1>9, <1>10, <1>11, <1>12, <1>13, <1>14,
     <1>15, OwedSteps

\* The domains.
LEMMA DomainsTyped ==
    ASSUME TypeOK, EpochInv, ThreadsInv, Steps
    PROVE  dom' \in [1 .. Domains -> DomainType]
<1>1. CASE OpenedAccepted
  BY <1>1, Types, SessionFields, Bounds
     DEF OpenedAccepted, DomainType, FreeDomain
<1>2. CASE OpenedInVain
  BY <1>2, Types, SessionFields, Bounds
     DEF OpenedInVain, DomainType, FreeDomain
<1>3. CASE StopCodec
  <2>1. PICK D \in SUBSET (1 .. Domains) :
           dom' = [d \in 1 .. Domains |->
                     IF d \in D THEN [dom[d] EXCEPT !.stopped = TRUE, !.reaping = TRUE]
                     ELSE dom[d]]
    BY <1>3 DEF StopCodec
  <2>2. ASSUME NEW d \in 1 .. Domains
        PROVE  dom'[d] \in DomainType
    <3>1. dom[d] \in DomainType
      BY Types
    <3> QED
      BY <2>1, <3>1 DEF DomainType
  <2> QED
    BY <2>1, <2>2
<1>4. CASE Teardown
  <2>1. PICK D \in SUBSET (1 .. Domains) :
           dom' = [d \in 1 .. Domains |->
                     IF d \in D THEN [dom[d] EXCEPT !.reaping = FALSE] ELSE dom[d]]
    BY <1>4 DEF Teardown, DomainOf
  <2>2. ASSUME NEW d \in 1 .. Domains
        PROVE  dom'[d] \in DomainType
    <3>1. dom[d] \in DomainType
      BY Types
    <3> QED
      BY <2>1, <3>1 DEF DomainType
  <2> QED
    BY <2>1, <2>2
<1>5. CASE (\E t \in Reapers : ReapTakes(t))
  <2>1. PICK t \in Reapers : /\ reap[t].at \in 1 .. Domains
                             /\ dom' = [dom EXCEPT ![reap[t].at].reaping = TRUE]
    BY <1>5 DEF ReapTakes
  <2>2. dom \in [1 .. Domains -> DomainType]
    BY Types
  <2>3. dom[reap[t].at] \in DomainType
    BY <2>1, <2>2
  <2>4. [dom[reap[t].at] EXCEPT !.reaping = TRUE] \in DomainType
    BY <2>3 DEF DomainType
  <2> QED
    BY <2>1, <2>2, <2>4
<1>6. CASE (\E t \in Reapers : ReapFree(t))
  BY <1>6, Types, SessionFields, Bounds
     DEF ReapFree, DomainType, FreeDomain
<1>7. CASE UNCHANGED dom
  BY <1>7, Types
<1> QED
  BY <1>1, <1>2, <1>3, <1>4, <1>5, <1>6, <1>7, DomainSteps

\* The groups.
LEMMA GroupsTyped ==
    ASSUME TypeOK, EpochInv, ThreadsInv, Steps
    PROVE  groups' \in [Groups -> GroupType]
<1>1. CASE Collected
  BY <1>1, Types, Bounds
     DEF Collected, GroupType, FreeGroup, Retired
<1>2. CASE ForgetAll
  BY <1>2, Types, Bounds
     DEF ForgetAll, GroupType, FreeGroup, Retired
<1>3. CASE Draw
  <2>1. PICK g \in Groups : groups' = Imported(Target, g, Retired(g))
    BY <1>3 DEF Draw, GroupsFor
  <2> QED
    BY <1>3, <2>1, TargetTyped, RetiredTyped, ImportedTyped DEF Draw
<1>4. CASE DrawFails
  <2>1. PICK g \in Groups :
           groups' = IF g = render.group THEN Imported(Target, g, groups)
                     ELSE [Imported(Target, g, groups) EXCEPT ![g].retiring = TRUE]
    BY <1>4 DEF DrawFails, GroupsFor
  <2>2. Imported(Target, g, groups) \in [Groups -> GroupType]
    BY <1>4, TargetTyped, ImportedTyped, Types DEF DrawFails
  <2>3. Imported(Target, g, groups)[g] \in GroupType
    BY <2>2
  <2>4. [Imported(Target, g, groups)[g] EXCEPT !.retiring = TRUE] \in GroupType
    BY <2>3 DEF GroupType
  <2> QED
    BY <2>1, <2>2, <2>4
<1>5. CASE UNCHANGED groups
  BY <1>5, Types
<1> QED
  BY <1>1, <1>2, <1>3, <1>4, <1>5, GroupSteps

-----------------------------------------------------------------------------
(* The selection.                                                          *)

\* The frame that is chosen.
Chosen(n, k) == IF OwnPicture(box.jobs[n], k) THEN box.pending[k] ELSE 0
PassedBy(n, k) == IF OwnPicture(box.jobs[n], k) THEN k - 1 ELSE k

\* One selection: a task, and how far the pending frames are passed.
Selects(n, k) ==
    /\ render.pc = "select" /\ drop["main"] = <<>> /\ box.accepting
    /\ Passed(box.jobs[n], k)
    /\ \E b \in FreeBatches : batches' = [batches EXCEPT ![b].state = "recording"]
    /\ box' = [box EXCEPT !.jobs = SubSeq(@, n + 1, Len(@)), !.image = Chosen(n, k),
                          !.pending = SubSeq(@, k + 1, Len(@))]
    /\ owed' = owed \ Late(n, OwnPicture(box.jobs[n], k))
    /\ drop' = [drop EXCEPT !["main"] = SubSeq(box.pending, 1, PassedBy(n, k)) \o Shown]
    /\ lease' = Retained(lease, {Chosen(n, k)})
    /\ render' = [render EXCEPT !.pc = "check",
                   !.sel = [task |-> box.jobs[n].task, key |-> box.active, frame |-> Chosen(n, k)]]
    /\ UNCHANGED <<lock, dom, session, groups, worker, reap>>

\* Select, with its choice made.
LEMMA SelectParts ==
    ASSUME Select
    PROVE  \E n \in 1 .. Len(box.jobs), k \in 0 .. Len(box.pending) : Selects(n, k)
  BY DEF Select, Selects, Begin, Chosen, PassedBy

\* The chosen frame is pending, and so are those passed before it.
LEMMA ChosenTyped ==
    ASSUME TypeOK, NEW n \in 1 .. Len(box.jobs), NEW k \in 0 .. Len(box.pending)
    PROVE  /\ Chosen(n, k) \in Frames
           /\ OwnPicture(box.jobs[n], k) => k \in 1 .. Len(box.pending) /\ Chosen(n, k) \in Leases
           /\ PassedBy(n, k) \in 0 .. Len(box.pending)
           /\ box.jobs[n] \in JobType /\ box.jobs[n].task \in Tasks
<1>1. box.jobs[n] \in JobType
  BY BoxFields
<1>2. box.jobs[n].task \in Tasks
  BY <1>1 DEF JobType
<1>3. Len(box.pending) \in Nat /\ \A i \in 1 .. Len(box.pending) : box.pending[i] \in Leases
  BY BoxFields
<1>4. ASSUME OwnPicture(box.jobs[n], k)
      PROVE  k \in 1 .. Len(box.pending) /\ Chosen(n, k) \in Leases
  BY <1>3, <1>4 DEF OwnPicture, Chosen
<1> QED
  BY <1>1, <1>2, <1>3, <1>4, Bounds DEF Chosen, PassedBy

\* The mailbox.
LEMMA BoxTyped ==
    ASSUME TypeOK, EpochInv, ThreadsInv, Steps
    PROVE  box' \in BoxType
<1>1. CASE OpenBare
  <2>1. box' = [box EXCEPT !.active = session.key, !.cancelled = FALSE, !.seq = 0]
    BY <1>1 DEF OpenBare
  <2>2. session.key \in Keys /\ 0 \in Tasks
    BY SessionFields, Bounds
  <2>3. box \in BoxType
    BY Types
  <2> QED
    BY <2>1, <2>2, <2>3 DEF BoxType
<1>2. CASE OpenDomain
  <2>1. box' = [box EXCEPT !.active = session.key, !.cancelled = FALSE, !.seq = 0]
    BY <1>2 DEF OpenDomain
  <2>2. session.key \in Keys /\ 0 \in Tasks
    BY SessionFields, Bounds
  <2>3. box \in BoxType
    BY Types
  <2> QED
    BY <2>1, <2>2, <2>3 DEF BoxType
<1>3. CASE OpenedAccepted
  <2>1. box' = [box EXCEPT !.accepting = TRUE]
    BY <1>3 DEF OpenedAccepted
  <2>3. box \in BoxType
    BY Types
  <2> QED
    BY <2>1, <2>3 DEF BoxType
<1>4. CASE OpenedInVain
  <2>1. box' = [box EXCEPT !.accepting = FALSE]
    BY <1>4 DEF OpenedInVain
  <2>3. box \in BoxType
    BY Types
  <2> QED
    BY <2>1, <2>3 DEF BoxType
<1>5. CASE EvictOldest
  <2>1. box' = [box EXCEPT !.pending = Tail(box.pending)]
    BY <1>5 DEF EvictOldest
  <2>2. Tail(box.pending) \in Seq(Leases)
    BY <1>5, BoxFields DEF EvictOldest
  <2>3. box \in BoxType
    BY Types
  <2> QED
    BY <2>1, <2>2, <2>3 DEF BoxType
<1>6. CASE PublishQueued
  <2>1. box' = [box EXCEPT !.seq = box.seq + 1, !.pending = Append(box.pending, session.lease)]
    BY <1>6 DEF PublishQueued
  <2>2. box.seq < session.task /\ session.lease \in Leases
    BY <1>6, SessionFields, Bounds DEF PublishQueued, EpochInv, ThreadsInv
  <2>3. box.seq + 1 \in Tasks
    <3>1. box.seq \in Tasks /\ session.task \in Tasks
      BY SessionFields, BoxFields
    <3> QED
      BY <2>2, <3>1, Bounds
  <2>4. Append(box.pending, session.lease) \in Seq(Leases)
    BY <2>2, BoxFields
  <2>5. box \in BoxType
    BY Types
  <2> QED
    BY <2>1, <2>3, <2>4, <2>5 DEF BoxType
<1>7. CASE QueueAccepted
  <2> DEFINE job == Task(session.task, IF session.seq = 0 THEN box.seq ELSE session.seq,
                         session.seq = 0)
  <2>1. box' = [box EXCEPT !.jobs = Append(box.jobs, job)]
    BY <1>7 DEF QueueAccepted
  <2>2. job \in JobType
    BY SessionFields, BoxFields DEF Task, JobType
  <2> HIDE DEF job
  <2>3. Append(box.jobs, job) \in Seq(JobType)
    BY <2>2, BoxFields
  <2>4. box \in BoxType
    BY Types
  <2> QED
    BY <2>1, <2>3, <2>4 DEF BoxType
<1>8. CASE FlushActive
  <2>1. box' = [box EXCEPT !.cancelled = TRUE, !.accepting = FALSE,
                            !.pending = <<>>, !.jobs = <<>>, !.image = 0]
    BY <1>8 DEF FlushActive
  <2>2. <<>> \in Seq(Leases) /\ <<>> \in Seq(JobType) /\ 0 \in Frames
    BY Bounds
  <2>3. box \in BoxType
    BY Types
  <2> QED
    BY <2>1, <2>2, <2>3 DEF BoxType
<1>9. CASE StopActive
  <2>1. box' = [box EXCEPT !.cancelled = TRUE, !.accepting = FALSE,
                            !.pending = <<>>, !.jobs = <<>>, !.image = 0]
    BY <1>9 DEF StopActive
  <2>2. <<>> \in Seq(Leases) /\ <<>> \in Seq(JobType) /\ 0 \in Frames
    BY Bounds
  <2>3. box \in BoxType
    BY Types
  <2> QED
    BY <2>1, <2>2, <2>3 DEF BoxType
<1>10. CASE MainFreezes
  <2>1. box' = [box EXCEPT !.frozen = TRUE, !.cancelled = TRUE, !.accepting = FALSE]
    BY <1>10 DEF MainFreezes
  <2>3. box \in BoxType
    BY Types
  <2> QED
    BY <2>1, <2>3 DEF BoxType
<1>11. CASE MainClosesActive
  <2>1. box' = [box EXCEPT !.cancelled = TRUE, !.accepting = FALSE,
                            !.pending = <<>>, !.jobs = <<>>, !.image = 0]
    BY <1>11 DEF MainClosesActive
  <2>2. <<>> \in Seq(Leases) /\ <<>> \in Seq(JobType) /\ 0 \in Frames
    BY Bounds
  <2>3. box \in BoxType
    BY Types
  <2> QED
    BY <2>1, <2>2, <2>3 DEF BoxType
<1>12. CASE Select
  <2>1. PICK n \in 1 .. Len(box.jobs), k \in 0 .. Len(box.pending) :
           box' = [box EXCEPT !.jobs = SubSeq(box.jobs, n + 1, Len(box.jobs)),
                              !.image = Chosen(n, k),
                              !.pending = SubSeq(box.pending, k + 1, Len(box.pending))]
    BY <1>12, SelectParts DEF Selects
  <2>2. SubSeq(box.jobs, n + 1, Len(box.jobs)) \in Seq(JobType)
    BY BoxFields
  <2>3. SubSeq(box.pending, k + 1, Len(box.pending)) \in Seq(Leases)
    BY BoxFields
  <2>4. Chosen(n, k) \in Frames
    BY ChosenTyped
  <2>5. box \in BoxType
    BY Types
  <2> QED
    BY <2>1, <2>2, <2>3, <2>4, <2>5 DEF BoxType
<1>13. CASE CloseFailedActive
  <2>1. box' = [box EXCEPT !.cancelled = TRUE, !.accepting = FALSE,
                            !.pending = <<>>, !.jobs = <<>>, !.image = 0]
    BY <1>13 DEF CloseFailedActive
  <2>2. <<>> \in Seq(Leases) /\ <<>> \in Seq(JobType) /\ 0 \in Frames
    BY Bounds
  <2>3. box \in BoxType
    BY Types
  <2> QED
    BY <2>1, <2>2, <2>3 DEF BoxType
<1>14. CASE Thaw
  <2>1. box' = [box EXCEPT !.frozen = FALSE]
    BY <1>14 DEF Thaw
  <2>3. box \in BoxType
    BY Types
  <2> QED
    BY <2>1, <2>3 DEF BoxType
<1>15. CASE WorkerFreezes
  <2>1. box' = [box EXCEPT !.frozen = TRUE, !.cancelled = TRUE, !.accepting = FALSE]
    BY <1>15 DEF WorkerFreezes
  <2>3. box \in BoxType
    BY Types
  <2> QED
    BY <2>1, <2>3 DEF BoxType
<1>16. CASE WorkerClosesActive
  <2>1. box' = [box EXCEPT !.cancelled = TRUE, !.accepting = FALSE,
                            !.pending = <<>>, !.jobs = <<>>, !.image = 0]
    BY <1>16 DEF WorkerClosesActive
  <2>2. <<>> \in Seq(Leases) /\ <<>> \in Seq(JobType) /\ 0 \in Frames
    BY Bounds
  <2>3. box \in BoxType
    BY Types
  <2> QED
    BY <2>1, <2>2, <2>3 DEF BoxType
<1>17. CASE UNCHANGED box
  BY <1>17, Types
<1> QED
  BY <1>1, <1>2, <1>3, <1>4, <1>5, <1>6, <1>7, <1>8, <1>9, <1>10, <1>11, <1>12, <1>13, <1>14,
     <1>15, <1>16, <1>17, BoxSteps

\* The main thread.
LEMMA RenderTyped ==
    ASSUME TypeOK, EpochInv, ThreadsInv, Steps
    PROVE  render' \in RenderType
<1>1. CASE Collected
  <2>1. render' = [render EXCEPT !.pc = "current"]
    BY <1>1 DEF Collected
  <2>3. render \in RenderType
    BY Types
  <2> QED
    BY <2>1, <2>3 DEF RenderType, RenderPc
<1>2. CASE DropStale
  <2>1. render' = [render EXCEPT !.pc = "forget", !.current = 0]
    BY <1>2 DEF DropStale
  <2>2. NoSelection \in SelectionType
    BY Bounds DEF NoSelection, SelectionType
  <2>3. 0 \in Frames /\ 0 \in Keys /\ render.sel.frame \in Frames /\ box.active \in Keys
    BY Bounds, RenderFields, BoxFields
  <2>4. render \in RenderType
    BY Types
  <2> QED
    BY <2>1, <2>2, <2>3, <2>4 DEF RenderType, RenderPc
<1>3. CASE KeepShown
  <2>1. render' = [render EXCEPT !.pc = "forget"]
    BY <1>3 DEF KeepShown
  <2>3. render \in RenderType
    BY Types
  <2> QED
    BY <2>1, <2>3 DEF RenderType, RenderPc
<1>4. CASE ForgetNothing
  <2>1. render' = [render EXCEPT !.pc = "select"]
    BY <1>4 DEF ForgetNothing
  <2>3. render \in RenderType
    BY Types
  <2> QED
    BY <2>1, <2>3 DEF RenderType, RenderPc
<1>5. CASE ForgetAll
  <2>1. render' = [render EXCEPT !.pc = "select", !.group = 0]
    BY <1>5 DEF ForgetAll
  <2>2. NoSelection \in SelectionType
    BY Bounds DEF NoSelection, SelectionType
  <2>3. 0 \in Frames /\ 0 \in Keys /\ render.sel.frame \in Frames /\ box.active \in Keys
    BY Bounds, RenderFields, BoxFields
  <2>4. render \in RenderType
    BY Types
  <2> QED
    BY <2>1, <2>2, <2>3, <2>4 DEF RenderType, RenderPc
<1>6. CASE Skip
  <2>1. render' = [render EXCEPT !.pc = "collect"]
    BY <1>6 DEF Skip
  <2>3. render \in RenderType
    BY Types
  <2> QED
    BY <2>1, <2>3 DEF RenderType, RenderPc
<1>7. CASE MainFreezes
  <2>1. render' = [render EXCEPT !.pc = "frozen", !.closing = box.active]
    BY <1>7 DEF MainFreezes
  <2>2. NoSelection \in SelectionType
    BY Bounds DEF NoSelection, SelectionType
  <2>3. 0 \in Frames /\ 0 \in Keys /\ render.sel.frame \in Frames /\ box.active \in Keys
    BY Bounds, RenderFields, BoxFields
  <2>4. render \in RenderType
    BY Types
  <2> QED
    BY <2>1, <2>2, <2>3, <2>4 DEF RenderType, RenderPc
<1>8. CASE MainClosesActive
  <2>1. render' = [render EXCEPT !.pc = "collect", !.closing = 0]
    BY <1>8 DEF MainClosesActive
  <2>2. NoSelection \in SelectionType
    BY Bounds DEF NoSelection, SelectionType
  <2>3. 0 \in Frames /\ 0 \in Keys /\ render.sel.frame \in Frames /\ box.active \in Keys
    BY Bounds, RenderFields, BoxFields
  <2>4. render \in RenderType
    BY Types
  <2> QED
    BY <2>1, <2>2, <2>3, <2>4 DEF RenderType, RenderPc
<1>9. CASE MainClosesStale
  <2>1. render' = [render EXCEPT !.pc = "collect", !.closing = 0]
    BY <1>9 DEF MainClosesStale
  <2>2. NoSelection \in SelectionType
    BY Bounds DEF NoSelection, SelectionType
  <2>3. 0 \in Frames /\ 0 \in Keys /\ render.sel.frame \in Frames /\ box.active \in Keys
    BY Bounds, RenderFields, BoxFields
  <2>4. render \in RenderType
    BY Types
  <2> QED
    BY <2>1, <2>2, <2>3, <2>4 DEF RenderType, RenderPc
<1>10. CASE Repaint
  <2>1. render' = [render EXCEPT !.pc = "draw"]
    BY <1>10 DEF Repaint
  <2>3. render \in RenderType
    BY Types
  <2> QED
    BY <2>1, <2>3 DEF RenderType, RenderPc
<1>11. CASE Select
  <2>1. PICK n \in 1 .. Len(box.jobs), k \in 0 .. Len(box.pending) :
           render' = [render EXCEPT !.pc = "check", !.sel = [task |-> box.jobs[n].task,
                                    key |-> box.active, frame |-> Chosen(n, k)]]
    BY <1>11, SelectParts DEF Selects
  <2>2. [task |-> box.jobs[n].task, key |-> box.active, frame |-> Chosen(n, k)] \in SelectionType
    BY ChosenTyped, BoxFields DEF SelectionType
  <2>3. render \in RenderType
    BY Types
  <2> QED
    BY <2>1, <2>2, <2>3 DEF RenderType, RenderPc
<1>12. CASE CheckKept
  <2>1. render' = [render EXCEPT !.pc = "draw"]
    BY <1>12 DEF CheckKept
  <2>3. render \in RenderType
    BY Types
  <2> QED
    BY <2>1, <2>3 DEF RenderType, RenderPc
<1>13. CASE CheckVoid
  <2>1. render' = [render EXCEPT !.pc = "draw", !.sel = NoSelection]
    BY <1>13 DEF CheckVoid
  <2>2. NoSelection \in SelectionType
    BY Bounds DEF NoSelection, SelectionType
  <2>3. 0 \in Frames /\ 0 \in Keys /\ render.sel.frame \in Frames /\ box.active \in Keys
    BY Bounds, RenderFields, BoxFields
  <2>4. render \in RenderType
    BY Types
  <2> QED
    BY <2>1, <2>2, <2>3, <2>4 DEF RenderType, RenderPc
<1>14. CASE DrawNothing
  <2>1. render' = [render EXCEPT !.pc = "present"]
    BY <1>14 DEF DrawNothing
  <2>3. render \in RenderType
    BY Types
  <2> QED
    BY <2>1, <2>3 DEF RenderType, RenderPc
<1>15. CASE Draw
  <2>1. PICK g \in Groups : render' = [render EXCEPT !.pc = "present", !.group = g]
    BY <1>15 DEF Draw, GroupsFor
  <2>2. render \in RenderType
    BY Types
  <2> QED
    BY <2>1, <2>2 DEF RenderType, RenderPc
<1>16. CASE ImportFails
  <2>1. render' = [render EXCEPT !.pc = AfterDraw]
    BY <1>16 DEF ImportFails
  <2>2. AfterDraw \in RenderPc
    BY DEF AfterDraw, RenderPc
  <2>3. render \in RenderType
    BY Types
  <2> QED
    BY <2>1, <2>2, <2>3 DEF RenderType
<1>17. CASE DrawFails
  <2>1. render' = [render EXCEPT !.pc = AfterDraw]
    BY <1>17 DEF DrawFails
  <2>2. AfterDraw \in RenderPc
    BY DEF AfterDraw, RenderPc
  <2>3. render \in RenderType
    BY Types
  <2> QED
    BY <2>1, <2>2, <2>3 DEF RenderType
<1>18. CASE CloseFailedActive
  <2>1. render' = [render EXCEPT !.pc = IF render.current = 0 THEN "present" ELSE "redraw"]
    BY <1>18 DEF CloseFailedActive
  <2>3. render \in RenderType
    BY Types
  <2> QED
    BY <2>1, <2>3 DEF RenderType, RenderPc
<1>19. CASE CloseFailedStale
  <2>1. render' = [render EXCEPT !.pc = IF render.current = 0 THEN "present" ELSE "redraw"]
    BY <1>19 DEF CloseFailedStale
  <2>3. render \in RenderType
    BY Types
  <2> QED
    BY <2>1, <2>3 DEF RenderType, RenderPc
<1>20. CASE PresentShown
  <2>1. render' = [render EXCEPT !.pc = "collect", !.sel = NoSelection,
                               !.current = render.sel.frame]
    BY <1>20 DEF PresentShown
  <2>2. NoSelection \in SelectionType
    BY Bounds DEF NoSelection, SelectionType
  <2>3. 0 \in Frames /\ 0 \in Keys /\ render.sel.frame \in Frames /\ box.active \in Keys
    BY Bounds, RenderFields, BoxFields
  <2>4. render \in RenderType
    BY Types
  <2> QED
    BY <2>1, <2>2, <2>3, <2>4 DEF RenderType, RenderPc
<1>21. CASE PresentHeld
  <2>1. render' = [render EXCEPT !.pc = "collect", !.sel = NoSelection]
    BY <1>21 DEF PresentHeld
  <2>2. NoSelection \in SelectionType
    BY Bounds DEF NoSelection, SelectionType
  <2>3. 0 \in Frames /\ 0 \in Keys /\ render.sel.frame \in Frames /\ box.active \in Keys
    BY Bounds, RenderFields, BoxFields
  <2>4. render \in RenderType
    BY Types
  <2> QED
    BY <2>1, <2>2, <2>3, <2>4 DEF RenderType, RenderPc
<1>22. CASE UNCHANGED render
  BY <1>22, Types
<1> QED
  BY <1>1, <1>2, <1>3, <1>4, <1>5, <1>6, <1>7, <1>8, <1>9, <1>10, <1>11, <1>12, <1>13, <1>14,
     <1>15, <1>16, <1>17, <1>18, <1>19, <1>20, <1>21, <1>22, RenderSteps

\* What a close takes out of the mailbox.
LEMMA QueuedTyped ==
    ASSUME TypeOK
    PROVE  Shown \in Seq(Leases) /\ Queued \in Seq(Leases)
<1>1. Shown \in Seq(Leases)
  BY BoxFields, Bounds DEF Shown
<1> QED
  BY <1>1, BoxFields DEF Queued

\* What the threads still have to release.
LEMMA DropTyped ==
    ASSUME TypeOK, EpochInv, ThreadsInv, Steps
    PROVE  drop' \in [Threads -> Seq(Leases)]
<1>1. CASE EvictOldest
  <2>1. drop' = [drop EXCEPT !["session"] = <<Head(box.pending)>>] /\ box.pending # <<>>
    BY <1>1 DEF EvictOldest
  <2>2. Head(box.pending) \in Leases
    BY <2>1, BoxFields
  <2>3. <<Head(box.pending)>> \in Seq(Leases)
    BY <2>2
  <2> QED
    BY <2>1, <2>3, Types
<1>2. CASE PublishDropped
  <2>1. drop' = [drop EXCEPT !["session"] = <<session.lease>>]
    BY <1>2 DEF PublishDropped
  <2>2. session.lease \in Leases
    BY <1>2, SessionFields, Bounds DEF PublishDropped, ThreadsInv
  <2>3. <<session.lease>> \in Seq(Leases)
    BY <2>2
  <2> QED
    BY <2>1, <2>3, Types
<1>3. CASE FlushActive
  <2>1. drop' = [drop EXCEPT !["session"] = Queued]
    BY <1>3 DEF FlushActive
  <2>2. Queued \in Seq(Leases)
    BY QueuedTyped
  <2> QED
    BY <2>1, <2>2, Types
<1>4. CASE StopActive
  <2>1. drop' = [drop EXCEPT !["session"] = Queued]
    BY <1>4 DEF StopActive
  <2>2. Queued \in Seq(Leases)
    BY QueuedTyped
  <2> QED
    BY <2>1, <2>2, Types
<1>5. CASE (\E t \in Threads : Release(t))
  <2>1. PICK t \in Threads : drop' = [drop EXCEPT ![t] = Tail(drop[t])] /\ drop[t] # <<>>
    BY <1>5 DEF Release
  <2>2. drop[t] \in Seq(Leases)
    BY Types
  <2>3. Tail(drop[t]) \in Seq(Leases)
    BY <2>1, <2>2
  <2> QED
    BY <2>1, <2>3, Types
<1>6. CASE MainClosesActive
  <2>1. drop' = [drop EXCEPT !["main"] = Queued]
    BY <1>6 DEF MainClosesActive
  <2>2. Queued \in Seq(Leases)
    BY QueuedTyped
  <2> QED
    BY <2>1, <2>2, Types
<1>7. CASE Select
  <2>1. PICK n \in 1 .. Len(box.jobs), k \in 0 .. Len(box.pending) :
           drop' = [drop EXCEPT !["main"] = SubSeq(box.pending, 1, PassedBy(n, k)) \o Shown]
    BY <1>7, SelectParts DEF Selects
  <2>2. SubSeq(box.pending, 1, PassedBy(n, k)) \in Seq(Leases)
    BY BoxFields, ChosenTyped
  <2>3. SubSeq(box.pending, 1, PassedBy(n, k)) \o Shown \in Seq(Leases)
    BY <2>2, QueuedTyped
  <2> QED
    BY <2>1, <2>3, Types
<1>8. CASE CloseFailedActive
  <2>1. drop' = [drop EXCEPT !["main"] = Queued]
    BY <1>8 DEF CloseFailedActive
  <2>2. Queued \in Seq(Leases)
    BY QueuedTyped
  <2> QED
    BY <2>1, <2>2, Types
<1>9. CASE WorkerClosesActive
  <2>1. drop' = [drop EXCEPT !["worker"] = Queued]
    BY <1>9 DEF WorkerClosesActive
  <2>2. Queued \in Seq(Leases)
    BY QueuedTyped
  <2> QED
    BY <2>1, <2>2, Types
<1>10. CASE UNCHANGED drop
  BY <1>10, Types
<1> QED
  BY <1>1, <1>2, <1>3, <1>4, <1>5, <1>6, <1>7, <1>8, <1>9, <1>10, DropSteps

\* The batch that is recorded.
Recorded(l, g) == [batches EXCEPT ![Recording].frames = @ \union {l},
                                  ![Recording].groups = @ \union {g}]

\* The batch of the turn exists.
LEMMA RecordingExists ==
    ASSUME TypeOK, BatchInv, render.pc \in {"check", "draw", "failed", "redraw", "present"}
    PROVE  Recording \in Batches /\ batches[Recording].state = "recording"
  BY DEF Recording, BatchInv

\* A batch that changes its state is still one,
LEMMA BatchStateTyped ==
    ASSUME TypeOK, NEW b \in Batches, NEW st \in {"free", "recording", "submitted"}
    PROVE  [batches EXCEPT ![b].state = st] \in [Batches -> BatchType]
<1>1. batches[b] \in BatchType
  BY Types
<1>2. [batches[b] EXCEPT !.state = st] \in BatchType
  BY <1>1 DEF BatchType
<1> QED
  BY <1>2, Types

\* ... and so is one that records a frame and a group; the others stay.
LEMMA RecordedTyped ==
    ASSUME TypeOK, Recording \in Batches, NEW l \in Leases, NEW g \in Groups
    PROVE  /\ Recorded(l, g) \in [Batches -> BatchType]
           /\ \A b \in Batches : b # Recording => Recorded(l, g)[b] = batches[b]
           /\ Recorded(l, g)[Recording].state = batches[Recording].state
           /\ Recorded(l, g)[Recording].frames = batches[Recording].frames \union {l}
           /\ Recorded(l, g)[Recording].groups = batches[Recording].groups \union {g}
<1> DEFINE r == batches[Recording]
           s == [r EXCEPT !.frames = @ \union {l}, !.groups = @ \union {g}]
<1>1. r \in BatchType /\ batches \in [Batches -> BatchType]
  BY Types
<1>2. s \in BatchType /\ s.state = r.state /\ s.frames = r.frames \union {l}
      /\ s.groups = r.groups \union {g}
  BY <1>1 DEF BatchType
<1>3. Recorded(l, g) = [batches EXCEPT ![Recording] = s]
  BY <1>1 DEF Recorded, BatchType
<1> HIDE DEF s
<1> QED
  BY <1>1, <1>2, <1>3

\* The batches.
LEMMA BatchesTyped ==
    ASSUME TypeOK, BatchInv, Steps
    PROVE  batches' \in [Batches -> BatchType]
<1>1. CASE (\E b \in Batches : Completed(b))
  <2>1. PICK b \in Batches : batches' = [batches EXCEPT ![b] = FreeBatch]
    BY <1>1 DEF Completed
  <2>2. FreeBatch \in BatchType
    BY DEF FreeBatch, BatchType
  <2> QED
    BY <2>1, <2>2, Types
<1>2. CASE Repaint
  <2>1. PICK b \in Batches : batches' = [batches EXCEPT ![b].state = "recording"]
    BY <1>2 DEF Repaint, Begin, FreeBatches
  <2> QED
    BY <2>1, BatchStateTyped
<1>3. CASE Select
  <2>1. PICK b \in Batches : batches' = [batches EXCEPT ![b].state = "recording"]
    BY <1>3, SelectParts DEF Select, Selects, FreeBatches
  <2> QED
    BY <2>1, BatchStateTyped
<1>4. CASE Draw
  <2>1. PICK g \in Groups : batches' = Recorded(Target, g)
    BY <1>4 DEF Draw, Pin, Recorded, GroupsFor
  <2>2. Recording \in Batches
    BY <1>4, RecordingExists DEF Draw, Drawing
  <2> QED
    BY <1>4, <2>1, <2>2, RecordedTyped, TargetTyped DEF Draw
<1>5. CASE DrawFails
  <2>1. PICK g \in Groups : batches' = Recorded(Target, g)
    BY <1>5 DEF DrawFails, Pin, Recorded, GroupsFor
  <2>2. Recording \in Batches
    BY <1>5, RecordingExists DEF DrawFails, Drawing
  <2> QED
    BY <1>5, <2>1, <2>2, RecordedTyped, TargetTyped DEF DrawFails
<1>6. CASE PresentShown
  <2>1. batches' = [batches EXCEPT ![Recording].state = "submitted"]
    BY <1>6 DEF PresentShown
  <2>2. Recording \in Batches
    BY <1>6, RecordingExists DEF PresentShown
  <2> QED
    BY <2>1, <2>2, BatchStateTyped
<1>7. CASE PresentHeld
  <2>1. batches' = [batches EXCEPT ![Recording].state = "submitted"]
    BY <1>7 DEF PresentHeld
  <2>2. Recording \in Batches
    BY <1>7, RecordingExists DEF PresentHeld
  <2> QED
    BY <2>1, <2>2, BatchStateTyped
<1>8. CASE UNCHANGED batches
  BY <1>8, Types
<1> QED
  BY <1>1, <1>2, <1>3, <1>4, <1>5, <1>6, <1>7, <1>8, BatchSteps

-----------------------------------------------------------------------------
(* Counting the places of a frame in a sequence.                           *)

Places(s, l) == {i \in 1 .. Len(s) : s[i] = l}

\* The places of a frame are finitely many, and counted by a number.
LEMMA CountPlaces ==
    ASSUME NEW s \in Seq(Leases), NEW l
    PROVE  /\ Count(s, l) = Cardinality(Places(s, l))
           /\ IsFiniteSet(Places(s, l)) /\ Places(s, l) \subseteq 1 .. Len(s)
           /\ Count(s, l) \in Nat
<1>1. Len(s) \in Nat /\ DOMAIN s = 1 .. Len(s)
  BY LenProperties
<1>2. IsFiniteSet(1 .. Len(s))
  BY <1>1, FS_Interval
<1>3. Places(s, l) \in SUBSET (1 .. Len(s))
  BY DEF Places
<1>4. IsFiniteSet(Places(s, l))
  BY <1>2, <1>3, FS_Subset
<1>5. Count(s, l) = Cardinality(Places(s, l))
  BY <1>1 DEF Count, Places
<1> QED
  BY <1>3, <1>4, <1>5, FS_CardinalityType

\* A frame that is counted stands somewhere.
LEMMA CountPositive ==
    ASSUME NEW s \in Seq(Leases), NEW l
    PROVE  Count(s, l) > 0 <=> \E i \in 1 .. Len(s) : s[i] = l
<1>1. Cardinality(Places(s, l)) = 0 <=> Places(s, l) = {}
  BY CountPlaces, FS_EmptySet
<1>2. Places(s, l) # {} <=> \E i \in 1 .. Len(s) : s[i] = l
  BY DEF Places
<1> QED
  BY <1>1, <1>2, CountPlaces

\* The counts of a sequence with no frame and with one,
LEMMA CountShort ==
    ASSUME NEW l
    PROVE  /\ Count(<<>>, l) = 0
           /\ \A x \in Leases : Count(<<x>>, l) = IF x = l THEN 1 ELSE 0
<1>1. Count(<<>>, l) = 0
  <2>1. <<>> \in Seq(Leases) /\ Len(<<>>) = 0
    BY EmptySeq
  <2>2. Places(<<>>, l) = {}
    BY <2>1 DEF Places
  <2> QED
    BY <2>1, <2>2, CountPlaces, FS_EmptySet
<1>2. ASSUME NEW x \in Leases
      PROVE  Count(<<x>>, l) = IF x = l THEN 1 ELSE 0
  <2>1. <<x>> \in Seq(Leases) /\ Len(<<x>>) = 1 /\ <<x>>[1] = x
    OBVIOUS
  <2>2. Places(<<x>>, l) = IF x = l THEN {1} ELSE {}
    BY <2>1 DEF Places
  <2>3. Cardinality({1}) = 1 /\ Cardinality({}) = 0
    BY FS_EmptySet, FS_Singleton
  <2>4. Count(<<x>>, l) = Cardinality(Places(<<x>>, l))
    BY <2>1, CountPlaces
  <2> QED
    BY <2>2, <2>3, <2>4
<1> QED
  BY <1>1, <1>2

\* ... of two sequences in a row,
LEMMA CountConcat ==
    ASSUME NEW s \in Seq(Leases), NEW t \in Seq(Leases), NEW l
    PROVE  Count(s \o t, l) = Count(s, l) + Count(t, l)
<1> DEFINE A == Places(s, l)
           B == Places(t, l)
           n == Len(s)
           C == {n + i : i \in B}
           f == [i \in B |-> n + i]
<1>1. n \in Nat /\ Len(t) \in Nat
  BY LenProperties
<1>2. /\ s \o t \in Seq(Leases) /\ Len(s \o t) = n + Len(t)
      /\ \A i \in 1 .. n + Len(t) : (s \o t)[i] = IF i <= n THEN s[i] ELSE t[i - n]
  BY ConcatProperties
<1>3. Places(s \o t, l) = A \union C
  <2>1. ASSUME NEW i \in Places(s \o t, l)
        PROVE  i \in A \union C
    <3>1. i \in 1 .. n + Len(t) /\ (s \o t)[i] = l
      BY <1>2 DEF Places
    <3>2. CASE i <= n
      BY <1>1, <1>2, <3>1, <3>2 DEF Places
    <3>3. CASE i > n
      <4>1. i - n \in B /\ i = n + (i - n)
        BY <1>1, <1>2, <3>1, <3>3 DEF Places
      <4> QED
        BY <4>1
    <3> QED
      BY <1>1, <3>1, <3>2, <3>3
  <2>2. ASSUME NEW i \in A
        PROVE  i \in Places(s \o t, l)
    BY <1>1, <1>2 DEF Places
  <2>3. ASSUME NEW i \in B
        PROVE  n + i \in Places(s \o t, l)
    <3>1. i \in 1 .. Len(t) /\ t[i] = l
      BY DEF Places
    <3>2. n + i \in 1 .. n + Len(t) /\ ~(n + i <= n) /\ (n + i) - n = i
      BY <1>1, <3>1
    <3> QED
      BY <1>2, <3>1, <3>2 DEF Places
  <2> QED
    BY <2>1, <2>2, <2>3
<1>4. A \cap C = {}
  BY <1>1 DEF Places
<1>5. IsFiniteSet(A) /\ IsFiniteSet(B) /\ B \subseteq 1 .. Len(t)
  BY CountPlaces
<1>6. IsFiniteSet(C) /\ Cardinality(C) = Cardinality(B)
  <2>1. f \in Bijection(B, C)
    <3>1. f \in [B -> C]
      OBVIOUS
    <3>2. \A i, j \in B : f[i] = f[j] => i = j
      BY <1>1, <1>5
    <3>3. \A c \in C : \E i \in B : f[i] = c
      OBVIOUS
    <3> QED
      BY <3>1, <3>2, <3>3 DEF Bijection, Injection, Surjection, IsInjective
  <2>2. ExistsBijection(B, C)
    BY <2>1 DEF ExistsBijection
  <2> QED
    BY <1>5, <2>2, FS_Bijection
<1>7. Cardinality(A \union C) = Cardinality(A) + Cardinality(C) - Cardinality(A \cap C)
  BY <1>5, <1>6, FS_Union
<1>8. Cardinality(A \cap C) = 0
  BY <1>4, FS_EmptySet
<1>9. Cardinality(A) \in Nat /\ Cardinality(B) \in Nat
  BY <1>5, FS_CardinalityType
<1>10. Count(s \o t, l) = Cardinality(A \union C)
  BY <1>2, <1>3, CountPlaces
<1>11. Count(s, l) = Cardinality(A) /\ Count(t, l) = Cardinality(B)
  BY CountPlaces
<1> HIDE DEF A, B, C
<1> QED
  BY <1>6, <1>7, <1>8, <1>9, <1>10, <1>11

\* ... of a sequence with one more frame,
LEMMA CountAppend ==
    ASSUME NEW s \in Seq(Leases), NEW x \in Leases, NEW l
    PROVE  Count(Append(s, x), l) = Count(s, l) + (IF x = l THEN 1 ELSE 0)
<1>1. Append(s, x) = s \o <<x>> /\ <<x>> \in Seq(Leases)
  BY AppendIsConcat
<1>2. Count(s \o <<x>>, l) = Count(s, l) + Count(<<x>>, l)
  BY <1>1, CountConcat
<1> QED
  BY <1>1, <1>2, CountShort

\* The places of a sequence that is cut in two.
LEMMA CountSplit ==
    ASSUME NEW s \in Seq(Leases), NEW k \in 0 .. Len(s), NEW l
    PROVE  Count(s, l) = Count(SubSeq(s, 1, k), l) + Count(SubSeq(s, k + 1, Len(s)), l)
<1>1. Len(s) \in Nat /\ \A i \in 1 .. Len(s) : s[i] \in Leases
  BY LenProperties
<1>2. SubSeq(s, 1, k) \in Seq(Leases) /\ SubSeq(s, k + 1, Len(s)) \in Seq(Leases)
  BY <1>1, SubSeqProperties
<1>3. SubSeq(s, 1, k) \o SubSeq(s, k + 1, Len(s)) = SubSeq(s, 1, Len(s))
  <2>1. 1 \in 1 .. Len(s) + 1 /\ k \in (1 - 1) .. Len(s) /\ Len(s) \in k .. Len(s)
    BY <1>1
  <2> QED
    BY <2>1, ConcatAdjacentSubSeq
<1>4. SubSeq(s, 1, Len(s)) = s
  BY SubSeqFull
<1> DEFINE front == SubSeq(s, 1, k)
           rest == SubSeq(s, k + 1, Len(s))
<1>5. front \in Seq(Leases) /\ rest \in Seq(Leases) /\ front \o rest = s
  BY <1>2, <1>3, <1>4
<1> HIDE DEF front, rest
<1>6. Count(front \o rest, l) = Count(front, l) + Count(rest, l)
  BY <1>5, CountConcat
<1>7. Count(s, l) = Count(front, l) + Count(rest, l)
  BY <1>5, <1>6
<1> QED
  BY <1>7 DEF front, rest

\* ... and of one that loses its head.
LEMMA CountTail ==
    ASSUME NEW s \in Seq(Leases), s # <<>>, NEW l
    PROVE  /\ Head(s) \in Leases /\ Tail(s) \in Seq(Leases)
           /\ Count(s, l) = (IF Head(s) = l THEN 1 ELSE 0) + Count(Tail(s), l)
<1>1. Len(s) \in Nat /\ Len(s) # 0 /\ s[1] \in Leases /\ Head(s) = s[1]
  BY EmptySeq, LenProperties
<1>2. Tail(s) = SubSeq(s, 2, Len(s)) /\ Tail(s) \in Seq(Leases)
  BY TailIsSubSeq, HeadTailProperties
<1>3. SubSeq(s, 1, 1) = <<s[1]>>
  <2>1. SubSeq(s, 1, 1) = SubSeq(s, 1, 1 - 1) \o <<s[1]>>
    BY <1>1, SubSeqRecursiveSecond
  <2>2. SubSeq(s, 1, 1 - 1) = <<>>
    BY SubSeqEmpty
  <2>3. <<s[1]>> \in Seq(Leases)
    BY <1>1
  <2> QED
    BY <2>1, <2>2, <2>3, ConcatEmptySeq
<1>4. Count(s, l) = Count(SubSeq(s, 1, 1), l) + Count(SubSeq(s, 2, Len(s)), l)
  <2>1. 1 \in 0 .. Len(s) /\ 1 + 1 = 2
    BY <1>1
  <2> QED
    BY <2>1, CountSplit
<1>5. Count(<<s[1]>>, l) = IF s[1] = l THEN 1 ELSE 0
  BY <1>1, CountShort
<1>6. Count(s, l) = Count(<<s[1]>>, l) + Count(SubSeq(s, 2, Len(s)), l)
  BY ONLY <1>3, <1>4, Zenon
<1>7. Count(s, l) = Count(<<Head(s)>>, l) + Count(Tail(s), l)
  BY <1>1, <1>2, <1>6
<1> QED
  BY <1>1, <1>2, <1>5, <1>7

-----------------------------------------------------------------------------
(* References: every one that is counted has its holder.                   *)

\* The holders of a frame, by kind.
Letting(t, l) == Count(drop[t], l)
Recorders(l) == {b \in Batches : l \in batches[b].frames}
One(held) == IF held THEN 1 ELSE 0

\* The holders are the sum of their kinds, each of them a number.
LEMMA HoldersByKind ==
    ASSUME TypeOK, NEW l \in Leases
    PROVE  /\ Holders(l) = Count(box.pending, l) + Letting("session", l) + Letting("main", l)
                           + Letting("worker", l) + Cardinality(Recorders(l))
                           + One(box.image = l) + One(render.sel.frame = l)
                           + One(render.current = l)
           /\ Count(box.pending, l) \in Nat
           /\ Letting("session", l) \in Nat /\ Letting("main", l) \in Nat
           /\ Letting("worker", l) \in Nat
           /\ IsFiniteSet(Recorders(l)) /\ Cardinality(Recorders(l)) \in Nat
<1>1. \A t \in Threads : drop[t] \in Seq(Leases)
  BY Types
<1>2. \A t \in Threads : Letting(t, l) \in Nat
  BY <1>1, CountPlaces DEF Letting
<1>3. Count(box.pending, l) \in Nat
  BY BoxFields, CountPlaces
<1>4. IsFiniteSet(Recorders(l)) /\ Cardinality(Recorders(l)) \in Nat
  <2>1. Recorders(l) \in SUBSET Batches /\ IsFiniteSet(Batches)
    BY PoolsAssumption DEF Recorders
  <2> QED
    BY <2>1, FS_Subset, FS_CardinalityType
<1> QED
  BY <1>2, <1>3, <1>4 DEF Holders, Letting, Recorders, One, Threads

\* A frame in the hands of somebody is not returned.
LEMMA HeldLives ==
    ASSUME TypeOK, ReferencesCounted, NEW l \in Leases,
           \/ \E i \in 1 .. Len(box.pending) : box.pending[i] = l
           \/ \E t \in Threads : \E i \in 1 .. Len(drop[t]) : drop[t][i] = l
           \/ \E b \in Batches : l \in batches[b].frames
           \/ box.image = l \/ render.sel.frame = l \/ render.current = l
    PROVE  lease[l].refs > 0
<1>1. lease[l].refs = Holders(l)
  BY DEF ReferencesCounted
<1> USE HoldersByKind DEF One
<1>2. CASE \E i \in 1 .. Len(box.pending) : box.pending[i] = l
  <2>1. Count(box.pending, l) > 0
    BY <1>2, CountPositive, BoxFields
  <2> QED
    BY <1>1, <2>1
<1>3. CASE \E t \in Threads : \E i \in 1 .. Len(drop[t]) : drop[t][i] = l
  <2>1. PICK t \in Threads : \E i \in 1 .. Len(drop[t]) : drop[t][i] = l
    BY <1>3
  <2>2. drop[t] \in Seq(Leases)
    BY Types
  <2>3. Letting(t, l) > 0
    BY <2>1, <2>2, CountPositive DEF Letting
  <2>4. t \in {"session", "main", "worker"}
    BY DEF Threads
  <2> QED
    BY <1>1, <2>3, <2>4
<1>4. CASE \E b \in Batches : l \in batches[b].frames
  <2>1. Recorders(l) # {}
    BY <1>4 DEF Recorders
  <2>2. Cardinality(Recorders(l)) # 0
    BY <2>1, FS_EmptySet
  <2> QED
    BY <1>1, <2>2
<1>5. CASE box.image = l \/ render.sel.frame = l \/ render.current = l
  BY <1>1, <1>5
<1> QED
  BY <1>2, <1>3, <1>4, <1>5

\* What a release does to a frame, and a retain.
SameFrame(r, s) == /\ r.key = s.key /\ r.dom = s.dom /\ r.seq = s.seq /\ r.task = s.task

\* A frame in the set loses one reference, and while it has one it stays what it is.
LEMMA ReleasedFrame ==
    ASSUME TypeOK, NEW S, NEW l \in Leases, l \in S => lease[l].refs > 0
    PROVE  /\ Released(lease, S)[l] \in LeaseType
           /\ Released(lease, S)[l].refs = lease[l].refs - One(l \in S)
           /\ Released(lease, S)[l].refs > 0 => SameFrame(Released(lease, S)[l], lease[l])
<1> DEFINE r == lease[l]
<1>1. r \in LeaseType /\ r.refs \in Nat
  BY LeaseFields
<1>2. Released(lease, S)[l] = IF l \in S THEN Less(r) ELSE r
  BY DEF Released
<1>3. CASE l \notin S
  BY <1>1, <1>2, <1>3 DEF One, SameFrame
<1>4. CASE l \in S /\ r.refs = 1
  <2>1. FreeLease \in LeaseType /\ FreeLease.refs = 0
    BY Bounds DEF FreeLease, LeaseType
  <2> QED
    BY <1>2, <1>4, <2>1 DEF Less, One
<1>5. CASE l \in S /\ r.refs # 1
  <2>1. Less(r) = [r EXCEPT !.refs = r.refs - 1]
    BY <1>5 DEF Less
  <2>2. r.refs - 1 \in Nat
    BY <1>1, <1>5
  <2>3. [r EXCEPT !.refs = r.refs - 1] \in LeaseType
    BY <1>1, <2>2 DEF LeaseType
  <2>4. Less(r).refs = r.refs - 1 /\ SameFrame(Less(r), r)
    BY <1>1, <2>1 DEF LeaseType, SameFrame
  <2> QED
    BY <1>2, <1>5, <2>1, <2>3, <2>4 DEF One
<1> QED
  BY <1>3, <1>4, <1>5

\* A frame in the set gains one reference and stays what it is.
LEMMA RetainedFrame ==
    ASSUME TypeOK, NEW S, NEW l \in Leases
    PROVE  /\ Retained(lease, S)[l] \in LeaseType
           /\ Retained(lease, S)[l].refs = lease[l].refs + One(l \in S)
           /\ SameFrame(Retained(lease, S)[l], lease[l])
<1> DEFINE r == lease[l]
<1>1. r \in LeaseType /\ r.refs \in Nat
  BY LeaseFields
<1>2. [r EXCEPT !.refs = @ + 1] \in LeaseType
  BY <1>1 DEF LeaseType
<1>3. [r EXCEPT !.refs = @ + 1].refs = r.refs + 1 /\ SameFrame([r EXCEPT !.refs = @ + 1], r)
  BY <1>1 DEF LeaseType, SameFrame
<1>4. Retained(lease, S)[l] = IF l \in S THEN [r EXCEPT !.refs = @ + 1] ELSE r
  BY DEF Retained
<1>5. CASE l \in S
  BY <1>2, <1>3, <1>4, <1>5 DEF One
<1>6. CASE l \notin S
  BY <1>1, <1>4, <1>6 DEF One, SameFrame
<1> QED
  BY <1>5, <1>6

\* What the steps that write frames do to them.
Kept(l) == lease'[l].refs > 0 => lease[l].refs > 0 /\ SameFrame(lease'[l], lease[l])

\* The steps that let references go, and of which frames.
LetsGo(S) == lease' = Released(lease, S) /\ \A l \in S \cap Leases : lease[l].refs > 0
Takes(S) == lease' = Retained(lease, S) /\ \A l \in S \cap Leases : lease[l].refs > 0

\* A thread lets the head of its list go.
LEMMA Drops ==
    ASSUME TypeOK, ReferencesCounted, \E t \in Threads : Release(t)
    PROVE  \E t \in Threads : LetsGo({Head(drop[t])}) /\ drop[t] # <<>>
<1>1. PICK t \in Threads : Release(t)
  OBVIOUS
<1>2. drop[t] # <<>> /\ lease' = Released(lease, {Head(drop[t])})
  BY <1>1 DEF Release
<1>3. drop[t] \in Seq(Leases)
  BY Types
<1>4. 1 \in 1 .. Len(drop[t]) /\ Head(drop[t]) = drop[t][1]
  BY <1>2, <1>3, EmptySeq
<1>5. \A l \in {Head(drop[t])} \cap Leases : lease[l].refs > 0
  BY <1>4, HeldLives
<1> QED
  BY <1>2, <1>5 DEF LetsGo

\* A batch whose fence has passed lets go what it recorded.
LEMMA Completes ==
    ASSUME TypeOK, ReferencesCounted, \E b \in Batches : Completed(b)
    PROVE  \E b \in Batches : /\ LetsGo(batches[b].frames)
                              /\ batches' = [batches EXCEPT ![b] = FreeBatch]
<1>1. PICK b \in Batches : Completed(b)
  OBVIOUS
<1>2. lease' = Released(lease, batches[b].frames) /\ batches' = [batches EXCEPT ![b] = FreeBatch]
  BY <1>1 DEF Completed
<1>3. \A l \in batches[b].frames \cap Leases : lease[l].refs > 0
  BY HeldLives
<1> QED
  BY <1>2, <1>3 DEF LetsGo

\* The main thread lets the shown frame go, or the selected one.
LEMMA MainLetsGo ==
    ASSUME TypeOK, ReferencesCounted
    PROVE  /\ DropStale \/ PresentShown => LetsGo({render.current})
           /\ CheckVoid \/ PresentHeld => LetsGo({render.sel.frame})
<1>1. /\ \A l \in {render.current} \cap Leases : lease[l].refs > 0
      /\ \A l \in {render.sel.frame} \cap Leases : lease[l].refs > 0
  BY HeldLives
<1> QED
  BY <1>1 DEF LetsGo, DropStale, PresentShown, CheckVoid, PresentHeld

\* The selection takes its own picture once more.
LEMMA SelectTakes ==
    ASSUME TypeOK, ReferencesCounted, NEW n \in 1 .. Len(box.jobs),
           NEW k \in 0 .. Len(box.pending),
           Selects(n, k)
    PROVE  Takes({Chosen(n, k)})
<1>1. ASSUME NEW l \in {Chosen(n, k)} \cap Leases
      PROVE  lease[l].refs > 0
  <2>1. OwnPicture(box.jobs[n], k) /\ l = box.pending[k]
    BY <1>1, Bounds DEF Chosen
  <2>2. k \in 1 .. Len(box.pending)
    BY <2>1, ChosenTyped
  <2> QED
    BY <2>1, <2>2, HeldLives
<1> QED
  BY <1>1 DEF Takes, Selects

\* What is drawn is held, by the selection or on the screen.
LEMMA TargetLives ==
    ASSUME TypeOK, ReferencesCounted, Target # 0
    PROVE  Target \in Leases /\ lease[Target].refs > 0
<1>1. Target \in Leases /\ (render.sel.frame = Target \/ render.current = Target)
  BY TargetTyped DEF Target
<1> QED
  BY <1>1, HeldLives

\* A draw takes its frame once more, unless the batch has it already.
LEMMA Draws ==
    ASSUME TypeOK, ReferencesCounted, BatchInv, Draw \/ DrawFails
    PROVE  /\ Target \in Leases /\ lease[Target].refs > 0 /\ Recording \in Batches
           /\ \/ Target \in batches[Recording].frames /\ UNCHANGED lease
              \/ Target \notin batches[Recording].frames /\ Takes({Target})
           /\ \E g \in Groups : batches' = Recorded(Target, g)
<1>1. Target \in Leases /\ lease[Target].refs > 0
  BY TargetLives DEF Draw, DrawFails
<1>2. Recording \in Batches
  BY RecordingExists DEF Draw, DrawFails, Drawing
<1>3. \E g \in Groups : Pin(Target, g)
  BY DEF Draw, DrawFails, GroupsFor
<1> QED
  BY <1>1, <1>2, <1>3 DEF Pin, Recorded, Takes

\* What is let go loses one reference, and a frame that is still held stays what it is.
LEMMA LetsGoKeeps ==
    ASSUME TypeOK, NEW S, LetsGo(S)
    PROVE  /\ lease' \in [Leases -> LeaseType]
           /\ \A l \in Leases : Kept(l) /\ lease'[l].refs = lease[l].refs - One(l \in S)
<1>1. ASSUME NEW l \in Leases
      PROVE  lease'[l] \in LeaseType /\ Kept(l) /\ lease'[l].refs = lease[l].refs - One(l \in S)
  <2>1. lease'[l] = Released(lease, S)[l] /\ (l \in S => lease[l].refs > 0)
    BY DEF LetsGo
  <2>2. lease[l].refs \in Nat
    BY LeaseFields
  <2> QED
    BY <2>1, <2>2, ReleasedFrame DEF Kept, One
<1>2. lease' = [l \in Leases |-> lease'[l]]
  BY DEF LetsGo, Released
<1> QED
  BY <1>1, <1>2

\* What is taken gains one reference, and every frame stays what it is.
LEMMA TakesKeeps ==
    ASSUME TypeOK, NEW S, Takes(S)
    PROVE  /\ lease' \in [Leases -> LeaseType]
           /\ \A l \in Leases : Kept(l) /\ lease'[l].refs = lease[l].refs + One(l \in S)
<1>1. ASSUME NEW l \in Leases
      PROVE  lease'[l] \in LeaseType /\ Kept(l) /\ lease'[l].refs = lease[l].refs + One(l \in S)
  <2>1. lease'[l] = Retained(lease, S)[l] /\ (l \in S => lease[l].refs > 0)
    BY DEF Takes
  <2>2. lease[l].refs \in Nat
    BY LeaseFields
  <2> QED
    BY <2>1, <2>2, RetainedFrame DEF Kept, One
<1>2. lease' = [l \in Leases |-> lease'[l]]
  BY DEF Takes, Retained
<1> QED
  BY <1>1, <1>2

\* The frame that is published.
LEMMA Publishes ==
    ASSUME TypeOK, ThreadsInv, EpochInv, PublishQueued \/ PublishDropped
    PROVE  /\ session.lease \in Leases
           /\ lease' \in [Leases -> LeaseType]
           /\ lease'[session.lease].refs = 1 /\ lease'[session.lease].key = session.key
           /\ lease'[session.lease].task = session.task
           /\ PublishQueued => lease'[session.lease].seq = box.seq + 1
           /\ lease'[session.lease].dom \in DomainOf(session.key)
           /\ \A l \in Leases \ {session.lease} : lease'[l] = lease[l]
<1>1. session.lease \in Leases
  BY SessionFields, Bounds DEF PublishQueued, PublishDropped, ThreadsInv
<1>2. ASSUME NEW d \in DomainOf(session.key), NEW s \in Tasks,
             lease' = [lease EXCEPT ![session.lease] =
                          [refs |-> 1, key |-> session.key, dom |-> d, task |-> session.task,
                           seq |-> s]]
      PROVE  /\ lease' \in [Leases -> LeaseType]
             /\ lease'[session.lease].refs = 1 /\ lease'[session.lease].key = session.key
             /\ lease'[session.lease].task = session.task
             /\ lease'[session.lease].seq = s
             /\ lease'[session.lease].dom = d
             /\ \A l \in Leases \ {session.lease} : lease'[l] = lease[l]
  <2> DEFINE r == [refs |-> 1, key |-> session.key, dom |-> d, task |-> session.task, seq |-> s]
  <2>1. d \in 0 .. Domains
    BY Bounds DEF DomainOf
  <2>2. r \in LeaseType
    BY <2>1, SessionFields DEF LeaseType
  <2>3. /\ r.refs = 1 /\ r.key = session.key /\ r.task = session.task /\ r.seq = s /\ r.dom = d
    OBVIOUS
  <2>4. lease' = [lease EXCEPT ![session.lease] = r]
    BY <1>2
  <2> HIDE DEF r
  <2> QED
    BY <1>1, <2>2, <2>3, <2>4, Types
<1>3. PublishQueued => box.seq + 1 \in Tasks
  BY SessionFields, BoxFields, Bounds DEF PublishQueued, EpochInv
<1>4. 0 \in Tasks
  BY Bounds
<1>5. CASE PublishQueued
  BY <1>1, <1>2, <1>3, <1>5 DEF PublishQueued
<1>6. CASE PublishDropped /\ ~PublishQueued
  BY <1>1, <1>2, <1>4, <1>6 DEF PublishDropped
<1> QED
  BY <1>5, <1>6

\* The frames keep their types, and what is held keeps what it carries.
LEMMA LeaseTyped ==
    ASSUME TypeOK, ThreadsInv, EpochInv, BatchInv, ReferencesCounted, Steps
    PROVE  /\ lease' \in [Leases -> LeaseType]
           /\ PublishQueued \/ PublishDropped \/ \A l \in Leases : Kept(l)
<1>1. CASE PublishQueued \/ PublishDropped
  BY <1>1, Publishes
<1>2. CASE (\E t \in Threads : Release(t))
  BY <1>2, Drops, LetsGoKeeps
<1>3. CASE (\E b \in Batches : Completed(b))
  BY <1>3, Completes, LetsGoKeeps
<1>4. CASE DropStale \/ PresentShown \/ CheckVoid \/ PresentHeld
  BY <1>4, MainLetsGo, LetsGoKeeps
<1>5. CASE Select
  BY <1>5, SelectParts, SelectTakes, TakesKeeps
<1>6. CASE Draw \/ DrawFails
  <2>1. CASE UNCHANGED lease
    BY <2>1, Types DEF Kept, SameFrame
  <2>2. CASE Takes({Target})
    BY <2>2, TakesKeeps
  <2> QED
    BY <1>6, <2>1, <2>2, Draws
<1>7. CASE UNCHANGED lease
  BY <1>7, Types DEF Kept, SameFrame
<1> QED
  BY <1>1, <1>2, <1>3, <1>4, <1>5, <1>6, <1>7, LeaseSteps

\* All types.
LEMMA StepTyped ==
    ASSUME TypeOK, ThreadsInv, EpochInv, BatchInv, ReferencesCounted, Steps
    PROVE  TypeOK'
<1>1. /\ lock' \in Reapers \union {"none"} /\ box' \in BoxType
      /\ dom' \in [1 .. Domains -> DomainType] /\ lease' \in [Leases -> LeaseType]
      /\ owed' \subseteq Tasks /\ session' \in SessionType /\ render' \in RenderType
      /\ groups' \in [Groups -> GroupType] /\ batches' \in [Batches -> BatchType]
      /\ worker' \in {"idle", "runs", "frozen", "join", "clean"}
      /\ drop' \in [Threads -> Seq(Leases)] /\ reap' \in [Reapers -> ReapType]
  BY LockTyped, BoxTyped, DomainsTyped, LeaseTyped, OwedTyped, SessionTyped, RenderTyped,
     GroupsTyped, BatchesTyped, WorkerTyped, DropTyped, ReapTyped
<1> QED
  BY <1>1 DEF TypeOK, SessionType, SessionPc, SelectionType, RenderType, RenderPc, JobType,
     BoxType,
         DomainType, LeaseType, GroupType, BatchType, ReapType
=============================================================================
