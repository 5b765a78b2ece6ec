---------------------------- MODULE VideoPipeline ----------------------------
(***************************************************************************)
(* The video pipeline (video_pipeline.c) between its three users: the      *)
(* session's video thread opens, submits and stops epochs (media.c, called *)
(* by IHS); the main thread selects, draws, presents and collects (media.c *)
(* with frame_lifetime.c and gfx.c); the runtime worker freezes, waits     *)
(* until everything is returned, and thaws.                                *)
(*                                                                         *)
(* A step is one critical section of the mailbox lock with the private     *)
(* work around it.  The decoder lock is a variable, because open, submit   *)
(* and reap hold it over several steps.  References that a thread took out *)
(* of the mailbox are released one by one, outside the lock (drop).        *)
(*                                                                         *)
(* Abstracted: a key is the position of (session, epoch) in their order;   *)
(* the media timestamps decide only how many tasks are ready; pixels are   *)
(* not modelled.  A hardware frame is drawn through the one imported group *)
(* of its key.  External: the codec, the GPU, and when IHS calls.          *)
(***************************************************************************)
EXTENDS Naturals, Sequences, FiniteSets

CONSTANTS
    Leases,        \* the LEASE_COUNT frame envelopes
    Domains,       \* the DOMAIN_COUNT decoder domains, reaped in this order
    Groups,        \* the two groups of imported surfaces
    Batches,       \* the GPU batches
    JobLimit,      \* INPUT_JOB_COUNT, the tasks the mailbox takes
    MaxKey,        \* bound on the video epochs
    MaxTask        \* bound on the submissions

ASSUME PoolsAssumption ==
    /\ IsFiniteSet(Leases) /\ Leases \subseteq Nat \ {0}
    /\ Domains \in Nat \ {0}
    /\ IsFiniteSet(Groups) /\ Groups \subseteq Nat \ {0}
    /\ IsFiniteSet(Batches) /\ Batches \subseteq Nat \ {0}
    /\ JobLimit \in Nat /\ MaxKey \in Nat /\ MaxTask \in Nat

VARIABLES
    lock,          \* who holds the decoder lock
    box,           \* the mailbox: admission, pending frames, tasks, image
    dom,           \* the decoder domains
    lease,         \* the frame envelopes and their reference counts
    owed,          \* the accepted tasks whose ticket is not completed
    session,       \* the session's video thread
    render,        \* the main thread
    groups,        \* its groups of imported surfaces
    batches,       \* its GPU batches
    worker,        \* the runtime worker
    drop,          \* per thread: the references it still has to release
    reap           \* per thread: where its sl_video_reap is

decoderVars == <<lock, dom>>
frameVars == <<box, lease, owed, drop>>
drawVars == <<render, groups, batches>>
vars == <<decoderVars, frameVars, drawVars, session, worker, reap>>

Threads == {"session", "main", "worker"}
Reapers == {"session", "worker"}
Keys == 0 .. MaxKey
Tasks == 0 .. MaxTask
Frames == Leases \union {0}

Task(t, seq, placeholder) == [task |-> t, seq |-> seq, placeholder |-> placeholder]
FreeLease == [refs |-> 0, key |-> 0, dom |-> 0, seq |-> 0, task |-> 0]
FreeDomain == [occupied |-> FALSE, stopped |-> FALSE, reaping |-> FALSE, key |-> 0]
FreeGroup == [key |-> 0, dom |-> 0, retiring |-> FALSE]
FreeBatch == [state |-> "free", frames |-> {}, groups |-> {}]
NoSelection == [task |-> 0, key |-> 0, frame |-> 0]

Init ==
    /\ lock = "none"
    /\ box = [frozen |-> FALSE, cancelled |-> FALSE, accepting |-> FALSE, active |-> 0,
              seq |-> 0, pending |-> <<>>, jobs |-> <<>>, image |-> 0]
    /\ dom = [d \in 1 .. Domains |-> FreeDomain]
    /\ lease = [l \in Leases |-> FreeLease]
    /\ owed = {}
    /\ session = [pc |-> "idle", key |-> 0, dom |-> 0, task |-> 0, lease |-> 0, seq |-> 0]
    /\ render = [pc |-> "collect", sel |-> NoSelection, current |-> 0, group |-> 0,
                 closing |-> 0]
    /\ groups = [g \in Groups |-> FreeGroup]
    /\ batches = [b \in Batches |-> FreeBatch]
    /\ worker = "idle"
    /\ drop = [t \in Threads |-> <<>>]
    /\ reap = [t \in Reapers |-> [at |-> 0, stage |-> "look"]]

-----------------------------------------------------------------------------
(* Frames, domains and the mailbox.                                        *)

Available(l) == lease[l].refs = 0 /\ session.lease # l

\* release_frame: the last reference gives the envelope back.
Less(r) == IF r.refs = 1 THEN FreeLease ELSE [r EXCEPT !.refs = @ - 1]
Released(ls, S) == [l \in Leases |-> IF l \in S THEN Less(ls[l]) ELSE ls[l]]
Retained(ls, S) == [l \in Leases |-> IF l \in S THEN [ls[l] EXCEPT !.refs = @ + 1] ELSE ls[l]]

\* The two counters of a domain: published frames not yet returned, and groups
\* of surfaces imported from it.
External(d) == Cardinality({l \in Leases : lease[l].refs > 0 /\ lease[l].dom = d})
Mappings(d) == Cardinality({g \in Groups : groups[g].dom = d})

IsCurrent(key) == box.accepting /\ box.active = key

DomainOf(key) == {d \in 1 .. Domains : dom[d].occupied /\ dom[d].key = key}

\* Taken out of the mailbox: what close() and freeze() must release.
Shown == IF box.image = 0 THEN <<>> ELSE <<box.image>>
Queued == box.pending \o Shown
QueuedTasks == {box.jobs[i].task : i \in DOMAIN box.jobs}

\* Mutant: the tasks are cleared without completing their tickets.
CloseForgetsTasks(thread, key) ==
    IF box.active = key
    THEN /\ box' = [box EXCEPT !.cancelled = TRUE, !.accepting = FALSE,
                               !.pending = <<>>, !.jobs = <<>>, !.image = 0]
         /\ drop' = [drop EXCEPT ![thread] = Queued]
         /\ UNCHANGED owed
    ELSE UNCHANGED <<box, owed, drop>>

\* sl_video_close: the tickets are completed as reset, the frames released.
Close(thread, key) ==
    IF box.active = key
    THEN /\ box' = [box EXCEPT !.cancelled = TRUE, !.accepting = FALSE,
                               !.pending = <<>>, !.jobs = <<>>, !.image = 0]
         /\ owed' = owed \ QueuedTasks
         /\ drop' = [drop EXCEPT ![thread] = Queued]
    ELSE UNCHANGED <<box, owed, drop>>

\* The first half of sl_video_freeze.
Freeze == box' = [box EXCEPT !.frozen = TRUE, !.cancelled = TRUE, !.accepting = FALSE]

\* A thread releases, one at a time, what it took out of the mailbox.
Release(thread) ==
    /\ drop[thread] # <<>>
    /\ lease' = Released(lease, {Head(drop[thread])})
    /\ drop' = [drop EXCEPT ![thread] = Tail(@)]
    /\ UNCHANGED <<decoderVars, box, owed, session, drawVars, worker, reap>>

-----------------------------------------------------------------------------
(* sl_video_reap, by the session's thread and by the worker.               *)

Reaping(thread) == reap[thread].at \in 1 .. Domains
Look(at) == [at |-> at, stage |-> "look"]
Reaper(thread, r) == reap' = [reap EXCEPT ![thread] = r]

\* Mutant: the counters are read in the other order.
UnusedMappingsFirst(d, stage) ==
    IF stage = "look" THEN Mappings(d) = 0 ELSE External(d) = 0

\* The two counters are read one after the other, the frames first: a group is
\* only ever imported from a frame that is held.
Unused(d, stage) == IF stage = "look" THEN External(d) = 0 ELSE Mappings(d) = 0

ReapLook(thread) ==
    LET d == reap[thread].at IN
    /\ Reaping(thread) /\ reap[thread].stage = "look" /\ lock = "none"
    /\ IF dom[d].occupied /\ dom[d].stopped /\ ~dom[d].reaping /\ Unused(d, "look")
       THEN lock' = thread /\ Reaper(thread, [at |-> d, stage |-> "maps"])
       ELSE Reaper(thread, Look(d + 1)) /\ UNCHANGED lock
    /\ UNCHANGED <<dom, frameVars, session, drawVars, worker>>

ReapMaps(thread) ==
    LET d == reap[thread].at IN
    /\ Reaping(thread) /\ reap[thread].stage = "maps"
    /\ lock' = "none"
    /\ IF Unused(d, "maps")
       THEN /\ dom' = [dom EXCEPT ![d].reaping = TRUE]
            /\ Reaper(thread, [at |-> d, stage |-> "free"])
       ELSE Reaper(thread, Look(d + 1)) /\ UNCHANGED dom
    /\ UNCHANGED <<frameVars, session, drawVars, worker>>

\* The codec is destroyed outside the lock; only then the domain is free.
ReapFree(thread) ==
    LET d == reap[thread].at IN
    /\ Reaping(thread) /\ reap[thread].stage = "free" /\ lock = "none"
    /\ dom' = [dom EXCEPT ![d] = FreeDomain]
    /\ Reaper(thread, Look(d + 1))
    /\ UNCHANGED <<lock, frameVars, session, drawVars, worker>>

Reap(thread) == ReapLook(thread) \/ ReapMaps(thread) \/ ReapFree(thread)

\* A call of sl_video_reap begins, and it is over.
ReapBegins(thread) == reap[thread].at = 0 /\ Reaper(thread, Look(1))
ReapDone(thread) == reap[thread].at = Domains + 1 /\ Reaper(thread, Look(0))

-----------------------------------------------------------------------------
(* The session's video thread.                                             *)

SessionRuns == worker \in {"runs", "frozen", "join"}
SessionAt(pc) == session.pc = pc /\ drop["session"] = <<>> /\ UNCHANGED <<drawVars, worker>>
SessionTo(pc) == session' = [session EXCEPT !.pc = pc]

\* media_video_start_tracked: reap, name the new epoch, open it.
Start ==
    /\ SessionAt("idle") /\ SessionRuns /\ session.key < MaxKey
    /\ ReapBegins("session")
    /\ SessionTo("start")
    /\ UNCHANGED <<decoderVars, frameVars>>

Name ==
    /\ SessionAt("start") /\ ReapDone("session")
    /\ session' = [session EXCEPT !.pc = "open", !.key = @ + 1]
    /\ UNCHANGED <<decoderVars, frameVars>>

Admissible == ~box.frozen /\ ~box.accepting /\ session.key > box.active
FreeDomains == {d \in 1 .. Domains : ~dom[d].occupied}

\* sl_video_open_ex up to the codec.  Refused by the mailbox, the start fails;
\* without a free domain the epoch stays open without a decoder.
Open ==
    /\ SessionAt("open") /\ lock = "none"
    /\ box' = IF Admissible
              THEN [box EXCEPT !.active = session.key, !.cancelled = FALSE, !.seq = 0]
              ELSE box
    /\ \/ /\ Admissible /\ lock' = "session"
          /\ \E d \in FreeDomains : (\A e \in FreeDomains : d <= e)
                                    /\ session' = [session EXCEPT !.pc = "codec", !.dom = d]
       \/ /\ ~(Admissible /\ FreeDomains # {}) /\ UNCHANGED lock
          /\ SessionTo(IF Admissible THEN "streaming" ELSE "idle")
    /\ UNCHANGED <<dom, lease, owed, drop, reap>>

\* The codec does not open: the start fails, or stays open without a decoder.
OpenFails ==
    /\ SessionAt("codec")
    /\ lock' = "none"
    /\ \E pc \in {"idle", "streaming"} : session' = [session EXCEPT !.pc = pc, !.dom = 0]
    /\ UNCHANGED <<dom, frameVars, reap>>

\* Mutant: a freeze during the open is overlooked.
OpenedAnyway ==
    /\ SessionAt("codec")
    /\ box' = [box EXCEPT !.accepting = TRUE]
    /\ dom' = [dom EXCEPT ![session.dom] = [occupied |-> TRUE, stopped |-> FALSE,
                                            reaping |-> FALSE, key |-> session.key]]
    /\ lock' = "none"
    /\ session' = [session EXCEPT !.pc = "streaming", !.dom = 0]
    /\ UNCHANGED <<lease, owed, drop, reap>>

\* The codec is open: admission is checked again before anything is published.
\* A domain opened in vain is left to the reaper.
Opened ==
    LET accepted == ~box.cancelled /\ ~box.frozen IN
    /\ SessionAt("codec")
    /\ box' = [box EXCEPT !.accepting = accepted]
    /\ dom' = [dom EXCEPT ![session.dom] = [occupied |-> TRUE, stopped |-> ~accepted,
                                            reaping |-> FALSE, key |-> session.key]]
    /\ lock' = "none"
    /\ session' = [session EXCEPT !.pc = IF accepted THEN "streaming" ELSE "idle", !.dom = 0]
    /\ UNCHANGED <<lease, owed, drop, reap>>

\* sl_video_submit reads both facts in one snapshot of the mailbox: a frozen
\* epoch completes the ticket as reset, a closed one is an error.
Submit ==
    LET usable == \E d \in DomainOf(session.key) : ~dom[d].stopped IN
    /\ SessionAt("streaming") /\ lock = "none" /\ session.task < MaxTask
    /\ CASE box.frozen /\ box.active = session.key ->
                session' = [session EXCEPT !.task = @ + 1] /\ UNCHANGED <<lock, owed>>
         [] ~(box.frozen /\ box.active = session.key) /\ ~(usable /\ IsCurrent(session.key)) ->
                SessionTo("failed") /\ UNCHANGED <<lock, owed>>
         [] OTHER ->
                /\ session' = [session EXCEPT !.pc = "decode", !.task = @ + 1]
                /\ lock' = "session"
                /\ owed' = owed \union {session.task + 1}
    /\ UNCHANGED <<dom, box, lease, drop, reap>>

\* The parser rejects the packet, and its ticket is completed as corrupt; or what
\* the codec returns has no size, and the ticket is let go of without a task.
Rejected ==
    /\ SessionAt("decode")
    /\ owed' = owed \ {session.task}
    /\ SessionTo("streaming") /\ lock' = "none"
    /\ UNCHANGED <<dom, box, lease, drop, reap>>

\* The codec returns no picture: with an error the ticket is completed now,
\* and in either case the task is queued as a placeholder.
NoPicture ==
    /\ SessionAt("decode")
    /\ owed' \in {owed, owed \ {session.task}}
    /\ session' = [session EXCEPT !.pc = "queue", !.seq = 0]
    /\ UNCHANGED <<decoderVars, box, lease, drop, reap>>

\* publish(): the picture takes a free envelope; if there is none, the oldest
\* pending frame is evicted, once.
Acquire ==
    /\ SessionAt("decode") \/ SessionAt("evicted")
    /\ \E l \in Leases : Available(l) /\ (\A k \in Leases : Available(k) => l <= k)
                         /\ session' = [session EXCEPT !.pc = "publish", !.lease = l]
    /\ UNCHANGED <<decoderVars, frameVars, reap>>

Evict ==
    /\ SessionAt("decode") /\ ~\E l \in Leases : Available(l)
    /\ IF box.pending = <<>> THEN UNCHANGED <<box, drop>>
       ELSE /\ box' = [box EXCEPT !.pending = Tail(@)]
            /\ drop' = [drop EXCEPT !["session"] = <<Head(box.pending)>>]
    /\ SessionTo("evicted")
    /\ UNCHANGED <<decoderVars, lease, owed, reap>>

\* No envelope came free: the submission fails.
Exhausted ==
    /\ SessionAt("evicted") /\ ~\E l \in Leases : Available(l)
    /\ owed' = owed \ {session.task}
    /\ SessionTo("failed") /\ lock' = "none"
    /\ UNCHANGED <<dom, box, lease, drop, reap>>

\* The envelope carries the picture; a current epoch takes it into the queue,
\* a closed one lets it go.
Publish ==
    /\ SessionAt("publish")
    /\ \E d \in DomainOf(session.key) :
           lease' = [lease EXCEPT ![session.lease] =
                        [refs |-> 1, key |-> session.key, dom |-> d, task |-> session.task,
                         seq |-> IF IsCurrent(session.key) THEN box.seq + 1 ELSE 0]]
    /\ IF IsCurrent(session.key)
       THEN /\ box' = [box EXCEPT !.seq = @ + 1, !.pending = Append(@, session.lease)]
            /\ session' = [session EXCEPT !.pc = "queue", !.lease = 0, !.seq = box.seq + 1]
            /\ UNCHANGED drop
       ELSE /\ drop' = [drop EXCEPT !["session"] = <<session.lease>>]
            /\ session' = [session EXCEPT !.pc = "queue", !.lease = 0, !.seq = 0]
            /\ UNCHANGED box
    /\ UNCHANGED <<decoderVars, owed, reap>>

\* queue_task: a task without a picture stands at the end of what is published.  A
\* full mailbox fails the submission as a closed epoch does.
QueueTask ==
    LET placeholder == session.seq = 0
        active == IsCurrent(session.key) /\ Len(box.jobs) < JobLimit
    IN
    /\ SessionAt("queue")
    /\ lock' = "none"
    /\ CASE active ->
                /\ box' = [box EXCEPT !.jobs = Append(@, Task(session.task,
                               IF placeholder THEN box.seq ELSE session.seq, placeholder))]
                /\ session' = [session EXCEPT !.pc = "streaming", !.seq = 0]
                /\ UNCHANGED owed
         [] ~active /\ box.frozen /\ box.active = session.key ->
                /\ owed' = owed \ {session.task}
                /\ session' = [session EXCEPT !.pc = "streaming", !.seq = 0]
                /\ UNCHANGED box
         [] OTHER ->
                /\ owed' = owed \ {session.task}
                /\ session' = [session EXCEPT !.pc = "failed", !.seq = 0]
                /\ UNCHANGED box
    /\ UNCHANGED <<dom, lease, drop, reap>>

\* The player flush closes the epoch; its decoder stays until the stop.
FlushPlayer ==
    /\ SessionAt("streaming") /\ IsCurrent(session.key)
    /\ Close("session", session.key)
    /\ UNCHANGED <<decoderVars, lease, session, reap>>

\* media_video_stop_tracked: close, take the codec, free it, reap.
Stop ==
    /\ SessionAt("streaming") \/ SessionAt("failed")
    /\ Close("session", session.key)
    /\ SessionTo("stop")
    /\ UNCHANGED <<decoderVars, lease, reap>>

StopDomain ==
    LET D == {d \in DomainOf(session.key) : ~dom[d].reaping} IN
    /\ SessionAt("stop") /\ lock = "none"
    /\ dom' = [d \in 1 .. Domains |->
                  IF d \in D THEN [dom[d] EXCEPT !.stopped = TRUE, !.reaping = TRUE] ELSE dom[d]]
    /\ IF D = {} THEN ReapBegins("session") /\ SessionTo("stopped")
       ELSE SessionTo("teardown") /\ UNCHANGED reap
    /\ UNCHANGED <<lock, frameVars>>

Teardown ==
    /\ SessionAt("teardown") /\ lock = "none"
    /\ dom' = [d \in 1 .. Domains |->
                  IF d \in DomainOf(session.key) THEN [dom[d] EXCEPT !.reaping = FALSE] ELSE dom[d]]
    /\ ReapBegins("session") /\ SessionTo("stopped")
    /\ UNCHANGED <<lock, frameVars>>

Stopped ==
    /\ SessionAt("stopped") /\ ReapDone("session")
    /\ SessionTo("idle")
    /\ UNCHANGED <<decoderVars, frameVars>>

Session ==
    \/ Start \/ Name \/ Open \/ OpenFails \/ Opened \/ Submit \/ Rejected \/ NoPicture
    \/ Acquire \/ Evict \/ Exhausted \/ Publish \/ QueueTask \/ FlushPlayer
    \/ Stop \/ StopDomain \/ Teardown \/ Stopped \/ Release("session") \/ Reap("session")

-----------------------------------------------------------------------------
(* The main thread: one turn of stream_media_present.                      *)

RenderAt(pc) == render.pc = pc /\ drop["main"] = <<>>
RenderTo(pc) == render' = [render EXCEPT !.pc = pc]
OnlyRender == UNCHANGED <<decoderVars, session, worker, reap>>

Pinned(g) == \E b \in Batches : g \in batches[b].groups

\* sl_gfx_collect: a batch whose fence has passed lets its references go ...
Completed(b) ==
    /\ RenderAt("collect") /\ batches[b].state = "submitted"
    /\ lease' = Released(lease, batches[b].frames)
    /\ batches' = [batches EXCEPT ![b] = FreeBatch]
    /\ UNCHANGED <<box, owed, drop, render, groups>>
    /\ OnlyRender

\* Mutant: a retired group is destroyed while a batch still uses it.
CollectedInUse ==
    /\ RenderAt("collect")
    /\ groups' = [g \in Groups |-> IF groups[g].retiring THEN FreeGroup ELSE groups[g]]
    /\ RenderTo("current")
    /\ UNCHANGED <<frameVars, batches>>
    /\ OnlyRender

\* ... and then retired groups that no batch uses are destroyed.
Collected ==
    /\ RenderAt("collect")
    /\ groups' = [g \in Groups |->
                     IF groups[g].retiring /\ ~Pinned(g) THEN FreeGroup ELSE groups[g]]
    /\ RenderTo("current")
    /\ UNCHANGED <<frameVars, batches>>
    /\ OnlyRender

\* Mutant: the shown frame of a closed epoch is kept.
KeepCurrent ==
    /\ RenderAt("current")
    /\ RenderTo("forget")
    /\ UNCHANGED <<frameVars, groups, batches>>
    /\ OnlyRender

\* The shown frame of a closed epoch is released.
DropCurrent ==
    LET stale == render.current # 0 /\ ~IsCurrent(lease[render.current].key) IN
    /\ RenderAt("current")
    /\ render' = [render EXCEPT !.pc = "forget", !.current = IF stale THEN 0 ELSE @]
    /\ lease' = IF stale THEN Released(lease, {render.current}) ELSE lease
    /\ UNCHANGED <<box, owed, drop, groups, batches>>
    /\ OnlyRender

\* retire_groups.
Retired(keep) == [g \in Groups |->
    IF g # keep /\ groups[g].key # 0 THEN [groups[g] EXCEPT !.retiring = TRUE] ELSE groups[g]]

\* sl_gfx_forget_video, when the newest epoch is not current.
Forget ==
    /\ RenderAt("forget")
    /\ IF IsCurrent(session.key) THEN RenderTo("select") /\ UNCHANGED groups
       ELSE /\ groups' = Retired(0)
            /\ render' = [render EXCEPT !.pc = "select", !.group = 0]
    /\ UNCHANGED <<frameVars, batches>>
    /\ OnlyRender

\* No turn: in the background, waiting for the scheduler, or no batch is free.
Skip ==
    /\ RenderAt("select")
    /\ RenderTo("collect")
    /\ UNCHANGED <<frameVars, groups, batches>>
    /\ OnlyRender

\* Before the turn a command of the user freezes the video, in two steps: the
\* key to close is the one that was active at the freeze.
MainFreezes ==
    /\ RenderAt("collect")
    /\ Freeze
    /\ render' = [render EXCEPT !.pc = "frozen", !.closing = box.active]
    /\ UNCHANGED <<lease, owed, drop, groups, batches>>
    /\ OnlyRender

MainCloses ==
    /\ RenderAt("frozen")
    /\ Close("main", render.closing)
    /\ render' = [render EXCEPT !.pc = "collect", !.closing = 0]
    /\ UNCHANGED <<lease, groups, batches>>
    /\ OnlyRender

FreeBatches == {b \in Batches : batches[b].state = "free"}
Begin == \E b \in FreeBatches : (\A c \in FreeBatches : b <= c)
                                /\ batches' = [batches EXCEPT ![b].state = "recording"]
Recording == CHOOSE b \in Batches : batches[b].state = "recording"

\* Nothing is ready: the shown frame is drawn again.
Repaint ==
    /\ RenderAt("select") /\ Begin
    /\ RenderTo("draw")
    /\ UNCHANGED <<frameVars, groups>>
    /\ OnlyRender

\* The pending frames are numbered in ascending order: those up to a task's
\* number are passed, and its own picture, unless evicted, is the last of them.
Passed(job, k) ==
    /\ \A i \in 1 .. k : lease[box.pending[i]].seq <= job.seq
    /\ k < Len(box.pending) => lease[box.pending[k + 1]].seq > job.seq

\* Mutant: a placeholder is given the picture whose number it borrows.
PictureOfNumber(job, k) == k > 0 /\ lease[box.pending[k]].seq = job.seq

OwnPicture(job, k) == k > 0 /\ ~job.placeholder /\ lease[box.pending[k]].seq = job.seq

\* The tickets that end as late: those of the older tasks, and of one whose
\* picture was evicted.
Late(n, own) ==
    {box.jobs[i].task : i \in 1 .. n - 1}
        \union IF own \/ box.jobs[n].placeholder THEN {} ELSE {box.jobs[n].task}

\* sl_video_select: of the tasks that are ready the newest is selected and the
\* older ones end as late; the frames that are passed are let go, but its own
\* becomes the image.
Select ==
    /\ RenderAt("select") /\ box.accepting /\ Begin
    /\ \E n \in 1 .. Len(box.jobs), k \in 0 .. Len(box.pending) :
           LET job == box.jobs[n]
               own == OwnPicture(job, k)
               frame == IF own THEN box.pending[k] ELSE 0
           IN  /\ Passed(job, k)
               /\ box' = [box EXCEPT !.jobs = SubSeq(@, n + 1, Len(@)), !.image = frame,
                                     !.pending = SubSeq(@, k + 1, Len(@))]
               /\ owed' = owed \ Late(n, own)
               /\ drop' = [drop EXCEPT !["main"] =
                              SubSeq(box.pending, 1, IF own THEN k - 1 ELSE k) \o Shown]
               /\ lease' = Retained(lease, {frame})
               /\ render' = [render EXCEPT !.pc = "check",
                     !.sel = [task |-> job.task, key |-> box.active, frame |-> frame]]
    /\ UNCHANGED groups
    /\ OnlyRender

\* The selection is void when its epoch was closed in between.
Check ==
    LET void == ~IsCurrent(render.sel.key) IN
    /\ RenderAt("check")
    /\ render' = [render EXCEPT !.pc = "draw", !.sel = IF void THEN NoSelection ELSE @]
    /\ owed' = IF void THEN owed \ {render.sel.task} ELSE owed
    /\ lease' = IF void THEN Released(lease, {render.sel.frame}) ELSE lease
    /\ UNCHANGED <<box, drop, groups, batches>>
    /\ OnlyRender

\* A selected task draws its own frame or none; a repaint the shown frame; and
\* so does a task whose frame could not be drawn.
Selected == render.sel.task # 0
Target == IF Selected /\ render.pc = "draw" THEN render.sel.frame ELSE render.current

\* import_surface: the group of the frame's key, or a free one, which from now
\* on holds the domain.
GroupsFor(l) ==
    LET same == {g \in Groups : groups[g].key = lease[l].key} IN
    IF same # {} THEN same ELSE {g \in Groups : groups[g].key = 0}

\* Mutant: the batch records the frame without retaining it.
PinUnretained(l, g) ==
    /\ UNCHANGED lease
    /\ batches' = [batches EXCEPT ![Recording].frames = @ \union {l},
                                  ![Recording].groups = @ \union {g}]

\* frame_lifetime.c: a batch retains a frame once, however often it is drawn.
Pin(l, g) ==
    /\ lease' = IF l \in batches[Recording].frames THEN lease ELSE Retained(lease, {l})
    /\ batches' = [batches EXCEPT ![Recording].frames = @ \union {l},
                                  ![Recording].groups = @ \union {g}]
Imported(l, g, gs) ==
    [gs EXCEPT ![g].key = lease[l].key, ![g].dom = lease[l].dom]

AfterDraw == IF render.pc = "draw" /\ Selected /\ render.sel.frame # 0 THEN "failed" ELSE "present"

Drawing == RenderAt("draw") \/ RenderAt("redraw")

DrawNothing ==
    /\ Drawing /\ Target = 0
    /\ RenderTo("present")
    /\ UNCHANGED <<frameVars, groups, batches>>
    /\ OnlyRender

\* Drawn: the batch holds frame and group, every other group retires.
Draw ==
    /\ Drawing /\ Target # 0
    /\ \E g \in GroupsFor(Target) :
           /\ \A k \in GroupsFor(Target) : g <= k
           /\ Pin(Target, g)
           /\ groups' = Imported(Target, g, Retired(g))
           /\ render' = [render EXCEPT !.pc = "present", !.group = g]
    /\ UNCHANGED <<box, owed, drop>>
    /\ OnlyRender

\* The surface is refused, or no group is free.
ImportFails ==
    /\ Drawing /\ Target # 0
    /\ RenderTo(AfterDraw)
    /\ UNCHANGED <<frameVars, groups, batches>>
    /\ OnlyRender

\* The draw fails after the pins: the batch keeps them, a new group retires.
DrawFails ==
    /\ Drawing /\ Target # 0
    /\ \E g \in GroupsFor(Target) :
           /\ \A k \in GroupsFor(Target) : g <= k
           /\ Pin(Target, g)
           /\ groups' = IF g = render.group THEN Imported(Target, g, groups)
                        ELSE [Imported(Target, g, groups) EXCEPT ![g].retiring = TRUE]
    /\ RenderTo(AfterDraw)
    /\ UNCHANGED <<box, owed, drop>>
    /\ OnlyRender

\* A selected frame that cannot be drawn closes its epoch.
CloseFailed ==
    /\ RenderAt("failed")
    /\ Close("main", render.sel.key)
    /\ RenderTo(IF render.current = 0 THEN "present" ELSE "redraw")
    /\ UNCHANGED <<lease, groups, batches>>
    /\ OnlyRender

Drawn == render.sel.frame = 0 \/ render.sel.frame \in batches[Recording].frames

\* Mutant: the frame is handed over and released as well.
PresentTwice ==
    LET shown == Selected /\ Drawn /\ IsCurrent(render.sel.key) IN
    /\ RenderAt("present")
    /\ batches' = [batches EXCEPT ![Recording].state = "submitted"]
    /\ owed' = owed \ {render.sel.task}
    /\ render' = [render EXCEPT !.pc = "collect", !.sel = NoSelection,
                                !.current = IF shown THEN render.sel.frame ELSE @]
    /\ lease' = Released(lease, IF shown THEN {render.current, render.sel.frame}
                                ELSE {render.sel.frame})
    /\ UNCHANGED <<box, drop, groups>>
    /\ OnlyRender

\* The batch is submitted and the task completed; the frame replaces the shown
\* one if its epoch is still current, and is released otherwise.
Present ==
    LET shown == Selected /\ Drawn /\ IsCurrent(render.sel.key) IN
    /\ RenderAt("present")
    /\ batches' = [batches EXCEPT ![Recording].state = "submitted"]
    /\ owed' = owed \ {render.sel.task}
    /\ render' = [render EXCEPT !.pc = "collect", !.sel = NoSelection,
                                !.current = IF shown THEN render.sel.frame ELSE @]
    /\ lease' = Released(lease, IF shown THEN {render.current} ELSE {render.sel.frame})
    /\ UNCHANGED <<box, drop, groups>>
    /\ OnlyRender

Render ==
    \/ \E b \in Batches : Completed(b)
    \/ Collected \/ DropCurrent \/ Forget \/ Skip \/ MainFreezes \/ MainCloses
    \/ Repaint \/ Select \/ Check \/ DrawNothing \/ Draw \/ ImportFails \/ DrawFails
    \/ CloseFailed \/ Present \/ Release("main")

-----------------------------------------------------------------------------
(* The runtime worker.                                                     *)

WorkerAt(pc) == worker = pc /\ drop["worker"] = <<>> /\ UNCHANGED <<session, drawVars>>

\* request_stream lifts the freeze; the session is created afterwards.
Thaw ==
    /\ WorkerAt("idle") /\ session.key < MaxKey
    /\ box' = [box EXCEPT !.frozen = FALSE]
    /\ worker' = "runs"
    /\ UNCHANGED <<decoderVars, lease, owed, drop, reap>>

WorkerFreezes ==
    /\ WorkerAt("runs")
    /\ Freeze
    /\ worker' = "frozen"
    /\ UNCHANGED <<decoderVars, lease, owed, drop, reap>>

WorkerCloses ==
    /\ WorkerAt("frozen")
    /\ Close("worker", box.active)
    /\ worker' = "join"
    /\ UNCHANGED <<decoderVars, lease, reap>>

\* Mutant: the worker looks before the session's threads are joined.
JoinedEarly ==
    /\ WorkerAt("join")
    /\ worker' = "clean"
    /\ ReapBegins("worker")
    /\ UNCHANGED <<decoderVars, frameVars>>

\* The session's threads are joined: no epoch is open.
Joined ==
    /\ WorkerAt("join") /\ session.pc = "idle" /\ drop["session"] = <<>>
    /\ worker' = "clean"
    /\ ReapBegins("worker")
    /\ UNCHANGED <<decoderVars, frameVars>>

Clean == (\A d \in 1 .. Domains : ~dom[d].occupied)
         /\ box.jobs = <<>> /\ box.pending = <<>> /\ box.image = 0

\* sl_media_video_clean, in every turn of the worker: reap, then look.
Cleaned ==
    /\ WorkerAt("clean") /\ lock = "none" /\ reap["worker"].at = Domains + 1
    /\ IF Clean THEN worker' = "idle" /\ Reaper("worker", Look(0))
       ELSE Reaper("worker", Look(1)) /\ UNCHANGED worker
    /\ UNCHANGED <<decoderVars, frameVars>>

Worker == Thaw \/ WorkerFreezes \/ WorkerCloses \/ Joined \/ Cleaned
          \/ Release("worker") \/ Reap("worker")

-----------------------------------------------------------------------------
Next == Session \/ Render \/ Worker

Spec == Init /\ [][Next]_vars

\* Once the worker waits, the session's thread finishes its call and stops the
\* epoch (IHS disconnects before the join); every fence passes; the loops run.
\* Strongly fair are a fence, looked at again and again until it is found passed,
\* and the turn of the main loop, which follows the commands whatever they are.
Fairness ==
    /\ WF_vars(Session /\ worker = "join" /\ ~Start)
    /\ WF_vars(Render) /\ SF_vars(Collected) /\ \A b \in Batches : SF_vars(Completed(b))
    /\ WF_vars(Worker /\ worker \notin {"idle", "runs"})

FairSpec == Spec /\ Fairness

-----------------------------------------------------------------------------
(* Properties.                                                             *)

TypeOK ==
    /\ lock \in Reapers \union {"none"}
    /\ box \in [frozen : BOOLEAN, cancelled : BOOLEAN, accepting : BOOLEAN, active : Keys,
                seq : Tasks, pending : Seq(Leases), image : Frames,
                jobs : Seq([task : Tasks, seq : Tasks, placeholder : BOOLEAN])]
    /\ dom \in [1 .. Domains -> [occupied : BOOLEAN, stopped : BOOLEAN,
                                 reaping : BOOLEAN, key : Keys]]
    /\ lease \in [Leases -> [refs : Nat, key : Keys, dom : 0 .. Domains, seq : Tasks,
                             task : Tasks]]
    /\ owed \subseteq Tasks
    /\ session \in [pc : {"idle", "start", "open", "codec", "streaming", "failed", "decode",
                          "evicted", "publish", "queue", "stop", "teardown", "stopped"},
                    key : Keys, dom : 0 .. Domains, task : Tasks, lease : Frames, seq : Tasks]
    /\ render \in [pc : {"collect", "current", "forget", "select", "frozen", "check", "draw",
                         "failed", "redraw", "present"},
                   sel : [task : Tasks, key : Keys, frame : Frames],
                   current : Frames, group : Groups \union {0}, closing : Keys]
    /\ groups \in [Groups -> [key : Keys, dom : 0 .. Domains, retiring : BOOLEAN]]
    /\ batches \in [Batches -> [state : {"free", "recording", "submitted"},
                                frames : SUBSET Leases, groups : SUBSET Groups]]
    /\ worker \in {"idle", "runs", "frozen", "join", "clean"}
    /\ drop \in [Threads -> Seq(Leases)]
    /\ reap \in [Reapers -> [at : 0 .. Domains + 1, stage : {"look", "maps", "free"}]]

\* A decoder domain outlives everything that was made from it: the storage of a
\* domain with a frame, an imported group or a picture under way is neither
\* freed nor given to another epoch (docs/VIDEO_RENDERING_DESIGN.md:835).
DomainOutlivesUse ==
    /\ \A l \in Leases : lease[l].refs > 0 =>
           dom[lease[l].dom].occupied /\ dom[lease[l].dom].key = lease[l].key
    /\ \A g \in Groups : groups[g].key # 0 =>
           dom[groups[g].dom].occupied /\ dom[groups[g].dom].key = groups[g].key

\* How often a frame stands in a sequence of them.
Count(s, l) == Cardinality({i \in DOMAIN s : s[i] = l})

\* Every reference that is counted is held by exactly one holder: the queue, the
\* image, the selection, the shown frame, a batch, or a thread about to let go.
Holders(l) ==
    Count(box.pending, l)
    + Count(drop["session"], l) + Count(drop["main"], l) + Count(drop["worker"], l)
    + Cardinality({b \in Batches : l \in batches[b].frames})
    + (IF box.image = l THEN 1 ELSE 0)
    + (IF render.sel.frame = l THEN 1 ELSE 0)
    + (IF render.current = l THEN 1 ELSE 0)

ReferencesCounted == \A l \in Leases : lease[l].refs = Holders(l)

\* What a batch has recorded stays alive until its fence has passed: the GPU
\* never reads a group that has been destroyed.
BatchKeepsGroups ==
    \A b \in Batches : \A g \in batches[b].groups :
        groups[g].key # 0 /\ \E l \in batches[b].frames : lease[l].dom = groups[g].dom

\* An accepted task is completed by whoever took it over, however close, freeze,
\* eviction and skipping interleave: its ticket is never lost.
NoTaskLost ==
    owed \subseteq QueuedTasks \union {render.sel.task}
                   \union (IF session.pc \in {"decode", "evicted", "publish", "queue"}
                           THEN {session.task} ELSE {})

\* A selection carries the picture of its own submission or none, never that of
\* another one whose envelope or number was used again (video_pipeline.h, "THIS
\* submission's returned pixels").
SelectionIsOwnPicture ==
    render.sel.frame # 0 => lease[render.sel.frame].task = render.sel.task

\* After a freeze nothing is accepted any more, by a publication, a task or an
\* open that was already under way, until the runtime thaws
\* (docs/VIDEO_RENDERING_DESIGN.md:344).
FrozenStaysEmpty ==
    box.frozen => /\ ~box.accepting
                  /\ (worker # "frozen" /\ render.pc # "frozen") =>
                         box.pending = <<>> /\ box.jobs = <<>> /\ box.image = 0

\* When the worker reports the video clean, nobody holds anything of it: no
\* frame, no imported group, no domain.
CleanIsReturned ==
    [][(worker = "clean" /\ worker' = "idle") =>
          /\ \A l \in Leases : lease[l].refs = 0
          /\ \A g \in Groups : groups[g].key = 0
          /\ render.current = 0]_vars

\* The epochs that something in use was made for, and the epoch that the session
\* has started and not yet stopped.
InUse ==
    {dom[d].key : d \in {e \in 1 .. Domains : dom[e].occupied}}
        \union {lease[l].key : l \in {k \in Leases : lease[k].refs > 0}}
        \union {groups[g].key : g \in {h \in Groups : groups[h].key # 0}}
EpochRuns ==
    session.pc \in {"codec", "streaming", "failed", "decode", "evicted", "publish", "queue"}
Draining == IF EpochRuns THEN InUse \ {session.key} ELSE InUse

\* The pipeline lends its memory as VideoLoan says: no epoch starts under a freeze,
\* only an epoch that ends leaves anything behind, and the freeze is lifted for the
\* next request only when nothing is in use (runtime.c waits for
\* sl_media_video_clean before it thaws).
Loan == INSTANCE VideoLoan WITH
    frozen <- box.frozen,
    lent <- (IF EpochRuns THEN {"open"} ELSE {})
                \union (IF Draining # {} THEN {"draining"} ELSE {})
VideoIsLent == Loan!Spec

\* Whatever was in use when the session ended is returned in the end: the wait
\* of the worker for the video is finite.
VideoReturned == (worker = "clean") ~> (worker = "idle")

-----------------------------------------------------------------------------
\* "A matching explicit freeze cancels a valid submission as DroppedReset/OK; it
\* does not turn local shutdown into a decoder/resource failure."
\* (video_pipeline.h:72)
FreezeIsNoFailure ==
    [][(session.pc # "failed" /\ session'.pc = "failed") =>
          ~(box.frozen /\ box.active = session.key)]_vars
=============================================================================
