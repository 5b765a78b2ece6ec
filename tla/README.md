# nsteamlink: a TLA+ development

nsteamlink is a Steam Remote Play client (Nintendo Switch, desktop). The app is
written in C: a main thread with the user interface and the renderer, a runtime
worker that owns the network client and the session, and the threads of the
session itself, which deliver video and audio. This directory models the parts
in which these three have to agree, checks the models with TLC and proves
theorems about them with TLAPS.

Paths below are relative to the repository. `third_party/ihslib` (the protocol
library, `IHS_*`) and `third_party/GameNetworkingSockets` are submodules whose
sources are not part of the tree: they are modelled from how the app calls them,
and the definitions that do so are marked external in `PROJECT.json`.

## 1. The system

| Component | State | Operations | Who calls it |
|---|---|---|---|
| Admission policy, `app/platforms/common/app_lifecycle.c` | phase, the identity of the owner (request, session, epoch), cleanup evidence, one pending intent, gate facts | start, stop, exit, session created, connected, video state, presented, cleanup | main thread only |
| Main loop, `application.c`, and UI model, `app/src/ui/` | page, generation, replacement command | takes one UI command per turn, applies facts, polls events | main thread |
| Runtime, `runtime.c` | one-place command mailbox, event queue, facts record, session and client, flags set by callbacks | submit, request_exit, poll, read_facts; the worker loop with execute, stop_session, launch, sample | main thread, worker, callbacks of the library |
| Video pipeline, `video_pipeline.c` | mailbox (pending frames, tasks, image, admission), 2 decoder domains, 20 frame envelopes, format handoff | open, submit, close, stop, select, reap, clean, freeze, thaw | session thread, main thread, worker |
| Frame lifetime and surfaces, `frame_lifetime.c`, `switch/gfx.c` | reference counts, 2 GPU batches, 2 groups of imported surfaces | retain, release, pin, submit, complete; import, retire, collect | main thread |
| Media façade, `media.c`, with audio jitter buffer, pacer, timing | shown frame, current key, snapshot of the statistics | start/submit/flush/stop callbacks, collect, present | session thread, main thread |
| Launch watch, END_GAME, `launch_watch.h`, `runtime.c` | target game, wrapping stamp, two counters of empty statuses | activity, frame, status, confirmation | callbacks, worker |
| Input, sensors, rumble | buttons owned per page, guide pulse | tick, event | main thread |
| SNS backend, `sns_backend.cpp`, stream bridge, `stream_bridge.c` | state (an atomic), SDK handle, signal and datagram queues | update, start, close, wait for a datagram | worker, SDK, player |
| Cloud connection and protocol, `remote_connection.c`, `remote_protocol.c` | connection state, FIFO of frames, session | update, send, receive, suspend | worker |
| DNS policy, `dns_policy.c` | scopes, FIFO of queries, places on the wire | begin, end, cancel, stop, lookup | every thread that resolves |
| Updater, `updater.c`, `file_replace.c` | status, request, stop flag, DNS token, the installed files | check, install, poll, request_stop | own worker, main thread |
| Artwork, `artwork.c` | slots of covers and titles, paused flag, cancel generation | request, take, title, pause, stop | own worker, main thread |
| Routes, host directory, accounts, settings | caches, files | refresh, store | workers, main thread |

How they interact: the main thread sends the worker *commands* through a mailbox
that holds one (a newer command overwrites an older one under the rules of
`sl_runtime_submit`), and reads back *events*, a queue stamped with the
generation of the UI, and *facts*, a record stamped with the request. The policy
decides from the facts only; the page is turned by the events. The session's
threads call back into `runtime.c` (flags) and `media.c` (video, audio). The
worker may destroy a session only when its threads are joined, and may serve the
next request only when the video pipeline is *clean*: every frame is back from
the renderer and the GPU.

What is hard here: three threads and two channels that may disagree on whose
stream they speak of; an owner that is closed while it is being created;
cleanup that is finished in several steps by different threads; frames that
outlive their epoch; a codec that is opened, or blocked, while the user leaves.
`PROJECT.json` lists each such place at its line under `hazards`.

## 2. The modules

| Module | Models | Correctness |
|---|---|---|
| `StreamOwner` | abstract: one owner slot, a pending intent, three returns, an exit that is final | what the policy promises |
| `AppLifecycle` | `app_lifecycle.c`, one operator and one action per function, an arbitrary caller | type, evidence, intent, gate, new owner only after cleanup, facts monotonic, implements `StreamOwner` |
| `AppLifecycle_proofs` | | the proofs of the above |
| `StreamSession` | `application.c` with the policy (the operators of `AppLifecycle` by `Life == INSTANCE`), the UI, the mailbox, the worker, client and session | evidence is true, hand-over, closed is final, frozen while closing, stop acknowledged, exit joins, implements `VideoLoan` |
| `StreamSession_steps`, `StreamSession_proofs` | | the inductive invariant with the branches of the actions and the types, and the proofs of its safety |
| `VideoLoan` | abstract: one epoch at a time, what it leaves behind drains, the freeze is lifted when nothing is lent | what the video promises to whoever starts the next stream |
| `VideoPipeline` | `video_pipeline.c`, `frame_lifetime.c`, the surfaces of `switch/gfx.c`, the frame turn of `media.c`, the worker's freeze and wait | domains outlive their use, references counted, batches keep groups, no ticket lost, own picture, frozen stays empty, clean is returned, implements `VideoLoan` |
| `VideoPipeline_steps`, `VideoPipeline_proofs` | | the same for the pipeline |
| `FormatHandoff` | the choice of the pixel format in `video_pipeline.c`: the codec waits under the decoder lock for the thread that will join it | own format, both gates agree, every wait and every stop ends |
| `FormatHandoff_proofs` | | the proofs of its safety |
| `MCSession` | the instance of `StreamSession` that TLC checks: two epochs of video | |
| `Updater` | `updater.c`, `file_replace.c`, its page, the files and the crashes | a whole copy or a whole backup, the stop reaches the transfer, success is everywhere, a request is answered |
| `Updater_proofs` | | the proofs of its safety |
| `DnsPolicy` | `dns_policy.c` | queue and wire accounted for, every server is asked |
| `Artwork` | `artwork.c` | no wake-up lost, pictures belong to their id, a cancelled load retries |
| `LaunchWatch` | `launch_watch.h`, what `runtime.c` feeds it, and how `stop_session` decides what is reported | what is reported of a stream is true |
| `SignalLink` | `sns_backend.cpp`, `sns_connection_policy.h`, `stream_bridge.c`, `remote_connection.c` in bridge mode, the session of `remote_protocol.c` | signals in order and once, no sleep through the end |
| `MCServices` | the last five, side by side | |
| `Services_proofs` | | the inductive invariants of the services and the proofs of their safety |

### AppLifecycle

The record `app` is `sl_app_lifecycle`; every function of the C file is an
operator on that record (`RequestStart`, `Cleanup`, ...), with its early returns
as a predicate of its own (`StartAccepted`, `CleanupApplies`), and an action that
calls it with *any* identifiers. So the caller may be late or repeat
itself: stale facts of an earlier owner, cleanup facts one by one and in any
order, a session that was never announced. `returned` is a history variable: which
of requests, protocol and video the current owner has really given back; a report
about the current owner never claims more than that. `RequestIds`, `SessionIds`, `Epochs`
and `Transitions` are small sets of numbers in the run; in the proofs they are any
sets of natural numbers.

`sl_app_device_failed`, `sl_app_can_join` and `sl_app_video_clock` have no caller
in `application.c` (only in the tests); they are modelled with the others.

### StreamSession

State and code correspond as follows: `app` is the policy; `ui` the page and its
generation; `pending` the mailbox, `facts` the facts record, `events` the queue and `flags` the
results of the library's callbacks, all under the lock of `sl_runtime`; `mpc` and `wpc` are
where the main thread and the worker are in their loops, `snap`, `out`, `wcmd` and `ticket` what they
took with them out of a lock region; `ihs` is the client and the session of the library. Each action is one region under
`r->lock` together with the unlocked work next to it, because nothing else
observes that work. The video of a session is reduced to epochs that are open,
closed with frames out, or returned: `VideoPipeline` has the detail, and
`VideoReturned` there is what justifies assuming here that the wait ends
(`WF(VideoDrained)`).

Reductions, each on purpose: the app stays in the foreground; one host;
pairing, the network test, END_GAME, settings and the update page are left out;
`Sample` is atomic although the code takes the media snapshot before the lock;
the start and stop of the video are one step with the region of facts that follows.
The event DISCONNECTED is STOPPED with an account.

### VideoPipeline

A step is one critical section of the mailbox lock plus the private work around
it. The decoder lock is a variable (`lock`) because open, submit and reap hold it
over several steps of the mailbox. `lease` holds the frame envelopes with explicit
reference counts, `dom` the decoder domains, `owed` the accepted tasks whose
ticket is not completed yet, `groups` and `batches` what the renderer has
imported and recorded, `drop` the references that a thread has popped under the
lock and releases one by one after it, `reap` how far each call of
`sl_video_reap` has come (it reads two counters one after the other).
The two counters of a domain are operators over the other state (`External`,
`Mappings`): the code increments and decrements them exactly where those change.

Abstracted: a key is its position in the order of (session, epoch); timestamps
decide only how many tasks are ready, so any prefix may be; pixels are not
modelled; the finalizer of a frame is one step with its last release; a ticket
is completed in the step that pops its task, which nobody else can reach then; a picture without a size
is dropped like a rejected packet, without a task;
a batch that is begun is submitted; every hardware frame of a key is drawn through the one group of
its key. `lease.task` is a history field. The format handoff has a module of its own.
Not modelled: software frames, `sl_video_take`, `sl_video_destroy`, device failure and
quarantine.

### VideoLoan

The join between the two large models. `frozen` is the gate of the mailbox, `lent` has `"open"` while an
epoch runs and `"draining"` while anything of an older one is out. `StreamSession` keeps just these
two (`media.frozen`, `media.video`) in place of the pipeline. `VideoPipeline` gets them from its own
state: an epoch runs from the acceptance of its key until its decoder is stopped, and something drains
as long as another key is `InUse`, that is, occupies a domain or has a living frame or an imported group.
That both implement `VideoLoan` (`VideoIsLent`) is what the reduction rests on. The pipeline does to a session no more than
`VideoLoan` says: no epoch under a freeze, nothing left but by an epoch that ends. `VideoStart`,
`VideoStop` and `VideoDrained` of `StreamSession` are these steps. The runtime, in turn, keeps the one
rule that falls to it, to thaw only when nothing is lent; in `VideoPipeline` the worker is reduced to the wait
that is to ensure this, in `StreamSession` it is there with all its ways to the thaw.
That a draining epoch is returned at all, which `StreamSession` takes as the fairness of `VideoDrained`,
is `VideoReturned` of `VideoPipeline`.

### FormatHandoff

In the middle of `sl_video_submit`, with the decoder lock taken, FFmpeg asks for a pixel
format (`hardware_format`). The answer must come from the session's own thread, which
also opens and stops the decoder and joins the thread that is waiting. `fmt` is `struct
format_handoff`, `gate` the admission fields of the mailbox that freeze and thaw
change with it, `lock` the holder of the decoder lock; `actor` and `decoder` are the two threads
of the session with what they carry over a lock region (the chosen answer and its serial, the serial
that is waited for), `main` and `worker` how far each has come with a freeze, a thaw or a stop. A step is
one region under the mailbox or the handoff lock, so the two halves of a freeze and
of a thaw interleave as they may in the code.

A format is a pair of the request that offered it and the decoder whose hardware
preferred it: enough to see an answer reach the wrong request. The codec that asks while it is being
opened (`opening`) answers itself and is left out. External is the order in which the
protocol library calls: open, think, cancel and join from one thread, submissions
from another until it is joined, and an interruption at any time of the disconnect
(restarting or not). The frames themselves are in `VideoPipeline`.

### Updater

`file`, `old` and `download` are, per path, `<path>`, `<path>.old` and
`<path>.download`: the launched NRO and the copy of the HOME shortcut. They survive
`Crash`; the rest begins afresh with `Launch` of any copy that is whole. A step of the worker
is one call that changes a file, one atomic access or one critical section, so
that `perform` is `PublishToken`, `Admit`, `Resolve`, `Transfer`, `EndScope`, and
`sl_file_replace` is `Rename`, `DropOld`, `Aside`, `Place`, `Unneeded`, `Rollback`, each of which may
fail. `rename` is that of Horizon, which does not overwrite (`EEXIST`).
`sl_updater_request_stop` is four steps, because the worker runs between
the store of the flag, the load of the token, the cancellation and the signal.
The scope is the worker's own; `DnsPolicy` shows what a scope does.
`Resolve` folds into one step what happens between the admission and the first byte: redirects, the retries of
a lookup, and the lookup thread that the route starts on the worker's behalf with a scope of its own. It ends with an answer, at
its deadline or by the cancelled scope, and the worker waits for it in each case. That a scope is refused because all 16 are
taken is left out: the transfer then fails like one that is not answered, and there is no scope in which to wait.
The parsing of the release, the choice to skip a version and
`sl_file_replace_recover` (which nothing in the updater calls) are left out.

### DnsPolicy

`dnsScope` is the list of scopes with `current`, `queue` the linked list of
`query_waiter`, `wire` the atomic counter, `pause` the distance to
`next_query_start`; `lookup` says where each thread is in `sl_dns_policy_lookup_progressive`,
`legs` holds its arrays (`states`, `held`, `first_start`, `next_start`). Each leg of a pass is a step
of its own, since other threads enter the lock in between.

Time is counted in ticks. The clock moves only when every live lookup has
finished its pass and sleeps: the code sleeps 1 ms, and the shortest budget it compares with is 25 ms, so a
thread that misses many passes inside one budget is left out. With that, the budgets of the code are rounded:
`Pace` stands for 25 ms, `Retry` for 50 ms, `QueryBudget` for 3 s. The
proportion matters to `EveryLegStarts`: in the code all 16 × 7 legs start
within 112 × 25 ms = 2.8 s, less than one `QUERY_BUDGET_MS`; an instance in which the pace of all legs exceeds the
budget (three servers, three places, budget 2) fails for that reason and says nothing of the code. The
theorem `LegsStart` names a proportion that is enough.

### Artwork

`slots` is `entries[]` and `titles[]`, `loader` the worker with what it captured,
`drawer` the main thread inside `sl_artwork_pause` or `sl_artwork_request_stop`, which
write `paused`, `cancel_generation` and `stop` without the lock and signal under it. The
worker holds the lock from its look at the slots to the capture of the
generation, in three steps. Which slot was touched last, and whether `RETRY_MS`
have passed, is open: any slot that is not loading may be taken, a failed one may be tried.

### LaunchWatch

`launch` and `endGame` are the two records of `launch_watch.h`. The host has a clock, which stamps
its statuses modulo `Width`, and every status ever sent may arrive at any time, any number of
times, also while the worker ends the stream. `emptyAt` and `known` are history variables: when the host was without a
game, and what was known when the user confirmed.

`hostStop` is `IHS_SessionHostRequestedStop` of the session, which the host may set until its threads are
joined. `stage` is where the worker is with `stop_session`: at work, ending the stream, joined. `completed` is
`host_completed`, read after the join, and `verdict` what the runtime reports of the stream. `Poll` is the worker's look at
both watches: END_GAME is done by the stop of the host or by two statuses without a game (`EndDone`), the
launch by its own two, and at any time the time limit may have passed. Every way the stream ends goes on with `Join` and
`Stopped`; there a completion that came meanwhile, from the host or from the statuses, wins over the time limit and over a lost
session that had shown a picture. `Finished` is the session that is over, `Closed` stands for the other callers of
`stop_session` (a command, an error, an expired wait), and `EndGame` ends at once when the request could not be sent. Whether a game runs is all that is kept of the host's games: the
screen may show the target or another game whenever one runs.

The property speaks of what is reported. It has the limits of the code: the first status of a stream is
believed however old it is (`have_stamp` is reset with the launch), which is why the launch needs a
status with a game before it counts the two without; the two statuses that
complete END_GAME are newer than those known at the confirmation, not
newer than the confirmation; and a stop of the host needs no status at all.

### SignalLink

One stream over the internet. `sns` is `Queues::state`, `prep` the gate between
preparation and media, `signals` and `rx` the queues of the SDK and of the datagrams, `pending`
and `broken` the signal channel, `net`, `fifo`, `cloud` and `opening` the cloud
connection. `pump` is where `update_backend` is, `closing` how far a close has come: the state, the
unlinking of the signalling, the handle, the state again (after a rejected signal FAILED is
stored over it, `RejectSnsSignal`), then datagrams and the wake-up. A signal is its number, a frame the session it was framed for with its
signals; `sent` is the set of signals that a socket took, and `Line` what can still reach it. The channel is limited in
signals and in bytes: how many it has room for is therefore open up to `ChannelLimit`, and the first it refuses fails the
stream; a failed allocation is such a refusal. Received frames are consumed one after the other in one update.

The SDK (GameNetworkingSockets) is external: it may hand over a signal
whenever it is linked, and answers each check in any way. Resolving, directory and TLS are one
state. A signal that was framed and queued is dropped when the
connection is suspended after the last need of it (`docs/STEAM_REMOTE_PLAY_NETWORKING.md:2059`
keeps the inner messages only): no property claims the delivery of a signal.

### MCSession, MCServices

`MCSession` instantiates `StreamSession` with two epochs of video in the first
request; the state constraint `EpochsBound` saves the second epoch of the requests after
it. `MCServices` checks the last five modules in one run, `Updater` by extension and
the others by instantiation: they share no
variable, `part` is chosen by the first state, and only that part moves, so that the
state space is the sum of the five. No step of one part is restricted by another.

## 3. The runs

| Run | Bounds | Shows |
|---|---|---|
| `lifecycle` | see `AppLifecycle.cfg`; 28 500 states | the policy under an arbitrary caller, and that it implements `StreamOwner` |
| `session` | 3 generations, 2 epochs (1 in the requests after the first), PIN, both transports; 2.8 million states | the safety of the whole request, also with an epoch that opens while frames of the last one are out; it implements `VideoLoan` |
| `session_live` | 200 000 states | every stop is acknowledged, the exit joins |
| `owner_released`, `pin_submitted`, `cleanup_ack` | as small as the case allows | three disagreements, below |
| `video` | 2 envelopes, 2 domains, 2 groups, 1 batch, 2 jobs, 3 epochs, 3 tasks; 1.7 million states | the safety of the pipeline, and that it implements `VideoLoan` |
| `video_live` | the same, 1 job, 2 epochs, 2 tasks | the video is returned |
| `video_freeze` | 1 epoch, 3 tasks | a disagreement, below |
| `formats` | 2 sessions of 2 epochs, 3 requests; 83 000 states | the handoff: safety, no wait without end, no stop without end |
| `services` | see below and `MCServices.cfg`; 1.3 million states | the safety of the five services |
| `artwork_retry` | one id, one pause | a disagreement, below |

Why the bounds are enough. Three generations give an owner, a replacement and a
command on top of it; more intents than one never wait (`IntentWaitsItsTurn`,
proved). Three epochs use the two domains and come back to the first, so an envelope and a domain
are used again. Two envelopes are the smallest pool in which one is shown and
another is pending; three tasks overflow it, so eviction, exhaustion and reuse happen.
Larger pools (3 envelopes, 2 batches) were explored with fewer epochs and gave the
same answer. Two sessions of two epochs and three requests let a request be cut off by a restart,
asked again by the next decoder, and cut off again by a stop and a new session; four requests and three epochs
gave the same answer. `JobLimit` stands for `INPUT_JOB_COUNT`: with three tasks and two jobs the mailbox is met full. `Groups` has the size of the code; `Batches` is 2 in the code, but a second
batch only delays references further.

Updater: one crash and relaunch with a second installation, so that files of a
broken one are met again, and a retry after a failure. DNS: two threads, two
servers and two places on the wire; queue, wire and scopes are all at their limits, and a third thread,
which finds no scope, added no state. The threads are symmetric. Artwork: two ids for two covers
and one title slot, so that slots change hands, two pauses. Signals: three signals, two cloud
sessions, a channel and a FIFO of two, so that each queue overflows and a session is replaced. Launches: one stream, which
begins after any history of the host (a second one adds nothing, since `Start` resets both watches and the statuses of
before are there already: it doubles the states and was explored with the same answer),
stamps that wrap after two of eight, fewer clock ticks than half of the width.

Deadlock is checked wherever the model cannot stop; a configuration that turns
it off bounds a counter whose bound ends the behaviour.

### Fairness

`StreamSession`: both loops run (weak fairness of `Main` and `Worker`); an event
or a fact that is there is read in the end although the main thread has other
things to do and takes the lock by trial (strong fairness of `PollEvent`, `ReadFacts`: each turn of the loop tries both);
the session stops its video when the worker joins it, and the video is returned.
Nothing is assumed of the user, the host or the network.

`VideoPipeline`: once the worker waits in the join, the session thread finishes its
call and stops its epoch (the session is disconnected first); the main loop runs,
and collects in each turn whatever command came before; a fence is found passed in the end; the worker's loop
runs. Nothing is assumed while a session is running.

`FormatHandoff`: the threads run. The main thread finishes a closing command it has
begun, the worker finishes what it has taken, the actor handles what is pending, the decoder
thread returns from the codec. Strong fairness is assumed twice: of `Stop`, which
needs the decoder lock between two submissions, and of the cancellation by a thread that is being
disconnected (`IHS_SessionDisconnect`, external). Nothing is assumed of the user, and a running
session need neither cancel nor stop.

The five services are checked for safety only. What must happen in the end is there
stated as what a waiting thread waits for (`AnswerUnderWay`, `NoWakeUpLost`).

## 4. What is proved

`AppLifecycle_proofs` proves, for all identifiers and any caller, `TypeOK` and all
safety properties of the policy, and that it implements `StreamOwner`.
The inductive invariant `IInv` has three parts: the type; `RecordInv`, which relates phase,
identity, pending intent and gate inside the record (an id is 0 exactly where there is no owner, a pending
intent is larger than the owner, ...); and
`EvidenceTrue`, which says that every cleanup fact the record holds is true of
`returned`. The last one is the strengthening that `NewOwnerAfterCleanup` needs:
that property speaks of the world, and the record alone cannot show it. The
proof that a step preserves `IInv` has one lemma per function of the code. The action
properties and the refinement are then shown from `IInv` step by step. `SessionFactsMonotonic` needs one
fact more (`SessionHasOwner`): where there is no owner the record holds no session either, so that the first
session of the next owner is no change of an earlier one.
Assumed is only `IdsAssumption`: the identifiers are natural numbers.

`FormatHandoff_proofs` proves the three safety properties of the handoff for any number of sessions,
epochs and requests. None is inductive alone. `OwnFormat` speaks of the moment the codec goes on;
what makes it true is earlier: while a submission waits, `fmt.serial` and `fmt.offered` are still its own, because the
decoder lock admits one submission at a time (`LockInv`); an answer that the actor carries is for the
offer with its serial (`RequestInv`); and stored metadata that are valid for a
backend are of that backend, although a key is opened only once (`BackendInv`, with `NextKey`: a new
key is newer than anything stored). `GatesAgree` needs `GatesInv`: during the first half of a thaw
no stop is waiting, since `request` thaws under the runtime lock and `sl_runtime_submit`
takes it, so a gate that is frozen then has been frozen by a command still to come.
Assumed is only that the bounds are natural numbers.

`Updater_proofs` proves the four safety properties and the types of the updater for any number of launches and
installations. Assumed is only that these bounds are numbers (`UpdaterAssumption`).

* `Recoverable` needs `ReplaceInv`: what lies on the disk at each call of the replacement. Before the
  file is set aside it is there, and whole; while it is away its backup is whole and the download
  is the released version; a failed copy never reaches the rename. `Recoverable` itself is part of the
  induction, because a crash leaves any of these states to the next launch.
* `StopReachesTransfer` is the argument of two threads that each write one variable and read
  the other's. `StopInv` says that from the publication of the token on `dnsHandle` is the
  scope's token, and that a worker which got past the stop flag while the main thread was stopping is
  seen by it: then `seen` is that token.
* `AnswerUnderWay` needs to know at each page where the request is (`PageInv`) and at each
  place of the worker what the status says (`WorkerInv`): a request is stored only while the
  worker loops and a result that was polled is not published again.
* `SuccessIsEverywhere` needs all of this and `SuccessInv`: when the launched file's turn comes the extra
  target is released, and no file moves after the result is published.

`StreamSession_proofs` proves all six safety properties of a streaming request, and that it implements
`VideoLoan`, for any number of generations and of epochs, with or without a PIN, over any transports. Assumed is only
`BoundsAssumption`, the kinds of these constants. The invariant has eight parts besides the type.

* `PolicyInv` is the record of the policy (`RecordInv` of `AppLifecycle`, as far as the main loop can get).
  `WorkerInv` says that a client request, a ticket, a backend or a session belongs to the command
  that is active, and that its facts are then not closed.
* `OwnerHandover` needs `CommandInv` and `HandoverInv`: a start is submitted once, so until the runtime accepts it
  the facts name an older request, and the policy had seen that one closed before it admitted the new
  one. The PIN is the exception, since it submits the same request again; that is why
  the property and `EvidenceIsTrue` speak of commands without one.
* `FrozenWhileClosing` needs `FreezeInv`: as long as a start can still thaw, the mailbox or the worker's
  hands are full of it, and a closing command that gets in finds it there and overwrites or cancels it.
* `HomeAfterCleanup` needs `AckInv`: the generation of a stop is newer than everything in flight, so
  the acknowledgement that carries it was posted by the worker when it was done.
* `ClosedIsFinal` follows from `WorkerInv` alone: a live request has open facts.
* `VideoIsLent`: every step of the session is a step of `VideoLoan` or leaves the loan alone. The
  thaw is the step to argue: the worker has waited for the video in an earlier region, and between the two the threads
  of the old session could have opened an epoch. They cannot, since `RequestEmpty` holds at that place: nothing is
  lent when the worker has taken the next request, and until it thaws and creates a session nobody lends.
* The type itself needs the rest. Session identities stay within their bound because each request has one
  chance to create a session (`TokenInv`), and the transitions because pause and resume alternate within
  an epoch (`TransitionInv`).

`VideoPipeline_proofs` proves all eight safety properties of the pipeline, and that it implements `VideoLoan`, for any number
of envelopes, domains, groups, batches, epochs and submissions. Assumed is only `PoolsAssumption`: the
pools are finite sets of numbers. The lemmas on `Count` (how often a frame stands in a sequence that grows,
loses its head, is cut or joined) and on `Released` and `Retained` come first; then each part:

* `ThreadsInv`: who holds the decoder lock, and that nobody reaps while a frame is published.
  `EpochInv`: epochs are opened in their order, frames numbered by the tasks that bring them.
* `ReferencesCounted` is inductive only with `OwnEnvelope` (the envelope about to be published is nobody's) and
  `BatchInv` (one batch is recorded in a turn), and because a thread that empties the mailbox
  has let go everything it held before.
* `DomainOutlivesUse` needs `DomainsInv` (two domains in use never have the same key) and `ReapInv`: what
  the reaper has found of the first counter is still true when it reads the second. In the other
  order it would not be: a frame that lives can still be imported.
* `BatchKeepsGroups` follows from both: a group that is pinned holds a frame of its domain, and a draw that meets its
  key imports from the same domain.
* `FrozenStaysEmpty` is part of `MailboxInv`: a mailbox that is not empty belongs to an accepted epoch, or to
  one that a freeze has found and not yet closed. `NoTaskLost` is inductive with the remark that ticket 0 is owed to
  nobody.
* `SelectionIsOwnPicture` needs `PicturesInv`: pending frames are numbered in ascending order, and a task and a picture with
  the same number come from the same submission. Numbers start anew with an epoch, which is
  sound only because the mailbox is then empty.
* `CleanIsReturned`: when no domain is occupied, `DomainOutlivesUse` leaves no frame and no group.
* `VideoIsLent` (`VideoPipeline` implements `VideoLoan`): by `DomainOutlivesUse`, the keys in use are those of the occupied
  domains (`UseNow`), so that a step which leaves the domains alone leaves the loan alone (`LoanKept`); an end of an epoch moves its key
  from open to draining, and a reaper takes one key out (`LoanEnds`). The thaw needs one invariant more, `RestEmpty`: while no
  request is served no domain is occupied, since the worker has looked, and a session that could open an epoch needs a
  worker that serves.

In both `_steps` modules an action that branches is split into one definition per branch, shown to cover it
(`StepBranches`; `TakeBranches`, `OtherBranches`, `ApplyBranches`, `AskBranches` for the session), because the prover needs to see each
new value outright. Both inductive invariants were checked with TLC on the instances of the runs before they were
proved; the proof then asked for two relations more (`0 \notin owed`, and `session.key < MaxKey` at the start of
an epoch), which were checked the same way.

`Services_proofs` proves the safety of the four other services, and the types of all five (`TypeOK` of
`MCServices`), for all values of the constants. Assumed are the kinds of the constants (`ArtworkAssumption`,
`LinkAssumption`, `WatchAssumption`, `DnsAssumption`): numbers, finite sets of threads, room for one place, query and
frame; and one fact of substance, that the host's clock stays within half the width of the stamps, without
which "newer" has no meaning (`sl_launch_status` compares by the sign of a 32-bit difference). Since the services share
nothing, each has an invariant of its own, and `ServiceSteps` shows that a step of one leaves the others alone.

* `PictureIsOwn` and the worker's half of `NoWakeUpLost` follow from `ArtInv`. `LoaderKeepsSlot` says that the slot that
  is loaded stays `LOADING` under the id that was captured: it is nobody's victim although the lock is
  free. `TitlesForAReason` carries what the worker has seen from the covers to the titles, because the main
  thread writes its flags without the lock in between.
* The player's half needs `PlayerFoundNothing`: a player that has tested the queue and the state found neither,
  or a close is on its way that stores the state *before* it takes the mutex and wakes it.
* `SignalsInOrder` needs `OrderInv`: sent, frames, pending and the SDK's queue are one line in ascending order
  (`SentFirst`, `FramesFirst`, `QueuesOrdered`), and `FramesOfSession`: a frame that is kept belongs to the session that is
  open, so nothing framed for a dead one can be overtaken by what is framed anew.
* `CompletionIsReal` needs `WatchInv`: an accepted stamp is the clock modulo `Width`, and being newer by the comparison of
  the code is being later by the clock; so two counted statuses are two moments (`LaunchFacts`, `EndFacts`). That this
carries over to what is reported needs `StagesFit`: nothing is reported while the worker is at work, what it read after the
join is what the host has said, and a failure is reported only when the stream is over, when the host can say no more.
* `QueueAccounted` needs `DnsInv`: `QueuedOnce` (no entry twice), `WireCounted`, and `ThreadOK`, which says at each
  place of a lookup which of its legs wait, hold a socket, or are gone. The counts are then cardinalities
  of sets that gain or lose one element, by the theorems on finite sets. `WireWithinLimit` is a by-product.
* The types need little more, except for the resolver: that a lookup in its pass has budget left (`Budgeted`), and that a
  queue without repetitions is an injection into the legs (`QueueBounded`).
* `EveryLegStarts` is no matter of safety alone: it says that the collection budget is long enough. The theorem
  `LegsStart` therefore has a hypothesis on the numbers, `DnsProportions`. With *s* legs in all scopes, *w* places on the wire, a
  query of *q* ticks, a pace of *p* and a retry pause of *r*, it is *w (r + 1 + (p + 1) s) + s ≤ (w + 1) q*. The lemma
  `CodeProportions` shows it for the numbers of the code (16 scopes of 7 servers, 5 places, 3 s, 25 ms, 50 ms) at ticks of 1 ms
  (14 927 ≤ 18 000) and of 5 ms (3 527 ≤ 3 600), that is, whenever a pass with its 1 ms pause takes at
  most five. It is enough, not necessary: the instance of `services` does not satisfy it and has the property all
  the same. The smallest instance that does (two threads, one server, one place, a budget of 4 ticks; 248 000 states) was explored
  with the invariant below; with two servers and two places the budget has to be 8, which is beyond the time of a run.
  The argument is a potential. A leg that holds a place on the wire still costs the wire a tick for every tick of its
  budget (`Tokens`), each entry of the queue costs one `Turn` (a query and a pace on every place), and the pace
  that is running costs what is left of it. `StartsInTime` says of every entry whose leg has not started that *w* times the age of its
  lookup and all that is ahead of the entry stay within `StartLimit`: while the leg waits, a tick takes *w* from what is ahead, or
  the head of the queue only waits for its lookup to look again. `BudgetCovers` shows that the collection budget
  exceeds the limit, so a lookup that gives up has started all its legs. `Asked` says that a leg which has not started is in
  the queue, and `Scoped` that each lookup has a scope, of which there are `MaxScopes`; so the queue is never longer than *s*.

Where an argument would be an induction over data, a lemma takes its place: the first waiter is
the smallest index of a non-empty set of numbers (`Smallest`), which the library gives through the strict subsets of a finite interval. The
invariants were checked by TLC on the instance of `services` first.

Model-checked only are the temporal properties (`StopAcknowledged`, `ExitJoins`, `VideoReturned`, `WaitEnds`,
`SessionEnds`), since liveness under fairness is out of the prover's reach.

Proved, and not checked by a run of their own, are `IntentWaitsItsTurn` and `CleanIsReturned`: the runs check what
says more, the refinements `OwnerSlot` (an intent is admitted as `StreamOwner` admits it) and
`VideoIsLent` (the freeze is lifted only when nothing is in use).

The five properties that are violated have of course no theorem.

## 5. Disagreements found

Each is a run that must end in a violation, and an entry under `findings`.

* `owner_released`: a start that is cancelled before the worker takes it is overwritten
  in the mailbox; the facts never name its request, and the policy stays in STOPPING.
* `pin_submitted`: a request that ends with "PIN required" is at once closed as a
  failed owner, so the PIN the user enters is refused as busy.
* `cleanup_ack`: the stop that makes room for a replacement carries the
  replacement's generation, and its acknowledgement takes the new page to HOME.
* `artwork_retry`: a pause that comes between the worker's look at the paused flag and its
  copy of the cancel generation is not seen as a cancellation; when the page is
  entered again at once, the aborted load counts as failed and waits a minute.
* `video_freeze`: while a freeze holds the popped envelopes, a submission under way
  finds none and is reported as a failure, not as reset.

## 6. Not modelled

* Pairing, the network test and the control queue of the runtime; input, sensors and rumble; the media
  façade with its jitter buffer; host directory, accounts and settings: sequential or
  planned, see below.
* The SDR relay, the certificates and the hooks into GameNetworkingSockets: glue to
  a library outside the tree.
* Drawing, layout, byte formats (`remote_wire.c`, package and update formats), logging: no state
  that several actors share.
* The Python files under `scripts/` and `tools/` (and the helpers of `tests/`), which are most of the lines of the
  repository's scripting language: they are not part of the program. They audit the
  instructions of the official client, emulate pieces of it, compare traces and check the build by mutation; each runs
  alone from start to end and keeps no state over which actors could disagree. What they found out about the
  protocol is in the C code that is modelled here.

## 7. Plan

In this order:

1. `StreamOwner`, `AppLifecycle` with its proofs; `StreamSession`; `VideoPipeline`;
   `FormatHandoff` with its proofs; `Updater` with its proofs; `DnsPolicy`, `Artwork`, `LaunchWatch`,
   `SignalLink` (done).
2. Theorems: the safety of every module, `EveryLegStarts` under an explicit proportion of pace, places and budget, and
   `VideoLoan`, which `VideoPipeline` and `StreamSession` implement (done).
3. The event queue and the control side of the runtime: overflow of the queue, coalescing of
   hosts; pairing and the network test in `StreamSession`'s mailbox.
4. Pure algorithms against a reference: audio jitter buffer, frame pacer,
   `connection_wait.h`, input routing.
