---------------------------- MODULE FormatHandoff ----------------------------
(***************************************************************************)
(* The choice of the pixel format (video_pipeline.c): the codec asks for   *)
(* it in the middle of a submission, while the decoder thread holds the    *)
(* decoder lock, and must wait until the session's own thread (the actor)  *)
(* has answered, or until somebody cancels or freezes.  The same actor     *)
(* opens and stops the decoder and joins the decoder thread.               *)
(*                                                                         *)
(* Beside them the main thread freezes and asks for a stop, and the        *)
(* runtime worker thaws, freezes and joins.  Freeze and thaw go through    *)
(* two locks one after the other, the mailbox and the handoff.             *)
(*                                                                         *)
(* A step is one region under the mailbox or the handoff lock.  A format   *)
(* is named by the request that offered it and the decoder whose hardware  *)
(* preferred it.  External: when the protocol library opens, interrupts    *)
(* and joins, and when the codec asks.                                     *)
(***************************************************************************)
EXTENDS Naturals

CONSTANTS
    MaxSession,    \* bound on the sessions
    MaxEpoch,      \* bound on the video epochs of a session
    MaxSerial      \* bound on the requests for a format

ASSUME BoundsAssumption == MaxSession \in Nat /\ MaxEpoch \in Nat /\ MaxSerial \in Nat

VARIABLES
    gate,          \* the admission part of the mailbox
    fmt,           \* struct format_handoff
    lock,          \* who holds the decoder lock
    actor,         \* the session's own thread
    decoder,       \* the session's decoder thread
    main,          \* the main thread
    worker,        \* the runtime worker
    stop           \* a closing command is in the runtime's mailbox

vars == <<gate, fmt, lock, actor, decoder, main, worker, stop>>

Keys == (0 .. MaxSession) \X (0 .. MaxEpoch)
NoKey == <<0, 0>>
Session(key) == key[1]
Newer(a, b) == a[1] > b[1] \/ (a[1] = b[1] /\ a[2] > b[2])

Format(offer, hardware) == [offer |-> offer, hardware |-> hardware]
NoFormat == Format(0, NoKey)

Init ==
    /\ gate = [frozen |-> FALSE, cancelled |-> FALSE, accepting |-> FALSE, active |-> NoKey]
    /\ fmt = [backend |-> NoKey, request |-> NoKey, active |-> FALSE, valid |-> FALSE,
              pending |-> FALSE, frozen |-> FALSE, waiters |-> 0, hardware |-> NoKey,
              offered |-> 0, result |-> NoFormat, serial |-> 0]
    /\ lock = "none"
    /\ actor = [pc |-> "gone", key |-> NoKey, usable |-> FALSE, serial |-> 0, answer |-> NoFormat]
    /\ decoder = [pc |-> "idle", serial |-> 0, got |-> NoFormat]
    /\ main = "idle" /\ worker = "idle" /\ stop = FALSE

-----------------------------------------------------------------------------
(* Freeze and thaw.                                                        *)

FreezeGate == gate' = [gate EXCEPT !.frozen = TRUE, !.cancelled = TRUE, !.accepting = FALSE]
FreezeFormats == fmt' = [fmt EXCEPT !.frozen = TRUE, !.active = FALSE, !.pending = FALSE]

\* A closing command of the user: freeze, then submit it under the runtime lock.
MainFreezes ==
    /\ main = "idle" /\ ~stop
    /\ FreezeGate /\ main' = "formats"
    /\ UNCHANGED <<fmt, lock, actor, decoder, worker, stop>>

MainFreezesFormats ==
    /\ main = "formats"
    /\ FreezeFormats /\ main' = "submit"
    /\ UNCHANGED <<gate, lock, actor, decoder, worker, stop>>

MainSubmits ==
    /\ main = "submit" /\ worker # "thaw"
    /\ stop' = TRUE /\ main' = "idle"
    /\ UNCHANGED <<gate, fmt, lock, actor, decoder, worker>>

\* A start is thawed under the runtime lock, unless a command is waiting.
Thaw ==
    /\ worker = "idle" /\ ~stop /\ Session(actor.key) < MaxSession
    /\ gate' = [gate EXCEPT !.frozen = FALSE] /\ worker' = "thaw"
    /\ UNCHANGED <<fmt, lock, actor, decoder, main, stop>>

\* Mutant: the handoff stays frozen.
ThawKeepsFormats ==
    /\ worker = "thaw"
    /\ worker' = "runs"
    /\ actor' = [actor EXCEPT !.pc = "ready", !.key = <<Session(@) + 1, 0>>]
    /\ UNCHANGED <<gate, fmt, lock, decoder, main, stop>>

\* The second half; the session that is created next starts its thread.
ThawFormats ==
    /\ worker = "thaw"
    /\ fmt' = [fmt EXCEPT !.frozen = FALSE]
    /\ worker' = "runs"
    /\ actor' = [actor EXCEPT !.pc = "ready", !.key = <<Session(@) + 1, 0>>]
    /\ UNCHANGED <<gate, lock, decoder, main, stop>>

\* stop_session: freeze, disconnect, join the session's threads.
TakeStop ==
    /\ worker \in {"idle", "runs"} /\ stop
    /\ FreezeGate /\ stop' = FALSE /\ worker' = "freeze"
    /\ UNCHANGED <<fmt, lock, actor, decoder, main>>

StopFreezesFormats ==
    /\ worker = "freeze"
    /\ FreezeFormats /\ worker' = "join"
    /\ UNCHANGED <<gate, lock, actor, decoder, main, stop>>

Joined ==
    /\ worker = "join" /\ actor.pc = "gone"
    /\ worker' = "idle"
    /\ UNCHANGED <<gate, fmt, lock, actor, decoder, main, stop>>

-----------------------------------------------------------------------------
(* The actor.                                                              *)

ActorAt(pc) == actor.pc = pc /\ UNCHANGED <<decoder, main, worker, stop>>
ActorTo(pc) == actor' = [actor EXCEPT !.pc = pc]

\* Mutant: the request is withdrawn, but the epoch stays active.
CancelledRequest(key, restarting) ==
    [fmt EXCEPT !.pending = @ /\ (restarting \/ key \notin {fmt.backend, fmt.request})]

\* sl_video_cancel_formats: a restart keeps the request for the next decoder.
Cancelled(key, restarting) ==
    [fmt EXCEPT !.active = @ /\ fmt.backend # key,
                !.pending = @ /\ (restarting \/ key \notin {fmt.backend, fmt.request})]

\* Another thread interrupts the session (IHS_SessionInterrupt).
Interrupt ==
    /\ worker = "join" /\ actor.pc # "gone"
    /\ \E restarting \in BOOLEAN : fmt' = Cancelled(actor.key, restarting)
    /\ UNCHANGED <<gate, lock, actor, decoder, main, worker, stop>>

OtherSession(f, key) == Session(f.request) # Session(key)

\* sl_video_open_ex, region by region: admission ...
Open ==
    LET key == <<Session(actor.key), actor.key[2] + 1>>
        admissible == ~gate.frozen /\ ~gate.accepting /\ Newer(key, gate.active)
    IN  /\ ActorAt("ready") /\ worker # "join" /\ lock = "none" /\ actor.key[2] < MaxEpoch
        /\ IF admissible
           THEN /\ gate' = [gate EXCEPT !.active = key, !.cancelled = FALSE]
                /\ actor' = [actor EXCEPT !.pc = "activate", !.key = key, !.usable = FALSE]
                /\ lock' = "actor"
           ELSE actor' = [actor EXCEPT !.key = key] /\ UNCHANGED <<gate, lock>>
        /\ UNCHANGED fmt

\* ... the handoff belongs to the new epoch; without a free domain it is open
\* without a decoder ...
Activate ==
    /\ ActorAt("activate")
    /\ fmt' = [fmt EXCEPT !.backend = actor.key, !.active = TRUE, !.valid = FALSE,
                          !.pending = @ /\ ~OtherSession(fmt, actor.key)]
    /\ \/ ActorTo("codec") /\ UNCHANGED lock
       \/ ActorTo("up") /\ lock' = "none"
    /\ UNCHANGED gate

\* Mutant: a failure to open leaves the decoder lock taken.
CodecFailsLocked ==
    /\ ActorAt("codec")
    /\ fmt' = [fmt EXCEPT !.hardware = actor.key, !.valid = TRUE, !.active = @ /\ ~fmt.frozen]
    /\ \E pc \in {"admit", "up", "ready"} : ActorTo(pc)
    /\ UNCHANGED <<gate, lock>>

\* ... the codec is open, or failed to: its metadata are published either way ...
CodecOpened ==
    /\ ActorAt("codec")
    /\ fmt' = [fmt EXCEPT !.hardware = actor.key, !.valid = TRUE, !.active = @ /\ ~fmt.frozen]
    /\ \/ ActorTo("admit") /\ UNCHANGED lock
       \/ \E pc \in {"up", "ready"} : ActorTo(pc) /\ lock' = "none"
    /\ UNCHANGED gate

\* ... or there was nothing to open: they stay unpublished ...
NoCodec ==
    /\ ActorAt("codec")
    /\ \E pc \in {"up", "ready"} : ActorTo(pc) /\ lock' = "none"
    /\ UNCHANGED <<gate, fmt>>

\* ... admission is checked again ...
Admit ==
    LET accepted == ~gate.cancelled /\ ~gate.frozen IN
    /\ ActorAt("admit")
    /\ gate' = [gate EXCEPT !.accepting = accepted]
    /\ actor' = [actor EXCEPT !.pc = "publish", !.usable = accepted]
    /\ UNCHANGED <<fmt, lock>>

\* ... and the handoff stays active if nobody interrupted in the meantime.
Publish ==
    /\ ActorAt("publish")
    /\ fmt' = [fmt EXCEPT !.backend = actor.key, !.hardware = actor.key,
                          !.active = @ /\ actor.usable /\ ~fmt.frozen,
                          !.pending = @ /\ ~OtherSession(fmt, actor.key)]
    /\ lock' = "none"
    /\ ActorTo(IF actor.usable THEN "up" ELSE "ready")
    /\ UNCHANGED gate

\* sl_video_process_formats: the format is chosen under the lock, announced to
\* the host without it, and then answered if the request still stands.
Think ==
    /\ ActorAt("up")
    /\ fmt.pending /\ fmt.active /\ fmt.valid /\ ~fmt.frozen
    /\ fmt.backend = actor.key /\ ~OtherSession(fmt, actor.key)
    /\ actor' = [actor EXCEPT !.pc = "info", !.serial = fmt.serial,
                              !.answer = Format(fmt.offered, fmt.hardware)]
    /\ UNCHANGED <<gate, fmt, lock>>

Answer ==
    LET stands == fmt.pending /\ fmt.serial = actor.serial /\ fmt.active
                  /\ fmt.backend = actor.key
    IN  /\ ActorAt("info")
        /\ fmt' = IF stands THEN [fmt EXCEPT !.result = actor.answer, !.pending = FALSE] ELSE fmt
        /\ ActorTo("up")
        /\ UNCHANGED <<gate, lock>>

\* A reset, a new configuration or the end of the session: cancel, then join.
Cancel ==
    /\ ActorAt("up")
    /\ \E restarting \in BOOLEAN : fmt' = Cancelled(actor.key, restarting)
    /\ ActorTo("join")
    /\ UNCHANGED <<gate, lock>>

\* The decoder thread is joined; sl_video_stop cancels once more and closes.
Stop ==
    /\ ActorAt("join") /\ decoder.pc = "idle" /\ lock = "none"
    /\ fmt' = Cancelled(actor.key, TRUE)
    /\ gate' = IF gate.active = actor.key
               THEN [gate EXCEPT !.cancelled = TRUE, !.accepting = FALSE] ELSE gate
    /\ actor' = [actor EXCEPT !.pc = "ready", !.usable = FALSE]
    /\ UNCHANGED lock

End ==
    /\ ActorAt("ready") /\ worker = "join"
    /\ ActorTo("gone")
    /\ UNCHANGED <<gate, fmt, lock>>

Actor ==
    \/ Open \/ Activate \/ CodecOpened \/ NoCodec \/ Admit \/ Publish
    \/ Think \/ Answer \/ Stop \/ End

-----------------------------------------------------------------------------
(* The decoder thread, which goes on with its queue until it is joined.    *)

DecoderAt(pc) == decoder.pc = pc /\ UNCHANGED <<gate, actor, main, worker, stop>>

\* sl_video_submit, when the codec asks for a format.
Submit ==
    /\ DecoderAt("idle") /\ actor.pc \in {"up", "info", "join"} /\ actor.usable
    /\ lock = "none" /\ gate.accepting /\ gate.active = actor.key
    /\ lock' = "decoder" /\ decoder' = [decoder EXCEPT !.pc = "ask"]
    /\ UNCHANGED fmt

\* Mutant: the formats on offer are those of the last request.
AskKeepsOffer ==
    /\ DecoderAt("ask") /\ fmt.serial < MaxSerial
    /\ fmt' = [fmt EXCEPT !.serial = @ + 1, !.request = actor.key, !.result = NoFormat,
                          !.pending = TRUE, !.waiters = @ + 1]
    /\ decoder' = [decoder EXCEPT !.pc = "wait", !.serial = fmt.serial + 1]
    /\ UNCHANGED lock

\* hardware_format: the request is published; then the thread waits.
Ask ==
    /\ DecoderAt("ask") /\ fmt.serial < MaxSerial
    /\ fmt' = [fmt EXCEPT !.serial = @ + 1, !.request = actor.key, !.result = NoFormat,
                          !.offered = fmt.serial + 1, !.pending = TRUE, !.waiters = @ + 1,
                          !.hardware = IF fmt.backend = actor.key THEN actor.key ELSE @]
    /\ decoder' = [decoder EXCEPT !.pc = "wait", !.serial = fmt.serial + 1]
    /\ UNCHANGED lock

\* The request is refused at the end of the numbers.
AskRefused ==
    /\ DecoderAt("ask") /\ fmt.serial = MaxSerial
    /\ decoder' = [decoder EXCEPT !.pc = "decode", !.got = NoFormat]
    /\ UNCHANGED <<fmt, lock>>

Mine == fmt.active /\ ~fmt.frozen /\ fmt.backend = actor.key /\ fmt.serial = decoder.serial

\* Mutant: a wait that was cancelled is not counted off.
WokenMiscounted ==
    /\ DecoderAt("wait") /\ ~(Mine /\ fmt.pending)
    /\ decoder' = [decoder EXCEPT !.pc = "decode", !.got = IF Mine THEN fmt.result ELSE NoFormat]
    /\ fmt' = IF Mine THEN [fmt EXCEPT !.waiters = @ - 1] ELSE fmt
    /\ UNCHANGED lock

\* The wait is over: answered, or no longer mine to wait for.
Woken ==
    /\ DecoderAt("wait") /\ ~(Mine /\ fmt.pending)
    /\ decoder' = [decoder EXCEPT !.pc = "decode", !.got = IF Mine THEN fmt.result ELSE NoFormat]
    /\ fmt' = [fmt EXCEPT !.waiters = @ - 1]
    /\ UNCHANGED lock

Decoded ==
    /\ DecoderAt("decode")
    /\ lock' = "none" /\ decoder' = [pc |-> "idle", serial |-> 0, got |-> NoFormat]
    /\ UNCHANGED fmt

Decoder == Submit \/ Ask \/ AskRefused \/ Woken \/ Decoded

-----------------------------------------------------------------------------
Next ==
    \/ MainFreezes \/ MainFreezesFormats \/ MainSubmits
    \/ Thaw \/ ThawFormats \/ TakeStop \/ StopFreezesFormats \/ Joined \/ Interrupt
    \/ Actor \/ Cancel \/ Decoder

Spec == Init /\ [][Next]_vars

\* The threads run; a disconnected session is cancelled, joined and ended.  The
\* decoder lock is taken again and again, so its waiters get it in the end.
Fairness ==
    /\ WF_vars(MainFreezesFormats \/ MainSubmits)
    /\ WF_vars(ThawFormats \/ TakeStop \/ StopFreezesFormats \/ Joined)
    /\ WF_vars(Actor) /\ SF_vars(Stop) /\ SF_vars(worker = "join" /\ Cancel)
    /\ WF_vars(Ask \/ AskRefused \/ Woken \/ Decoded)

FairSpec == Spec /\ Fairness

-----------------------------------------------------------------------------
(* Properties.                                                             *)

Formats == [offer : 0 .. MaxSerial, hardware : Keys]
Gates == [frozen : BOOLEAN, cancelled : BOOLEAN, accepting : BOOLEAN, active : Keys]
Handoffs == [backend : Keys, request : Keys, active : BOOLEAN, valid : BOOLEAN,
             pending : BOOLEAN, frozen : BOOLEAN, waiters : 0 .. 1, hardware : Keys,
             offered : 0 .. MaxSerial, result : Formats, serial : 0 .. MaxSerial]
Actors == [pc : {"gone", "ready", "activate", "codec", "admit", "publish", "up", "info", "join"},
           key : Keys, usable : BOOLEAN, serial : 0 .. MaxSerial, answer : Formats]
Decoders == [pc : {"idle", "ask", "wait", "decode"}, serial : 0 .. MaxSerial, got : Formats]

TypeOK ==
    /\ gate \in Gates /\ fmt \in Handoffs /\ actor \in Actors /\ decoder \in Decoders
    /\ lock \in {"none", "actor", "decoder"}
    /\ main \in {"idle", "formats", "submit"}
    /\ worker \in {"idle", "thaw", "runs", "freeze", "join"}
    /\ stop \in BOOLEAN

\* The codec goes on with a format it has itself offered in this very request,
\* chosen for the hardware of its own decoder, however requests that were cut
\* off, restarts that keep a request and late answers follow each other.
OwnFormat ==
    decoder.got # NoFormat => decoder.got = Format(decoder.serial, actor.key)

\* While a stream runs that nobody is stopping, both gates are open: the halves
\* of a freeze and of a thaw may interleave, but the stop that follows the
\* freeze sets them right (a stream whose formats stayed frozen would show
\* nothing and report nothing).
GatesAgree ==
    (worker = "runs" /\ ~stop /\ main = "idle") => (~gate.frozen /\ ~fmt.frozen)

\* A submission never waits for ever: the actor answers, or cancels before it
\* joins the decoder thread (video_pipeline.h:34), and a freeze wakes it.
WaitEnds == (decoder.pc = "wait") ~> (decoder.pc # "wait")

\* A stop ends with the session's threads joined, although the decoder lock,
\* the answer and the join wait for each other.
SessionEnds == (worker = "join") ~> (worker = "idle")
=============================================================================
