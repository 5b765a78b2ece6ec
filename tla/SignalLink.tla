----------------------------- MODULE SignalLink -----------------------------
(***************************************************************************)
(* The internet transport of one stream (sns_backend.cpp with              *)
(* sns_connection_policy.h) and the path its rendezvous signals take: the  *)
(* SDK's queue, the signal channel (stream_bridge.c), the frames queued on *)
(* the cloud connection (remote_connection.c, remote_protocol.c) and the   *)
(* socket, across reconnects of the cloud session.                         *)
(*                                                                         *)
(* Three actors: the runtime's worker, which calls sl_sns_update and owns  *)
(* the connection; the SDK, which may hand over a signal whenever one of   *)
(* its functions runs; the player's thread, which waits for datagrams.  A  *)
(* step is one critical section of Queues::mutex, one store of the state,  *)
(* which is an atomic outside that mutex, or a stretch of the worker that  *)
(* no other thread can see.                                                *)
(*                                                                         *)
(* Abstracted: bytes, so a signal is its number in the SDK's order and a   *)
(* frame is the session it was framed for and its signals; resolving and   *)
(* TLS are one state; clocks, so that a deadline may fall at any time.     *)
(* External: the SDK's connection, the socket and the cloud.               *)
(***************************************************************************)
EXTENDS Naturals, Sequences, Functions

CONSTANTS
    SignalLimit,   \* SIGNAL_COUNT of the SDK's queue
    ChannelLimit,  \* QUEUE_COUNT of the signal channel
    FifoLimit,     \* FIFO_LIMIT of the cloud connection
    MaxSignals,    \* bound on the signals
    MaxSessions    \* bound on the cloud sessions

VARIABLES
    sns, sdkHandle, attempted,   \* the transport's state, its SDK handle, connection_attempted
    prep,                     \* config_ready, signaling_ready, session_started
    linked, signals, made,    \* Queues: owner and signals; how many the SDK made
    pending, broken,          \* the signal channel: its queue, and whether it failed
    net, suspended,           \* the cloud connection
    cloud, opening,           \* its protocol: session, opening
    fifo, sessions,           \* its frames; how many sessions there were
    sent,                     \* the signals that were written to a socket
    pump, closing, rejects,   \* where the worker is
    rx, waiter                \* Queues: rx; the player's thread

sdkVars == <<linked, signals, made>>
cloudVars == <<net, suspended, cloud, opening, fifo, sessions, sent>>
channelVars == <<pending, broken>>
linkVars == <<sns, sdkHandle, attempted, prep, sdkVars, channelVars, cloudVars, pump, closing,
              rejects, rx, waiter>>

Terminal == {"FAILED", "CLOSED"}
Frame == [kind : {"upgrade", "open", "ping", "signals"}, session : 0 .. MaxSessions,
          body : UNION {[1 .. n -> 1 .. MaxSignals] : n \in 0 .. ChannelLimit}]
Control(kind) == [kind |-> kind, session |-> 0, body |-> <<>>]

LinkTypeOK ==
    /\ sns \in {"CONNECTING", "CONNECTED"} \union Terminal
    /\ sdkHandle \in BOOLEAN /\ attempted \in BOOLEAN
    /\ prep \in {"configuration", "signaling", "ready", "media"}
    /\ linked \in BOOLEAN /\ Len(signals) <= SignalLimit /\ made \in 0 .. MaxSignals
    /\ Len(pending) <= ChannelLimit /\ broken \in BOOLEAN
    /\ net \in {"IDLE", "TLS", "UPGRADE", "WEBSOCKET"} /\ suspended \in BOOLEAN
    /\ cloud \in 0 .. sessions /\ opening \in BOOLEAN
    /\ Len(fifo) <= FifoLimit /\ \A i \in DOMAIN fifo : fifo[i] \in Frame
    /\ sessions \in 0 .. MaxSessions
    /\ sent \subseteq 1 .. MaxSignals
    /\ pump \in {"idle", "connect", "check", "swap", "bridge", "drain", "receive", "flush",
                 "ready", "rx", "destroyed"}
    /\ closing \in {"no", "unlink", "store", "reject", "clear"} /\ rejects \in BOOLEAN
    /\ rx \in 0 .. 1 /\ waiter \in {"out", "testing", "waiting"}

Init ==
    /\ sns = "CONNECTING" /\ sdkHandle = FALSE /\ attempted = FALSE /\ prep = "configuration"
    /\ linked = TRUE /\ signals = <<>> /\ made = 0
    /\ pending = <<>> /\ broken = FALSE
    /\ net = "IDLE" /\ suspended = FALSE
    /\ cloud = 0 /\ opening = FALSE /\ fifo = <<>> /\ sessions = 0
    /\ sent = {}
    /\ pump = "idle" /\ closing = "no" /\ rejects = FALSE
    /\ rx = 0 /\ waiter = "out"

\* The player holds Queues::mutex between its test and its sleep.
MutexFree == waiter # "testing"

Woken == IF waiter = "waiting" THEN "out" ELSE waiter

-----------------------------------------------------------------------------
\* The SDK and the player.

\* SendSignal refuses when the owner is gone or the queue is full.
SendSignal ==
    /\ attempted /\ MutexFree /\ made < MaxSignals
    /\ linked /\ Len(signals) < SignalLimit
    /\ made' = made + 1 /\ signals' = Append(signals, made + 1)
    /\ UNCHANGED <<sns, sdkHandle, attempted, prep, linked, channelVars, cloudVars, pump,
                   closing, rejects, rx, waiter>>

Arrived == rx > 0 \/ sns \in Terminal

Player(next) ==
    /\ prep = "media" /\ pump # "destroyed" /\ waiter' = next
    /\ UNCHANGED <<sns, sdkHandle, attempted, prep, sdkVars, channelVars, cloudVars, pump,
                   closing, rejects>>

\* wait_datagram and receive_datagram test, and sleep until a datagram, the end or
\* the timeout.
TestDatagram == waiter = "out" /\ ~Arrived /\ Player("testing") /\ UNCHANGED rx
Sleep == waiter = "testing" /\ Player("waiting") /\ UNCHANGED rx
WaitExpires == waiter = "waiting" /\ Player("out") /\ UNCHANGED rx
TakeDatagram ==
    waiter = "out" /\ rx > 0 /\ sns \notin Terminal /\ Player("out") /\ rx' = rx - 1

-----------------------------------------------------------------------------
\* Closing: state, signalling, handle, state again, datagrams and wake-up.

Working(at) == pump = at /\ closing = "no"

\* close_backend(SL_SNS_FAILED): the state first.
Fails(next) ==
    /\ sns' = "FAILED" /\ closing' = "unlink" /\ rejects' = FALSE /\ pump' = next
    /\ UNCHANGED <<sdkHandle, attempted>>

\* The same without that store: CLOSED, or FAILED after it (RejectSnsSignal).
Closes(reject, next) ==
    /\ closing' = "unlink" /\ rejects' = reject /\ pump' = next
    /\ UNCHANGED <<sns, sdkHandle, attempted>>

Unlink ==
    /\ closing = "unlink" /\ MutexFree /\ linked' = FALSE /\ closing' = "store"
    /\ UNCHANGED <<sns, sdkHandle, attempted, prep, signals, made, channelVars, cloudVars,
                   pump, rejects, rx, waiter>>

StoreClosed ==
    /\ closing = "store"
    /\ sdkHandle' = FALSE
    /\ sns' = IF sns = "FAILED" THEN "FAILED" ELSE "CLOSED"
    /\ closing' = IF rejects THEN "reject" ELSE "clear"
    /\ rejects' = FALSE
    /\ UNCHANGED <<attempted, prep, sdkVars, channelVars, cloudVars, pump, rx, waiter>>

\* RejectSnsSignal: a rejected signal ends the transport as failed.
StoreFailed ==
    /\ closing = "reject" /\ sns' = "FAILED" /\ closing' = "clear"
    /\ UNCHANGED <<sdkHandle, attempted, prep, sdkVars, channelVars, cloudVars, pump, rejects,
                   rx, waiter>>

\* clear_datagrams: the wake-up follows the store and a passage through the mutex.
ClearDatagrams ==
    /\ closing = "clear" /\ MutexFree
    /\ rx' = 0 /\ waiter' = Woken /\ closing' = "no"
    /\ UNCHANGED <<sns, sdkHandle, attempted, prep, sdkVars, channelVars, cloudVars, pump,
                   rejects>>

-----------------------------------------------------------------------------
\* sl_sns_update.

Goes(next) == pump' = next /\ UNCHANGED <<sns, sdkHandle, attempted, closing, rejects>>

\* The preparation budget, the configuration and the bridge.
Prepare ==
    /\ Working("idle")
    /\ \/ prep # "media" /\ sns = "CONNECTING" /\ Fails("idle") /\ UNCHANGED prep
       \/ prep = "configuration" /\ sns = "CONNECTING" /\ Fails("connect") /\ UNCHANGED prep
       \/ prep = "configuration" /\ prep' = "signaling" /\ Goes("connect")
       \/ Goes("connect") /\ UNCHANGED prep
    /\ UNCHANGED <<sdkVars, channelVars, cloudVars, rx, waiter>>

BeginConnection ==
    /\ Working("connect")
    /\ IF prep = "media" /\ ~attempted /\ sns = "CONNECTING"
       THEN /\ attempted' = TRUE
            /\ \/ sdkHandle' = TRUE /\ pump' = "check" /\ UNCHANGED <<sns, closing, rejects>>
               \/ /\ sns' = "FAILED" /\ closing' = "unlink" /\ pump' = "check"
                  /\ UNCHANGED <<sdkHandle, rejects>>
       ELSE Goes("check")
    /\ UNCHANGED <<prep, sdkVars, channelVars, cloudVars, rx, waiter>>

Stores(state, valid, next) ==
    /\ sns' = state /\ sdkHandle' = valid /\ pump' = next
    /\ closing' = IF state \in Terminal THEN "clear" ELSE "no"
    /\ UNCHANGED <<attempted, rejects>>

\* check_connection: what the SDK says of the handle.
CheckConnection(next) ==
    IF ~attempted THEN Goes(next)
    ELSE IF ~sdkHandle THEN Stores(IF sns = "FAILED" THEN "FAILED" ELSE "CLOSED", FALSE, next)
    ELSE \/ sns = "CONNECTED" /\ Goes(next)                  \* checked within this second
         \/ Stores("FAILED", FALSE, next)                    \* no info, or no status
         \/ Stores("CONNECTING", TRUE, next)
         \/ Stores("CONNECTED", TRUE, next)
         \/ Fails(next)                                      \* problem detected locally
         \/ Closes(FALSE, next)                              \* closed by the peer

Check ==
    /\ Working("check") /\ CheckConnection("swap")
    /\ UNCHANGED <<prep, sdkVars, channelVars, cloudVars, rx, waiter>>

\* The SDK's queue moves to the channel; when that is full, by their number or by
\* their bytes, or has failed, the stream fails with the first signal it refuses.
SwapSignals ==
    /\ Working("swap") /\ MutexFree
    /\ signals' = <<>>
    /\ \E room \in IF broken THEN {Len(pending)} ELSE Len(pending) .. ChannelLimit :
       LET all == pending \o signals IN
       /\ pending' = IF Len(all) <= room THEN all ELSE SubSeq(all, 1, room)
       /\ IF Len(all) <= room THEN Goes("bridge") ELSE Fails("bridge")
    /\ UNCHANGED <<prep, linked, made, broken, cloudVars, rx, waiter>>

-----------------------------------------------------------------------------
\* The cloud connection.

\* As if only the connection were replaced: frames of the dead session stay.
FramesKept(next) ==
    /\ net' = next /\ UNCHANGED fifo
    /\ cloud' = 0 /\ opening' = FALSE

\* clear_easy with sl_remote_close: nothing of a dead session is kept.
Disconnected(next) ==
    /\ net' = next /\ fifo' = <<>>
    /\ cloud' = 0 /\ opening' = FALSE

FailConnection == Disconnected("IDLE") /\ UNCHANGED <<suspended, sessions, sent>>

Needed == sns \in {"CONNECTING", "CONNECTED"} \/ pending # <<>>

\* sl_stream_bridge_update and the beginning of sl_remote_connection_update.
BridgeUpdate ==
    /\ Working("bridge")
    /\ CASE prep = "configuration" -> Goes("ready") /\ UNCHANGED cloudVars
         [] prep # "configuration" /\ ~Needed ->
                /\ Goes("ready")
                /\ suspended' = TRUE
                /\ IF suspended THEN UNCHANGED <<net, fifo, cloud, opening>>
                                ELSE Disconnected("IDLE")
                /\ UNCHANGED <<sessions, sent>>
         [] OTHER ->
                /\ Goes("drain")
                /\ suspended' = FALSE
                /\ net' = IF net = "IDLE" THEN "TLS" ELSE net
                /\ UNCHANGED <<fifo, cloud, opening, sessions, sent>>
    /\ UNCHANGED <<prep, sdkVars, channelVars, rx, waiter>>

\* Resolving, directory and TLS, candidate by candidate, end with the request for
\* the upgrade, or in another try later.
Connect ==
    /\ Working("drain") /\ net = "TLS"
    /\ \/ Goes("flush") /\ UNCHANGED cloudVars
       \/ /\ net' = "UPGRADE" /\ fifo' = <<Control("upgrade")>> /\ Goes("drain")
          /\ UNCHANGED <<suspended, cloud, opening, sessions, sent>>
       \/ Goes("flush") /\ FailConnection
    /\ UNCHANGED <<prep, sdkVars, channelVars, rx, waiter>>

\* What the socket takes of the FIFO, in order.
Bodies(frames) == UNION {Range(frames[i].body) : i \in DOMAIN frames}

Lost == \/ net = "UPGRADE" /\ Disconnected("TLS") /\ UNCHANGED <<suspended, sessions, sent>>
        \/ FailConnection

Drain ==
    /\ Working("drain") /\ net \in {"UPGRADE", "WEBSOCKET"}
    /\ \/ \E n \in 0 .. Len(fifo) :
             /\ sent' = sent \union Bodies(SubSeq(fifo, 1, n))
             /\ fifo' = SubSeq(fifo, n + 1, Len(fifo))
             /\ Goes("receive") /\ UNCHANGED <<net, suspended, cloud, opening, sessions>>
       \/ Lost /\ Goes("flush")
    /\ UNCHANGED <<prep, sdkVars, channelVars, rx, waiter>>

\* What has arrived, one frame after the other.
Reception(next) ==
    /\ Working("receive") /\ Goes(next)
    /\ UNCHANGED <<prep, sdkVars, channelVars, rx, waiter>>

\* Nothing more, an error, a missed pong, or the deadline of a session that never
\* came.
ReceiveNothing ==
    /\ Reception("flush")
    /\ UNCHANGED cloudVars \/ Lost

ReceiveUpgrade ==
    /\ Reception("receive") /\ net = "UPGRADE" /\ fifo = <<>>
    /\ net' = "WEBSOCKET" /\ opening' = TRUE /\ fifo' = <<Control("open")>>
    /\ UNCHANGED <<suspended, cloud, sessions, sent>>

\* The session, or its refusal, which fails the connection in the same update.
ReceiveSession ==
    /\ net = "WEBSOCKET" /\ opening /\ \A i \in DOMAIN fifo : fifo[i].kind # "open"
    /\ \/ /\ Reception("receive") /\ sessions < MaxSessions
          /\ sessions' = sessions + 1 /\ cloud' = sessions + 1 /\ opening' = FALSE
          /\ UNCHANGED <<net, suspended, fifo, sent>>
       \/ Reception("flush") /\ FailConnection

\* The peer's ping is answered, and our own is sent, through the same FIFO; a
\* control frame that finds no place fails the connection.
ReceivePing ==
    /\ net = "WEBSOCKET"
    /\ \/ /\ Reception("receive") /\ Len(fifo) < FifoLimit
          /\ fifo' = Append(fifo, Control("ping"))
          /\ UNCHANGED <<net, suspended, cloud, opening, sessions, sent>>
       \/ Reception("flush") /\ Len(fifo) = FifoLimit /\ FailConnection

\* A signal of the host: the SDK takes it, or the transport and the channel fail;
\* the connection is checked at once.
ReceiveSignal ==
    /\ Working("receive") /\ net = "WEBSOCKET" /\ cloud # 0 /\ ~broken
    /\ \/ CheckConnection("receive") /\ UNCHANGED broken
       \/ Closes(TRUE, "receive") /\ broken' = TRUE
    /\ UNCHANGED <<prep, sdkVars, pending, cloudVars, rx, waiter>>

Ready == cloud # 0

\* sl_signal_channel_flush: batches of what is pending, each one removed only when
\* its frame has a place.
Flush ==
    /\ Working("flush")
    /\ IF pending # <<>> /\ ~broken /\ Ready /\ net = "WEBSOCKET" /\ Len(fifo) < FifoLimit
       THEN \E n \in 1 .. Len(pending) :
               /\ fifo' = Append(fifo, [kind |-> "signals", session |-> cloud,
                                        body |-> SubSeq(pending, 1, n)])
               /\ pending' = SubSeq(pending, n + 1, Len(pending))
               /\ Goes("flush")
       ELSE Goes("ready") /\ UNCHANGED <<fifo, pending>>
    /\ UNCHANGED <<prep, sdkVars, broken, net, suspended, cloud, opening, sessions, sent, rx,
                   waiter>>

\* signaling_ready
BecomeReady ==
    /\ Working("ready")
    /\ prep' = IF prep = "signaling" /\ Ready THEN "ready" ELSE prep
    /\ Goes(IF sns = "CONNECTED" THEN "rx" ELSE "idle")
    /\ UNCHANGED <<sdkVars, channelVars, cloudVars, rx, waiter>>

\* Datagrams of the SDK; when there is no room the stream fails.
ReceiveMessages ==
    /\ Working("rx") /\ MutexFree
    /\ \/ rx < 1 /\ rx' = rx + 1 /\ waiter' = Woken /\ Goes("idle")
       \/ rx = 1 /\ waiter' = Woken /\ Fails("idle") /\ UNCHANGED rx
       \/ Goes("idle") /\ UNCHANGED <<rx, waiter>>
    /\ UNCHANGED <<prep, sdkVars, channelVars, cloudVars>>

-----------------------------------------------------------------------------
\* The owner between two updates.

StartSession ==
    /\ Working("idle") /\ prep = "ready" /\ sns \in {"CONNECTING", "CONNECTED"}
    /\ prep' = "media" /\ Goes("idle")
    /\ UNCHANGED <<sdkVars, channelVars, cloudVars, rx, waiter>>

\* sl_sns_destroy, after the player's thread was joined.
Destroy ==
    /\ Working("idle") /\ waiter = "out"
    /\ linked' = FALSE /\ Closes(FALSE, "destroyed")
    /\ UNCHANGED <<prep, signals, made, channelVars, cloudVars, rx, waiter>>

Next ==
    \/ SendSignal \/ TestDatagram \/ Sleep \/ WaitExpires \/ TakeDatagram
    \/ Unlink \/ StoreClosed \/ StoreFailed \/ ClearDatagrams
    \/ Prepare \/ BeginConnection \/ Check \/ SwapSignals \/ BridgeUpdate
    \/ Connect \/ Drain \/ ReceiveNothing \/ ReceiveUpgrade \/ ReceiveSession \/ ReceivePing
    \/ ReceiveSignal \/ Flush \/ BecomeReady \/ ReceiveMessages
    \/ StartSession \/ Destroy

Spec == Init /\ [][Next]_linkVars

-----------------------------------------------------------------------------
Increasing(s) == \A i, j \in DOMAIN s : i < j => s[i] < s[j]
Before(a, b) == \A x \in a, y \in b : x < y

\* What has not left yet, in the order in which it will.
Line == [i \in DOMAIN fifo |-> fifo[i].body] \o <<pending, signals>>

\* Rendezvous signals leave in the SDK's order and none leaves twice, although
\* frames are lost with their session and the cloud session is replaced: the line
\* is in that order, and all of it comes after what has left.  A frame that waits
\* is framed for the session that is open (stream_bridge.c:81, 101).
SignalsInOrder ==
    /\ \A i \in DOMAIN Line : Increasing(Line[i]) /\ Before(sent, Range(Line[i]))
    /\ \A i, j \in DOMAIN Line : i < j => Before(Range(Line[i]), Range(Line[j]))
    /\ \A i \in DOMAIN fifo :
          fifo[i].kind = "signals" => net = "WEBSOCKET" /\ fifo[i].session = cloud

\* The player never sleeps on a datagram that is there or on a transport that has
\* ended, unless its wake-up is on the way: the state is stored outside the mutex
\* that the sleeper tests it under (sns_backend.cpp:204, 842).
DatagramWakes ==
    waiter = "waiting" => (rx = 0 /\ sns \notin Terminal) \/ closing # "no"
=============================================================================
