---------------------------- MODULE LaunchWatch ----------------------------
(***************************************************************************)
(* How the runtime learns that the game it streams has ended               *)
(* (services/launch_watch.h, runtime.c): the automatic completion of a     *)
(* launch and the completion of END_GAME, both from status broadcasts of   *)
(* the host that arrive over UDP and over the cloud: late, twice, in any   *)
(* order, or never.  Activity, frames and the host's own stop come over    *)
(* the session, in order.                                                  *)
(*                                                                         *)
(* Three actors: the runtime's worker, which polls and ends the stream;    *)
(* the session's threads until they are joined; the client's thread, which *)
(* hands over statuses all the time.  A step is one critical section of    *)
(* the runtime's lock, or the join.  Stamps have Width values and are      *)
(* compared as the code does, by the sign of their difference; no status   *)
(* is in flight for half of that.                                          *)
(*                                                                         *)
(* Abstracted: statuses of other hosts and instances, which are ignored;   *)
(* the clock of the runtime, so that a time limit may fall at any time.    *)
(* External: the host, its clock and its game, what the user looks at, and *)
(* the session, which says whether the host has asked for the stop.        *)
(***************************************************************************)
EXTENDS Naturals

CONSTANTS
    Width,         \* the number of stamps (2^32)
    FirstStamp,    \* the stamp at which the model begins
    MaxClock,      \* bound on the host's clock, less than Width \div 2
    MaxLaunches,   \* bound on the streams
    MaxFrames      \* bound on the frames counted

VARIABLES
    clock, running,           \* the host: its clock, and whether a game runs
    broadcast,                \* the statuses it has sent
    emptyAt,                  \* the clocks of the statuses without a game
    streaming, streams,      \* an established session
    displayed,                \* media.displayed_frames
    launch,                   \* sl_launch_watch
    endGame,                  \* sl_end_game_watch
    known,                    \* the clocks before this were known at the confirmation
    hostStop,                 \* IHS_SessionHostRequestedStop of the session
    stage,                    \* where the worker is: at work, stopping, joined
    completed,                \* host_completed of stop_session
    verdict                   \* what it reports of the stream

resultVars == <<hostStop, stage, completed, verdict>>
watchVars == <<clock, running, broadcast, emptyAt, streaming, streams, displayed,
               launch, endGame, known, resultVars>>

Stamp(c) == (FirstStamp + c) % Width

\* (int32_t)(a - b) > 0
Newer(a, b) == (a + Width - b) % Width \in 1 .. Width \div 2 - 1

\* The activity of the host's screen: 2 is a game, 3 the desktop.
Kinds == {0, 2, 3}

NoLaunch == [target |-> FALSE, stamp |-> 0, floor |-> 0, kind |-> 0, active |-> FALSE,
             played |-> FALSE, seen |-> FALSE, have |-> FALSE, empty |-> 0]
NoEndGame == [at |-> FALSE, stamp |-> 0, have |-> FALSE, empty |-> 0]

\* A completed launch; END_GAME completed, or the stop of the host; the time limit,
\* until the join says how it ends; a lost session; any other end of the stream,
\* also a request that could not be sent; a time limit without a completion.
Verdicts == {"none", "launch", "ended", "timeout", "lost", "closed", "failed"}

WatchTypeOK ==
    /\ clock \in 0 .. MaxClock /\ running \in BOOLEAN
    /\ broadcast \subseteq [clock : 0 .. MaxClock, running : BOOLEAN]
    /\ emptyAt \subseteq 0 .. MaxClock
    /\ streaming \in BOOLEAN /\ streams \in 0 .. MaxLaunches /\ displayed \in 0 .. MaxFrames
    /\ launch \in [target : BOOLEAN, stamp : 0 .. Width - 1, floor : 0 .. MaxFrames,
                   kind : Kinds, active : BOOLEAN, played : BOOLEAN, seen : BOOLEAN,
                   have : BOOLEAN, empty : 0 .. 2]
    /\ endGame \in [at : BOOLEAN, stamp : 0 .. Width - 1, have : BOOLEAN, empty : 0 .. 2]
    /\ known \in 0 .. MaxClock
    /\ hostStop \in BOOLEAN /\ stage \in {"run", "stop", "joined"} /\ completed \in BOOLEAN
    /\ verdict \in Verdicts

Init ==
    /\ clock = 0 /\ running = FALSE /\ broadcast = {} /\ emptyAt = {}
    /\ streaming = FALSE /\ streams = 0 /\ displayed = 0
    /\ launch = NoLaunch /\ endGame = NoEndGame /\ known = 0
    /\ hostStop = FALSE /\ stage = "run" /\ completed = FALSE /\ verdict = "none"

hostVars == <<clock, running, broadcast, emptyAt>>

-----------------------------------------------------------------------------
\* The host.

\* Its status at this moment of its clock; a status is sent with a stamp of its own.
Broadcast ==
    /\ clock < MaxClock
    /\ broadcast' = broadcast \union {[clock |-> clock, running |-> running]}
    /\ emptyAt' = IF running THEN emptyAt ELSE emptyAt \union {clock}
    /\ clock' = clock + 1
    /\ UNCHANGED <<running, streaming, streams, displayed, launch, endGame, known, resultVars>>

\* A game starts or ends, the target or another one.
Plays ==
    /\ running' = ~running
    /\ UNCHANGED <<clock, broadcast, emptyAt, streaming, streams, displayed, launch,
                   endGame, known, resultVars>>

\* It asks for the end of the stream, until the session's threads are joined.
HostStops ==
    /\ streaming /\ stage # "joined" /\ ~hostStop
    /\ hostStop' = TRUE
    /\ UNCHANGED <<hostVars, streaming, streams, displayed, launch, endGame, known, stage,
                   completed, verdict>>

-----------------------------------------------------------------------------
\* The runtime.

\* A stream of a game, or of the screen without a target; the watch starts afresh.
Start(target) ==
    /\ ~streaming /\ streams < MaxLaunches
    /\ streaming' = TRUE /\ streams' = streams + 1 /\ displayed' = 0
    /\ launch' = [NoLaunch EXCEPT !.target = target] /\ endGame' = NoEndGame
    /\ known' = 0
    /\ hostStop' = FALSE /\ verdict' = "none"
    /\ UNCHANGED <<clock, running, broadcast, emptyAt, stage, completed>>

\* sl_launch_activity; the screen shows the target only while a game runs, but it may
\* show the desktop or another game then.
Activity(kind, target) ==
    /\ streaming /\ stage # "joined"
    /\ target => kind = 2 /\ running
    /\ LET active == launch.target /\ target IN
       launch' = IF launch.kind = kind /\ launch.active = target THEN launch
                 ELSE [launch EXCEPT !.kind = kind, !.active = active,
                                     !.floor = displayed, !.empty = 0]
    /\ UNCHANGED <<hostVars, streaming, streams, displayed, endGame, known, resultVars>>

\* The sample of the media counters, sl_launch_frame.
Sample ==
    /\ streaming /\ stage = "run"
    /\ \E n \in displayed .. MaxFrames :
          /\ displayed' = n
          /\ launch' = [launch EXCEPT !.played = @ \/ (launch.active /\ n > launch.floor)]
    /\ UNCHANGED <<hostVars, streaming, streams, endGame, known, resultVars>>

Bump(n) == IF n < 2 THEN n + 1 ELSE n

\* As if a status that is late or arrives twice counted again.
AnyStatus(stamp) == TRUE

\* sl_launch_status
LaunchFresh(stamp) == ~launch.have \/ Newer(stamp, launch.stamp)

LaunchStatus(isRunning, stamp) ==
    IF ~LaunchFresh(stamp) THEN launch
    ELSE LET seen == launch.seen \/ (launch.active /\ launch.played /\ isRunning) IN
         [launch EXCEPT !.have = TRUE, !.stamp = stamp, !.seen = seen,
                        !.empty = IF ~isRunning /\ launch.kind = 3 /\ launch.played /\ seen
                                  THEN Bump(@) ELSE 0]

\* sl_end_game_status: the first stamp is only a reference.
EndFresh(stamp) == ~endGame.have \/ Newer(stamp, endGame.stamp)

EndStatus(isRunning, stamp) ==
    IF ~endGame.at \/ ~EndFresh(stamp) THEN endGame
    ELSE [endGame EXCEPT !.have = TRUE, !.stamp = stamp,
                         !.empty = IF endGame.have /\ ~isRunning THEN Bump(@) ELSE 0]

\* observe_launch_status_locked, for any status that was ever sent.
Observe(s) ==
    /\ streaming
    /\ launch' = LaunchStatus(s.running, Stamp(s.clock))
    /\ endGame' = EndStatus(s.running, Stamp(s.clock))
    /\ UNCHANGED <<hostVars, streaming, streams, displayed, known, resultVars>>

\* A status without a stamp or without the field breaks the series.
ObserveUnstamped ==
    /\ streaming
    /\ launch' = [launch EXCEPT !.empty = 0] /\ endGame' = [endGame EXCEPT !.empty = 0]
    /\ UNCHANGED <<hostVars, streaming, streams, displayed, known, resultVars>>

LaunchDone ==
    /\ launch.target /\ launch.kind = 3 /\ launch.played /\ launch.seen
    /\ launch.empty = 2

\* sl_end_game_poll: the stop of the host, or two statuses without a game.
EndDone == endGame.at /\ (hostStop \/ endGame.empty = 2)

\* The worker begins to end the stream: stop_session until the join.
Ends(how) ==
    /\ streaming /\ stage = "run"
    /\ stage' = "stop" /\ verdict' = how
    /\ UNCHANGED <<hostVars, streaming, streams, displayed, launch, hostStop, completed>>

\* The user confirms END_GAME during an established stream; when the request cannot
\* be sent, the stream ends at once.
EndGame ==
    /\ streaming /\ stage = "run" /\ ~endGame.at
    /\ endGame' = [at |-> TRUE, stamp |-> launch.stamp, have |-> launch.have, empty |-> 0]
    /\ known' = IF launch.have
                THEN 1 + CHOOSE c \in 0 .. MaxClock : Stamp(c) = launch.stamp ELSE 0
    /\ \/ /\ displayed > 0
          /\ UNCHANGED <<hostVars, streaming, streams, displayed, launch, resultVars>>
       \/ Ends("closed")

\* The worker's look at both watches in each of its turns.
Poll ==
    /\ \/ EndDone /\ Ends("ended")
       \/ ~EndDone /\ LaunchDone /\ Ends("launch")
       \/ endGame.at /\ ~EndDone /\ ~LaunchDone /\ Ends("timeout")
    /\ UNCHANGED <<endGame, known>>

\* The session is over; or the user, an error or another request ends it.
Finished == Ends("lost") /\ UNCHANGED <<endGame, known>>
Closed == Ends("closed") /\ UNCHANGED <<endGame, known>>

\* stop_session joins the session's threads, and then asks what the host has said.
Join ==
    /\ stage = "stop" /\ stage' = "joined"
    /\ completed' = hostStop
    /\ UNCHANGED <<hostVars, streaming, streams, displayed, launch, endGame, known, hostStop,
                   verdict>>

\* Its end under the lock: what the statuses have said meanwhile counts as well, and
\* either wins over the time limit and over the loss of a session with a picture.
Stopped ==
    LET done == completed \/ (endGame.at /\ endGame.empty = 2) IN
    /\ stage = "joined" /\ stage' = "run"
    /\ verdict' = CASE verdict = "timeout" -> IF done THEN "ended" ELSE "failed"
                     [] verdict = "lost" /\ done /\ displayed > 0 -> "ended"
                     [] OTHER -> verdict
    /\ endGame' = NoEndGame /\ streaming' = FALSE /\ completed' = FALSE
    /\ UNCHANGED <<hostVars, streams, displayed, launch, known, hostStop>>

-----------------------------------------------------------------------------
Next ==
    \/ Broadcast \/ Plays
    \/ HostStops
    \/ \E target \in BOOLEAN : Start(target)
    \/ \E kind \in Kinds, target \in BOOLEAN : Activity(kind, target)
    \/ Sample
    \/ \E s \in broadcast : Observe(s)
    \/ ObserveUnstamped
    \/ EndGame \/ Poll \/ Finished \/ Closed \/ Join \/ Stopped

Spec == Init /\ [][Next]_watchVars

-----------------------------------------------------------------------------
\* What is reported of a stream is true.  A completed launch: the host was without a
\* game at two moments after one at which a game was running.  An ended game: the
\* host asked for the stop, or was without a game at two moments that are newer than
\* all that was known when the user confirmed, however late, often or out of order
\* the statuses arrive (launch_watch.h:33, 66, 84).  A failure of END_GAME: the host
\* has not asked for the stop, although it may do so after the worker has seen the
\* time limit, as long as the session is not joined (runtime.c:2703).
CompletionIsReal ==
    /\ verdict = "launch" =>
          \E c, d \in emptyAt : c < d /\ \E s \in broadcast : s.running /\ s.clock < c
    /\ verdict = "ended" => hostStop \/ \E c, d \in emptyAt : known <= c /\ c < d
    /\ verdict = "failed" => ~hostStop
=============================================================================
