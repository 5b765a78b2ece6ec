----------------------------- MODULE MCServices -----------------------------
(***************************************************************************)
(* Five services that share no state with one another, checked in one run: *)
(* the first step chooses the one that acts, so that the state space is    *)
(* the sum of theirs and not their product.                                *)
(***************************************************************************)
EXTENDS Updater, FiniteSets, TLC

CONSTANTS
    Resolvers, Servers, WireLimit, MaxScopes, QueryBudget, Pace, Retry,
    Games, Covers, Titles, MaxPauses,
    SignalLimit, ChannelLimit, FifoLimit, MaxSignals, MaxSessions,
    Width, FirstStamp, MaxClock, MaxLaunches, MaxFrames

VARIABLES
    dnsScope, lookup, elapsed, legs, queue, wire, pause, stopped,
    slots, loader, loading, drawer, paused, generation, artStop,
    sns, sdkHandle, attempted, prep, linked, signals, made, pending, broken, net, suspended,
    cloud, opening, fifo, sessions, sent, pump, closing, rejects, rx, waiter,
    clock, running, broadcast, emptyAt, streaming, streams, displayed, launch, endGame, known,
    hostStop, stage, completed, verdict,
    part           \* the service that acts

D == INSTANCE DnsPolicy
A == INSTANCE Artwork
S == INSTANCE SignalLink
W == INSTANCE LaunchWatch

dnsVars == <<dnsScope, lookup, elapsed, legs, queue, wire, pause, stopped>>
artVars == <<slots, loader, loading, drawer, paused, generation, artStop>>
linkVars == <<sns, sdkHandle, attempted, prep, linked, signals, made, pending, broken, net,
              suspended, cloud, opening, fifo, sessions, sent, pump, closing, rejects, rx,
              waiter>>
watchVars == <<clock, running, broadcast, emptyAt, streaming, streams, displayed, launch, endGame,
               known, hostStop, stage, completed, verdict>>
servicesVars == <<updaterVars, dnsVars, artVars, linkVars, watchVars, part>>

\* What is assumed of the constants: the bounds and limits are numbers, each with
\* room for one, and the clock of the host stays within half of the stamps.
ASSUME ArtworkAssumption == MaxPauses \in Nat /\ "nothing" \notin Games

ASSUME LinkAssumption ==
    /\ SignalLimit \in Nat /\ ChannelLimit \in Nat /\ FifoLimit \in Nat \ {0}
    /\ MaxSignals \in Nat /\ MaxSessions \in Nat

ASSUME WatchAssumption ==
    /\ Width \in Nat \ {0} /\ FirstStamp \in 0 .. Width - 1
    /\ MaxClock \in Nat /\ MaxClock < Width \div 2
    /\ MaxLaunches \in Nat /\ MaxFrames \in Nat

ASSUME DnsAssumption ==
    /\ IsFiniteSet(Resolvers) /\ Servers \in Nat \ {0} /\ WireLimit \in Nat \ {0}
    /\ MaxScopes \in Nat /\ QueryBudget \in Nat \ {0} /\ Pace \in Nat /\ Retry \in Nat

ServicesInit ==
    /\ Init /\ D!Init /\ A!Init /\ S!Init /\ W!Init
    /\ part \in {"updater", "dns", "artwork", "link", "watch"}
    /\ part = "updater" \/ Len(targets) = 1

ServicesNext ==
    /\ \/ /\ part = "updater" /\ Next
          /\ UNCHANGED <<dnsVars, artVars, linkVars, watchVars>>
       \/ /\ part = "dns" /\ D!Next
          /\ UNCHANGED <<updaterVars, artVars, linkVars, watchVars>>
       \/ /\ part = "artwork" /\ A!Next
          /\ UNCHANGED <<updaterVars, dnsVars, linkVars, watchVars>>
       \/ /\ part = "link" /\ S!Next
          /\ UNCHANGED <<updaterVars, dnsVars, artVars, watchVars>>
       \/ /\ part = "watch" /\ W!Next
          /\ UNCHANGED <<updaterVars, dnsVars, artVars, linkVars>>
    /\ UNCHANGED part

ServicesSpec == ServicesInit /\ [][ServicesNext]_servicesVars

Symmetry == Permutations(Resolvers)

-----------------------------------------------------------------------------
\* The type invariants of the five.
TypeOK == UpdaterTypeOK /\ D!DnsTypeOK /\ A!ArtTypeOK /\ S!LinkTypeOK /\ W!WatchTypeOK

\* The queue and the sockets of the resolver are accounted for.
QueueAccounted == D!QueueAccounted
\* Every server is asked before a lookup gives up.
EveryLegStarts == D!EveryLegStarts

\* A picture belongs to the id it is shown for.
PictureIsOwn == A!PictureIsOwn

\* Signals leave in the SDK's order, each once.
SignalsInOrder == S!SignalsInOrder

\* Neither the artwork worker nor the player sleeps on what it waits for.
NoWakeUpLost == A!SleepsForAReason /\ S!DatagramWakes

\* What is reported of a stream is true.
CompletionIsReal == W!CompletionIsReal
=============================================================================
