----------------------------- MODULE DnsPolicy -----------------------------
(***************************************************************************)
(* The resolver every worker thread shares (dns_policy.c): the scopes that *)
(* make a lookup cancellable, the FIFO of wire queries with its limit and  *)
(* pacing, and the collection loop of a lookup.                            *)
(*                                                                         *)
(* A lookup asks every configured server, one leg each.  A step is one     *)
(* critical section of the policy's lock or one atomic access.  Time is    *)
(* counted in ticks; every pass of a live lookup over its legs fits into   *)
(* one tick (the code sleeps 1 ms between passes, the shortest budget is   *)
(* 25 ms).  A leg's clock starts with its first admission.                 *)
(*                                                                         *)
(* Abstracted: addresses and their merging.  External: the name servers,   *)
(* the sockets, and when a caller or another thread cancels.               *)
(***************************************************************************)
EXTENDS Naturals, Sequences, FiniteSets

CONSTANTS
    Resolvers,     \* the threads that resolve
    Servers,       \* SL_DNS_SERVERS
    WireLimit,     \* SL_DNS_WIRE_LIMIT
    MaxScopes,     \* MAX_SCOPES
    QueryBudget,   \* QUERY_BUDGET_MS, in ticks
    Pace,          \* the pause between two starts, in ticks
    Retry          \* the pause after a local shortage, in ticks

VARIABLES
    dnsScope,      \* per thread: its scope, if any, and whether it is cancelled
    lookup,        \* per thread: where its lookup is, and the leg it looks at
    elapsed,       \* per thread: the ticks since its lookup began
    legs,          \* per thread and server: the query
    queue,         \* the FIFO of the legs that wait for admission
    wire,          \* wire_queries
    pause,         \* ticks until next_query_start
    stopped        \* the process is ending

dnsVars == <<dnsScope, lookup, elapsed, legs, queue, wire, pause, stopped>>

Legs == 1 .. Servers

\* As if the time in the queue counted against the provider's own budget.
ProviderBudget == QueryBudget

\* Every queued leg of every scope, WireLimit at a time, and one wave more.
CollectionBudget ==
    ((MaxScopes * Servers + WireLimit - 1) \div WireLimit + 1) * QueryBudget

Leg == [state : {"none", "queued", "active", "success", "failed"},
        started : BOOLEAN,                  \* first_start is set
        age : 0 .. QueryBudget,             \* ticks since first_start
        wait : 0 .. Retry,                  \* ticks until next_start
        held : BOOLEAN]

NoLeg == [state |-> "none", started |-> FALSE, age |-> 0, wait |-> 0, held |-> FALSE]

DnsTypeOK ==
    /\ dnsScope \in [Resolvers -> [kind : {"none", "token", "temporary"}, cancelled : BOOLEAN]]
    /\ lookup \in [Resolvers -> [at : {"idle", "enqueue", "pass", "queue", "begin", "settle",
                                      "sleep", "cleanup"}, leg : Legs]]
    /\ elapsed \in [Resolvers -> 0 .. CollectionBudget]
    /\ legs \in [Resolvers -> [Legs -> Leg]]
    /\ queue \in Seq(Resolvers \X Legs) /\ Len(queue) <= Cardinality(Resolvers) * Servers
    /\ wire \in 0 .. WireLimit /\ pause \in 0 .. Pace
    /\ stopped \in BOOLEAN

NoScope == [kind |-> "none", cancelled |-> FALSE]

Init ==
    /\ dnsScope = [t \in Resolvers |-> NoScope]
    /\ lookup = [t \in Resolvers |-> [at |-> "idle", leg |-> 1]]
    /\ elapsed = [t \in Resolvers |-> 0]
    /\ legs = [t \in Resolvers |-> [i \in Legs |-> NoLeg]]
    /\ queue = <<>> /\ wire = 0 /\ pause = 0 /\ stopped = FALSE

-----------------------------------------------------------------------------
\* The scopes.

ScopeCount == Cardinality({t \in Resolvers : dnsScope[t].kind # "none"})

ScopeFree == ScopeCount < MaxScopes /\ ~stopped

At(t, where) == lookup[t].at = where
ThisLeg(t) == legs[t][lookup[t].leg]

Goes(t, where, i) == lookup' = [lookup EXCEPT ![t] = [at |-> where, leg |-> i]]

\* sl_dns_policy_begin: a scope that the limit refuses leaves the thread without.
Begin(t) ==
    /\ At(t, "idle") /\ dnsScope[t].kind = "none"
    /\ ScopeFree
    /\ dnsScope' = [dnsScope EXCEPT ![t] = [kind |-> "token", cancelled |-> FALSE]]
    /\ UNCHANGED <<lookup, elapsed, legs, queue, wire, pause, stopped>>

End(t) ==
    /\ At(t, "idle") /\ dnsScope[t].kind = "token"
    /\ dnsScope' = [dnsScope EXCEPT ![t] = NoScope]
    /\ UNCHANGED <<lookup, elapsed, legs, queue, wire, pause, stopped>>

\* A temporary scope has token 0, which cancel() refuses.
Cancel(t) ==
    /\ dnsScope[t].kind = "token" /\ ~dnsScope[t].cancelled
    /\ dnsScope' = [dnsScope EXCEPT ![t].cancelled = TRUE]
    /\ UNCHANGED <<lookup, elapsed, legs, queue, wire, pause, stopped>>

StopAll ==
    /\ ~stopped /\ stopped' = TRUE
    /\ dnsScope' = [t \in Resolvers |->
                      [dnsScope[t] EXCEPT !.cancelled = @ \/ dnsScope[t].kind # "none"]]
    /\ UNCHANGED <<lookup, elapsed, legs, queue, wire, pause>>

-----------------------------------------------------------------------------
\* sl_dns_policy_lookup_progressive.

Cancelled(t) == dnsScope[t].cancelled \/ stopped

\* The thread's own scope, or a temporary one when the limit allows it; a lookup
\* without a scope fails at once.
StartLookup(t) ==
    /\ At(t, "idle")
    /\ dnsScope[t].kind = "token" \/ ScopeFree
    /\ dnsScope' = IF dnsScope[t].kind = "token" THEN dnsScope
                   ELSE [dnsScope EXCEPT ![t] = [kind |-> "temporary", cancelled |-> FALSE]]
    /\ elapsed' = [elapsed EXCEPT ![t] = 0]
    /\ Goes(t, "enqueue", 1)
    /\ UNCHANGED <<legs, queue, wire, pause, stopped>>

\* The network has no servers, or the lookup is already cancelled: no legs.
NotConfigured(t) ==
    /\ At(t, "enqueue") /\ lookup[t].leg = 1 /\ Goes(t, "cleanup", 1)
    /\ UNCHANGED <<dnsScope, elapsed, legs, queue, wire, pause, stopped>>

\* One leg after the other takes its place in the queue.
Enqueue(t) ==
    LET i == lookup[t].leg IN
    /\ At(t, "enqueue") /\ (i = 1 => ~Cancelled(t))
    /\ legs' = [legs EXCEPT ![t][i] = [NoLeg EXCEPT !.state = "queued"]]
    /\ queue' = Append(queue, <<t, i>>)
    /\ IF i < Servers THEN Goes(t, "enqueue", i + 1) ELSE Goes(t, "pass", 1)
    /\ UNCHANGED <<dnsScope, elapsed, wire, pause, stopped>>

\* The head of the loop: cancelled by the scope, by the end of the process or by
\* the caller, or the budget is used up.
Pass(t) ==
    /\ At(t, "pass")
    /\ \/ Goes(t, "cleanup", 1)     \* the caller's cancel(), or one of the others
       \/ ~Cancelled(t) /\ elapsed[t] < CollectionBudget /\ Goes(t, "queue", 1)
    /\ UNCHANGED <<dnsScope, elapsed, legs, queue, wire, pause, stopped>>

Pending(t) == \E i \in Legs : legs[t][i].state \in {"queued", "active"}

\* On to the next leg; after the last, to sleep, or out when nothing is pending.
NextLeg(t, pending) ==
    CASE lookup[t].leg < Servers -> Goes(t, "queue", lookup[t].leg + 1)
      [] lookup[t].leg = Servers /\ pending -> Goes(t, "sleep", 1)
      [] OTHER -> Goes(t, "cleanup", 1)

\* As if a leg that is given up stayed in the queue.
StillQueued(t, i) == queue

\* dequeue_query: the first entry of the leg, if it has one, is unlinked.
Without(t, i) ==
    LET places == {n \in DOMAIN queue : queue[n] = <<t, i>>}
        first == CHOOSE n \in places : \A m \in places : n <= m
    IN
    IF places = {} THEN queue
    ELSE [n \in 1 .. Len(queue) - 1 |-> queue[IF n < first THEN n ELSE n + 1]]

\* A retry that came too late for the provider's own budget.
Expire(t) ==
    LET i == lookup[t].leg IN
    /\ At(t, "queue")
    /\ ThisLeg(t).state = "queued" /\ ThisLeg(t).started /\ ThisLeg(t).age >= QueryBudget
    /\ queue' = Without(t, i)
    /\ legs' = [legs EXCEPT ![t][i].state = "failed"]
    /\ NextLeg(t, \E j \in Legs \ {i} : legs[t][j].state \in {"queued", "active"})
    /\ UNCHANGED <<dnsScope, elapsed, wire, pause, stopped>>

\* As if every admitted leg opened a socket at once.
Unlimited(t) == queue # <<>> /\ Head(queue) = <<t, lookup[t].leg>> /\ pause = 0

\* admit_query: the head of the queue, paced, and within the limit.
Admissible(t) ==
    /\ queue # <<>> /\ Head(queue) = <<t, lookup[t].leg>>
    /\ pause = 0 /\ wire < WireLimit

Ready(t) ==
    /\ ThisLeg(t).state = "queued" /\ ThisLeg(t).wait = 0
    /\ ~(ThisLeg(t).started /\ ThisLeg(t).age >= QueryBudget)

Admit(t) ==
    /\ At(t, "queue") /\ Ready(t) /\ Admissible(t)
    /\ queue' = Tail(queue) /\ wire' = wire + 1 /\ pause' = Pace
    /\ legs' = [legs EXCEPT ![t][lookup[t].leg].held = TRUE,
                            ![t][lookup[t].leg].started = TRUE]
    /\ Goes(t, "begin", lookup[t].leg)
    /\ UNCHANGED <<dnsScope, elapsed, stopped>>

\* Nothing to do for this leg in this pass.
Skip(t) ==
    /\ At(t, "queue")
    /\ CASE ThisLeg(t).state = "active" -> FALSE
         [] ThisLeg(t).state = "queued" ->
                /\ ~(ThisLeg(t).started /\ ThisLeg(t).age >= QueryBudget)
                /\ ~(Ready(t) /\ Admissible(t)) /\ NextLeg(t, TRUE)
         [] OTHER -> NextLeg(t, Pending(t))
    /\ UNCHANGED <<dnsScope, elapsed, legs, queue, wire, pause, stopped>>

\* sl_dns_refresh_begin: on the wire, refused, or short of a local resource; then
\* the leg queues again behind everybody else.
BeginQuery(t) ==
    LET i == lookup[t].leg IN
    /\ At(t, "begin") /\ Goes(t, "settle", i)
    /\ \/ \E s \in {"active", "failed"} :
             legs' = [legs EXCEPT ![t][i].state = s] /\ UNCHANGED queue
       \/ /\ legs' = [legs EXCEPT ![t][i].wait = Retry]
          /\ queue' = Append(queue, <<t, i>>)
    /\ UNCHANGED <<dnsScope, elapsed, wire, pause, stopped>>

\* What polling an active leg can find; its budget ends a silent provider.
Polled(leg) ==
    IF leg.state # "active" THEN {leg.state}
    ELSE {"success", "failed"} \union IF leg.age < QueryBudget THEN {"active"} ELSE {}

\* An active leg is polled; one that is not active gives its place on the wire back.
Settle(t) ==
    LET i == lookup[t].leg
        frees(s) == ThisLeg(t).held /\ s # "active"
    IN
    /\ At(t, "settle") \/ (At(t, "queue") /\ ThisLeg(t).state = "active")
    /\ \E s \in Polled(ThisLeg(t)) :
          /\ legs' = [legs EXCEPT ![t][i].state = s, ![t][i].held = @ /\ ~frees(s)]
          /\ wire' = IF frees(s) THEN wire - 1 ELSE wire
          /\ NextLeg(t, \/ s \in {"queued", "active"}
                        \/ \E j \in Legs \ {i} : legs[t][j].state \in {"queued", "active"})
    /\ UNCHANGED <<dnsScope, elapsed, queue, pause, stopped>>

\* After the loop every leg leaves the queue and the wire, then a temporary scope
\* goes.
Cleanup(t) ==
    LET i == lookup[t].leg IN
    /\ At(t, "cleanup")
    /\ queue' = Without(t, i)
    /\ wire' = IF legs[t][i].held THEN wire - 1 ELSE wire
    /\ legs' = [legs EXCEPT ![t][i] = NoLeg]
    /\ IF i < Servers THEN Goes(t, "cleanup", i + 1) /\ UNCHANGED <<dnsScope, elapsed>>
       ELSE /\ Goes(t, "idle", 1)
            /\ elapsed' = [elapsed EXCEPT ![t] = 0]
            /\ dnsScope' = IF dnsScope[t].kind = "temporary"
                           THEN [dnsScope EXCEPT ![t] = NoScope] ELSE dnsScope
    /\ UNCHANGED <<pause, stopped>>

\* The clock moves when every live lookup has finished its pass, and wakes them.
Tick ==
    /\ \A t \in Resolvers : At(t, "idle") \/ At(t, "sleep")
    /\ \E t \in Resolvers : At(t, "sleep")
    /\ lookup' = [t \in Resolvers |->
                    IF At(t, "sleep") THEN [at |-> "pass", leg |-> 1] ELSE lookup[t]]
    /\ elapsed' = [t \in Resolvers |-> IF At(t, "sleep") THEN elapsed[t] + 1 ELSE 0]
    /\ legs' = [t \in Resolvers |-> [i \in Legs |->
                  [legs[t][i] EXCEPT
                     !.age = IF legs[t][i].started /\ @ < QueryBudget THEN @ + 1 ELSE @,
                     !.wait = IF @ > 0 THEN @ - 1 ELSE 0]]]
    /\ pause' = IF pause > 0 THEN pause - 1 ELSE 0
    /\ UNCHANGED <<dnsScope, queue, wire, stopped>>

-----------------------------------------------------------------------------
LookupStep(t) ==
    \/ Enqueue(t) \/ NotConfigured(t) \/ Pass(t) \/ Expire(t) \/ Admit(t) \/ Skip(t)
    \/ BeginQuery(t) \/ Settle(t) \/ Cleanup(t)

Next ==
    \/ \E t \in Resolvers : Begin(t) \/ End(t) \/ Cancel(t) \/ StartLookup(t) \/ LookupStep(t)
    \/ StopAll
    \/ Tick

Spec == Init /\ [][Next]_dnsVars

-----------------------------------------------------------------------------
\* A leg waits from its place in the queue until its admission.
Waits(t, i) == legs[t][i].state = "queued" /\ lookup[t] # [at |-> "begin", leg |-> i]

\* The sockets in use never exceed the limit and are exactly the legs that hold
\* one, and the queue holds each waiting leg once and nothing else: the waiters
\* live on the stacks of the lookups, so an entry that outlived its lookup would
\* be read after its frame is gone, and a leaked place would stop every thread.
QueueAccounted ==
    /\ wire = Cardinality({q \in Resolvers \X Legs : legs[q[1]][q[2]].held})
    /\ \A t \in Resolvers, i \in Legs :
          Cardinality({n \in DOMAIN queue : queue[n] = <<t, i>>}) = IF Waits(t, i) THEN 1 ELSE 0

\* Queue time does not cost a provider its chance: when a lookup uses up its
\* collection budget, each of its legs has been on the wire, however many scopes
\* compete (dns_policy.c:24-27, docs/decisions.md:3328).
EveryLegStarts ==
    \A t \in Resolvers : At(t, "pass") /\ elapsed[t] >= CollectionBudget
        => \A i \in Legs : legs[t][i].started
=============================================================================
