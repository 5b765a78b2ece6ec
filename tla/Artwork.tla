------------------------------ MODULE Artwork ------------------------------
(***************************************************************************)
(* The loader of covers and titles (artwork.c): a table of slots for each, *)
(* a worker that loads one queued slot at a time without the lock, and the *)
(* main thread, which draws.  It requests and takes with trylock on every  *)
(* frame, and pauses the loader whenever the home page is left.            *)
(*                                                                         *)
(* A step is one critical section, or one atomic access where the code has *)
(* them outside the lock; the worker reads the paused flag and the cancel  *)
(* generation at two moments of the same critical section, and the main    *)
(* thread writes both without the lock.                                    *)
(*                                                                         *)
(* Abstracted: which slot is the least recently touched one (any), when a  *)
(* failed slot may be retried, and a picture, which is the id it shows.    *)
(* External: the disk cache and the server.                                *)
(***************************************************************************)
EXTENDS Naturals

CONSTANTS
    Games,         \* the ids that can be drawn
    Covers,        \* SLOT_COUNT
    Titles,        \* the length of titles[]
    MaxPauses      \* bound on the pauses

VARIABLES
    slots,         \* entries[] and titles[]
    loader,        \* where the worker is, the slot it loads, what it captured
    loading,       \* the load: the picture, and whether a cancellation ended it
    drawer,        \* where the main thread is
    paused, generation, artStop

artVars == <<slots, loader, loading, drawer, paused, generation, artStop>>

Nothing == "nothing"
Slots == ({"cover"} \X (1 .. Covers)) \union ({"title"} \X (1 .. Titles))
SlotsOf(kind) == {s \in Slots : s[1] = kind}
NoSlot == <<"none", 0>>

SlotState == {"EMPTY", "QUEUED", "LOADING", "READY", "DELIVERED", "FAILED"}

ArtTypeOK ==
    /\ slots \in [Slots -> [id : Games \union {Nothing}, state : SlotState,
                            shows : Games \union {Nothing}]]
    /\ loader \in [at : {"look", "titles", "capture", "waiting", "cache", "fetch", "picture",
                         "store", "finished"},
                   slot : Slots \union {NoSlot}, id : Games \union {Nothing}, seen : Nat]
    /\ loading \in [ok : BOOLEAN, aborted : BOOLEAN]
    /\ drawer \in {"drawing", "bump", "signal", "leaving", "left"}
    /\ paused \in BOOLEAN /\ generation \in 0 .. MaxPauses /\ artStop \in BOOLEAN

Init ==
    /\ slots = [s \in Slots |-> [id |-> Nothing, state |-> "EMPTY", shows |-> Nothing]]
    /\ loader = [at |-> "look", slot |-> NoSlot, id |-> Nothing, seen |-> 0]
    /\ loading = [ok |-> FALSE, aborted |-> FALSE]
    /\ drawer = "drawing" /\ paused = FALSE /\ generation = 0 /\ artStop = FALSE

-----------------------------------------------------------------------------
\* The main thread.  The worker holds the lock from its look at the slots to the
\* capture; trylock gives up then.

Unlocked == loader.at \notin {"titles", "capture"}

\* As if the flag were written without a signal.
Unsignalled == loader

Signalled == IF loader.at = "waiting" THEN [loader EXCEPT !.at = "look"] ELSE loader

\* As if the least recently touched slot were taken whatever its state.
AnySlot(s) == TRUE

\* The slot of this id, else one that is not being loaded and starts afresh.
Victim(s) == slots[s].state # "LOADING"

SlotFor(kind, id, s) ==
    \/ slots[s].id = id
    \/ (\A o \in SlotsOf(kind) : slots[o].id # id) /\ Victim(s)

\* sl_artwork_request and the request half of sl_artwork_title.
Requested(slot, id) ==
    IF slot.id = id THEN slot ELSE [id |-> id, state |-> "EMPTY", shows |-> Nothing]

Queues(kind, state, retry) ==
    \/ state = "EMPTY" \/ (state = "FAILED" /\ retry)
    \/ state = "DELIVERED" /\ kind = "cover"

Request(kind, id) ==
    /\ drawer = "drawing" /\ Unlocked
    /\ \E s \in SlotsOf(kind), retry \in BOOLEAN :
          /\ SlotFor(kind, id, s)
          /\ LET slot == Requested(slots[s], id) IN
             IF Queues(kind, slot.state, retry)
             THEN /\ slots' = [slots EXCEPT ![s] = [slot EXCEPT !.state = "QUEUED"]]
                  /\ loader' = Signalled
             ELSE slots' = [slots EXCEPT ![s] = slot] /\ UNCHANGED loader
    /\ UNCHANGED <<loading, drawer, paused, generation, artStop>>

\* sl_artwork_take hands the pixels over.
Take(s) ==
    /\ drawer = "drawing" /\ Unlocked
    /\ s[1] = "cover" /\ slots[s].state = "READY"
    /\ slots' = [slots EXCEPT ![s].state = "DELIVERED", ![s].shows = Nothing]
    /\ UNCHANGED <<loader, loading, drawer, paused, generation, artStop>>

\* sl_artwork_pause: the flag, then the generation, then the signal.
Pause ==
    /\ drawer = "drawing" /\ ~paused /\ generation < MaxPauses
    /\ paused' = TRUE /\ drawer' = "bump"
    /\ UNCHANGED <<slots, loader, loading, generation, artStop>>

Bump ==
    /\ drawer = "bump"
    /\ generation' = generation + 1 /\ drawer' = "signal"
    /\ UNCHANGED <<slots, loader, loading, paused, artStop>>

Resume ==
    /\ drawer = "drawing" /\ paused
    /\ paused' = FALSE /\ drawer' = "signal"
    /\ UNCHANGED <<slots, loader, loading, generation, artStop>>

RequestStop ==
    /\ drawer = "drawing" /\ artStop' = TRUE /\ drawer' = "leaving"
    /\ UNCHANGED <<slots, loader, loading, paused, generation>>

Signal ==
    /\ drawer \in {"signal", "leaving"} /\ Unlocked
    /\ loader' = Signalled
    /\ drawer' = IF drawer = "signal" THEN "drawing" ELSE "left"
    /\ UNCHANGED <<slots, loading, paused, generation, artStop>>

-----------------------------------------------------------------------------
\* The worker.

CancelSeen == artStop \/ paused

QueuedOf(kind) == {s \in SlotsOf(kind) : slots[s].state = "QUEUED"}

FirstOf(set) == CHOOSE s \in set : \A o \in set : s[2] <= o[2]

\* A cover before any title; nothing while paused.  The flag is read for each.
Picks(kind) ==
    /\ ~paused /\ QueuedOf(kind) # {}
    /\ loader' = [loader EXCEPT !.at = "capture", !.slot = FirstOf(QueuedOf(kind))]

LookAgain(at) == loader' = [loader EXCEPT !.at = at]

Look ==
    /\ loader.at = "look"
    /\ \/ artStop /\ LookAgain("finished")
       \/ ~artStop /\ Picks("cover")
       \/ ~artStop /\ (paused \/ QueuedOf("cover") = {}) /\ LookAgain("titles")
    /\ UNCHANGED <<slots, loading, drawer, paused, generation, artStop>>

LookTitles ==
    /\ loader.at = "titles"
    /\ \/ Picks("title")
       \/ (paused \/ QueuedOf("title") = {}) /\ LookAgain("waiting")
    /\ UNCHANGED <<slots, loading, drawer, paused, generation, artStop>>

\* The generation is read after the paused flag.
Capture ==
    /\ loader.at = "capture"
    /\ loader' = [loader EXCEPT !.at = "cache", !.id = slots[loader.slot].id, !.seen = generation]
    /\ slots' = [slots EXCEPT ![loader.slot].state = "LOADING"]
    /\ loading' = [ok |-> FALSE, aborted |-> FALSE]
    /\ UNCHANGED <<drawer, paused, generation, artStop>>

Loads(at, ok, aborted) ==
    /\ loader' = [loader EXCEPT !.at = at]
    /\ loading' = [ok |-> ok, aborted |-> aborted]
    /\ UNCHANGED <<slots, drawer, paused, generation, artStop>>

\* The disk first; a cancelled load does not go to the network.
ReadCache ==
    /\ loader.at = "cache"
    /\ \/ Loads("store", TRUE, FALSE)
       \/ IF CancelSeen THEN Loads("store", FALSE, TRUE) ELSE Loads("fetch", FALSE, FALSE)

\* A fetch looks at the cancellation before, during and after the transfer.  A
\* cover takes a second one for the picture.
Fetch ==
    /\ loader.at \in {"fetch", "picture"}
    /\ \/ CancelSeen /\ Loads("store", FALSE, TRUE)
       \/ Loads("store", FALSE, FALSE)
       \/ ~CancelSeen /\ IF loader.at = "fetch" /\ loader.slot[1] = "cover"
                         THEN Loads("picture", FALSE, FALSE) ELSE Loads("store", TRUE, FALSE)

RetriesAtOnce == CancelSeen \/ loader.seen # generation

Store ==
    /\ loader.at = "store"
    /\ slots' = [slots EXCEPT ![loader.slot] =
                   IF loading.ok THEN [@ EXCEPT !.state = "READY", !.shows = loader.id]
                   ELSE [@ EXCEPT !.state = IF RetriesAtOnce THEN "QUEUED" ELSE "FAILED"]]
    /\ loader' = [loader EXCEPT !.at = "look", !.slot = NoSlot, !.id = Nothing, !.seen = 0]
    /\ loading' = [ok |-> FALSE, aborted |-> FALSE]
    /\ UNCHANGED <<drawer, paused, generation, artStop>>

-----------------------------------------------------------------------------
LoaderStep == Look \/ LookTitles \/ Capture \/ ReadCache \/ Fetch \/ Store

Next ==
    \/ \E g \in Games, kind \in {"cover", "title"} : Request(kind, g)
    \/ \E s \in Slots : Take(s)
    \/ Pause \/ Bump \/ Resume \/ RequestStop \/ Signal
    \/ LoaderStep

Spec == Init /\ [][Next]_artVars

-----------------------------------------------------------------------------
\* No wake-up is lost: a worker that sleeps has nothing to load and need not end,
\* or the main thread is on its way to wake it (artwork.c:337 against 402-412).
SleepsForAReason ==
    loader.at = "waiting" =>
        \/ drawer \in {"bump", "signal", "leaving"}
        \/ ~artStop /\ (paused \/ \A s \in Slots : slots[s].state # "QUEUED")

\* A picture or a title is only ever shown for the id it was loaded for, although
\* the slots are given to other ids while the worker loads without the lock.
PictureIsOwn ==
    /\ \A s \in Slots : slots[s].state = "READY" => slots[s].shows = slots[s].id
    /\ \A s, o \in Slots : s[1] = o[1] /\ s # o /\ slots[s].id # Nothing
                               => slots[s].id # slots[o].id

\* "A request cancelled by briefly opening a menu retries immediately on return"
\* (tests/test_artwork.c:234): a load that gave up because of a cancellation goes
\* back into the queue, never into the wait of RETRY_MS.
CancelledRetries ==
    [][loader.at = "store" /\ loading.aborted /\ loader'.at = "look"
          => slots'[loader.slot].state # "FAILED"]_artVars
=============================================================================
