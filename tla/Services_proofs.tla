-------------------------- MODULE Services_proofs --------------------------
(***************************************************************************)
(* The safety of the services, for all values of the constants.  Each has  *)
(* inductive invariants of its own, since they share no state; those of    *)
(* the updater are in Updater_proofs:                                      *)
(*                                                                         *)
(*   ArtInv              the slot that is loaded is nobody's victim, and a *)
(*                       sleeper has looked while nothing waited           *)
(*   PlayerFoundNothing  a player that tested found nothing, or a close is *)
(*                       on its way to wake it                             *)
(*   OrderInv            every signal is in one place of the line          *)
(*   WatchInv            each counted status is a moment of the host       *)
(*   DnsInv              a leg waits exactly while the queue holds it      *)
(*   StartsInTime        the time that a lookup has left covers what is    *)
(*                       ahead of its legs                                 *)
(*                                                                         *)
(* The last part combines them under the steps of all the services.        *)
(***************************************************************************)
EXTENDS MCServices, Updater_proofs, FiniteSetTheorems, SequenceTheorems, TLAPS

-----------------------------------------------------------------------------
\* A set of natural numbers that is not empty has a least element.  The strict
\* subsets of an interval are well founded, and an interval stands for its bound.
LEMMA Smallest ==
    ASSUME NEW T, T \subseteq Nat, T # {}
    PROVE  \E x \in T : \A y \in T : x <= y
  <1>1. PICK t \in T : TRUE
    OBVIOUS
  <1> DEFINE Upto == 1 .. t
             Intervals == {1 .. n : n \in {m \in T : m <= t}}
  <1>2. IsFiniteSet(Upto)
    BY FS_Interval, SMT
  <1>3. \A n \in {m \in T : m <= t} : 1 .. n \subseteq Upto
    BY SMT
  <1>4. Intervals \subseteq SUBSET Upto /\ Intervals # {}
    BY <1>1, <1>3, SMT
  <1>5. IsWellFoundedOn(StrictSubsetOrdering(Upto), SUBSET Upto)
    BY <1>2, FS_StrictSubsetOrderingWellFounded, FS_FiniteSubsetsOfFinite
  <1> HIDE DEF Upto, Intervals
  <1>6. PICK U \in Intervals : \A V \in Intervals : <<V, U>> \notin StrictSubsetOrdering(Upto)
    BY <1>4, <1>5, WFMin
  <1>7. ASSUME NEW V \in Intervals PROVE ~(V \subseteq U /\ V # U)
    <2>1. V \in SUBSET Upto /\ U \in SUBSET Upto /\ <<V, U>> \notin StrictSubsetOrdering(Upto)
      BY <1>4, <1>6
    <2> QED
      BY <2>1, Zenon DEF StrictSubsetOrdering
  <1>8. PICK x \in T : x <= t /\ U = 1 .. x
    BY DEF Intervals
  <1>9. ASSUME NEW y \in T, ~(x <= y) PROVE FALSE
    <2>1. x \in Nat /\ y \in Nat /\ t \in Nat /\ y < x /\ y <= t
      BY <1>8, <1>9, SMT
    <2>2. 1 .. y \in Intervals
      BY <2>1 DEF Intervals
    <2>3. 1 .. y \subseteq 1 .. x /\ x \in 1 .. x /\ x \notin 1 .. y
      BY <2>1, SMT
    <2>4. 1 .. y # 1 .. x
      BY <2>3
    <2> QED
      BY <1>7, <1>8, <2>2, <2>3, <2>4
  <1> QED
    BY <1>9
-----------------------------------------------------------------------------
\* Artwork.  A load belongs to the slot it was captured from: while the worker
\* loads without the lock, that slot keeps its id, because it is not a victim.

Loading == {"cache", "fetch", "picture", "store"}
Busy == {"bump", "signal", "leaving"}

ArtSlot == [id : Games \union {A!Nothing}, state : A!SlotState,
            shows : Games \union {A!Nothing}]
ArtLoader == [at : {"look", "titles", "capture", "waiting", "cache", "fetch", "picture",
                    "store", "finished"},
              slot : A!Slots \union {A!NoSlot}, id : Games \union {A!Nothing}, seen : Nat]

\* A slot that is picked waits, and a slot that is loaded is the loader's own.
LoaderKeepsSlot ==
    /\ loader.at \in Loading \union {"capture"} => loader.slot \in A!Slots
    /\ loader.at = "capture" => slots[loader.slot].state = "QUEUED"
    /\ loader.at \in Loading =>
          slots[loader.slot].state = "LOADING" /\ slots[loader.slot].id = loader.id

\* A worker that has seen no cover to load goes on to the titles with the lock.
TitlesForAReason ==
    loader.at = "titles" =>
        \/ drawer \in Busy
        \/ (~artStop /\ (paused \/ A!QueuedOf("cover") = {}))

\* The main thread counts a pause that the bound has room for.
PausesBounded == drawer = "bump" => generation < MaxPauses

ArtTypes ==
    /\ slots \in [A!Slots -> ArtSlot] /\ loader \in ArtLoader
    /\ drawer \in {"drawing", "bump", "signal", "leaving", "left"}
    /\ generation \in 0 .. MaxPauses

ArtFlags ==
    /\ loading \in [ok : BOOLEAN, aborted : BOOLEAN]
    /\ paused \in BOOLEAN /\ artStop \in BOOLEAN

ArtInv ==
    /\ ArtTypes
    /\ LoaderKeepsSlot /\ A!PictureIsOwn
    /\ TitlesForAReason /\ A!SleepsForAReason
    /\ PausesBounded

\* Nothing is loaded when the artwork starts.
LEMMA ArtInit == A!Init => ArtInv
  <1> SUFFICES ASSUME A!Init PROVE ArtInv
    OBVIOUS
  <1>1. ArtTypes
    <2>1. slots \in [A!Slots -> ArtSlot]
      BY SMT DEF A!Init, A!SlotState, ArtSlot
    <2>2. loader \in ArtLoader
      BY SMT DEF A!Init, ArtLoader
    <2> QED
      BY <2>1, <2>2, ArtworkAssumption, SMT DEF A!Init, ArtTypes
  <1>2. A!PictureIsOwn
    BY SMT DEF A!Init, A!PictureIsOwn
  <1>3. LoaderKeepsSlot /\ TitlesForAReason /\ A!SleepsForAReason /\ PausesBounded
    BY SMT DEF A!Init, LoaderKeepsSlot, TitlesForAReason, A!SleepsForAReason, Loading,
       PausesBounded
  <1> QED
    BY <1>1, <1>2, <1>3 DEF ArtInv

\* The two tables have no slot in common.
LEMMA TwoTables ==
    /\ A!Slots = A!SlotsOf("cover") \union A!SlotsOf("title")
    /\ \A s \in A!SlotsOf("cover") : s \in A!Slots /\ s[1] = "cover"
    /\ \A s \in A!SlotsOf("title") : s \in A!Slots /\ s[1] = "title"
  BY SMT DEF A!Slots, A!SlotsOf

\* What a request does to its slot: a slot that is being loaded and one whose
\* picture waits to be taken stay as they are, if the id is theirs.
LEMMA RequestedSlot ==
    ASSUME ArtInv, NEW g \in Games, NEW kind \in {"cover", "title"}, A!Request(kind, g)
    PROVE  \E s \in A!Slots, new \in ArtSlot :
              /\ s[1] = kind /\ new.id = g
              /\ slots' = [slots EXCEPT ![s] = new]
              /\ new.state \in {"READY", "LOADING"} => new = slots[s]
              /\ slots[s].state = "LOADING" => new = slots[s]
              /\ \/ loader' = A!Signalled
                 \/ loader' = loader /\ (new.state = "QUEUED" => new = slots[s])
              /\ \A o \in A!Slots : o[1] = kind /\ o # s => slots[o].id # g
  <1>1. PICK s \in A!SlotsOf(kind), retry \in BOOLEAN :
          /\ A!SlotFor(kind, g, s)
          /\ LET slot == A!Requested(slots[s], g) IN
             IF A!Queues(kind, slot.state, retry)
             THEN /\ slots' = [slots EXCEPT ![s] = [slot EXCEPT !.state = "QUEUED"]]
                  /\ loader' = A!Signalled
             ELSE slots' = [slots EXCEPT ![s] = slot] /\ UNCHANGED loader
    BY DEF A!Request
  <1>2. s \in A!Slots /\ s[1] = kind
    BY TwoTables, SMT
  <1>3. slots[s] \in ArtSlot
    BY <1>2, SMT DEF ArtInv, ArtTypes, ArtSlot, ArtLoader
  <1>4. CASE slots[s].id = g
    <2>1. A!Requested(slots[s], g) = slots[s]
      BY <1>4 DEF A!Requested
    <2>2. \A o \in A!Slots : o[1] = kind /\ o # s => slots[o].id # g
      BY <1>2, <1>4, ArtworkAssumption, SMT DEF ArtInv, A!PictureIsOwn, A!Nothing
    <2>3. CASE A!Queues(kind, slots[s].state, retry)
      <3> DEFINE new == [slots[s] EXCEPT !.state = "QUEUED"]
      <3>1. slots[s].state \notin {"READY", "LOADING"}
        BY <2>3, SMT DEF A!Queues
      <3>2. /\ new \in ArtSlot
            /\ new.id = g /\ new.state = "QUEUED"
        BY <1>3, <1>4, SMT DEF A!SlotState, ArtSlot
      <3>3. slots' = [slots EXCEPT ![s] = new] /\ loader' = A!Signalled
        BY <1>1, <2>1, <2>3
      <3> QED
        BY <1>2, <2>2, <3>1, <3>2, <3>3
    <2>4. CASE ~A!Queues(kind, slots[s].state, retry)
      <3>1. slots' = [slots EXCEPT ![s] = slots[s]] /\ UNCHANGED loader
        BY <1>1, <2>1, <2>4
      <3> QED
        BY <1>2, <1>3, <1>4, <2>2, <3>1
    <2> QED
      BY <2>3, <2>4
  <1>5. CASE slots[s].id # g
    <2> DEFINE fresh == [id |-> g, state |-> "EMPTY", shows |-> A!Nothing]
    <2> DEFINE new == [id |-> g, state |-> "QUEUED", shows |-> A!Nothing]
    <2>1. A!Requested(slots[s], g) = fresh /\ A!Queues(kind, fresh.state, retry)
      BY <1>5 DEF A!Requested, A!Queues
    <2>2. [fresh EXCEPT !.state = "QUEUED"] = new
      BY SMT
    <2>3. slots' = [slots EXCEPT ![s] = new] /\ loader' = A!Signalled
      BY <1>1, <2>1, <2>2
    <2>4. (\A o \in A!SlotsOf(kind) : slots[o].id # g) /\ slots[s].state # "LOADING"
      BY <1>1, <1>5 DEF A!SlotFor, A!Victim
    <2>5. \A o \in A!Slots : o[1] = kind => o \in A!SlotsOf(kind)
      BY DEF A!SlotsOf
    <2>6. new \in ArtSlot
      BY SMT DEF A!SlotState, ArtSlot
    <2> QED
      BY <1>2, <2>3, <2>4, <2>5, <2>6
  <1> QED
    BY <1>4, <1>5

\* A request takes a slot that nobody loads, and signals the worker.
LEMMA ArtRequest ==
    ASSUME ArtInv, NEW g \in Games, NEW kind \in {"cover", "title"}, A!Request(kind, g)
    PROVE  ArtInv'
  <1>1. PICK s \in A!Slots, new \in ArtSlot :
              /\ s[1] = kind /\ new.id = g
              /\ slots' = [slots EXCEPT ![s] = new]
              /\ new.state \in {"READY", "LOADING"} => new = slots[s]
              /\ slots[s].state = "LOADING" => new = slots[s]
              /\ \/ loader' = A!Signalled
                 \/ loader' = loader /\ (new.state = "QUEUED" => new = slots[s])
              /\ \A o \in A!Slots : o[1] = kind /\ o # s => slots[o].id # g
    BY RequestedSlot
  <1>2. /\ drawer = "drawing" /\ loader.at \notin {"titles", "capture"}
        /\ UNCHANGED <<loading, drawer, paused, generation, artStop>>
    BY DEF A!Request, A!Unlocked
  <1>3. /\ loader'.slot = loader.slot /\ loader'.id = loader.id /\ loader'.seen = loader.seen
        /\ loader'.at = loader.at \/ (loader.at = "waiting" /\ loader'.at = "look")
        /\ ArtTypes => loader' \in ArtLoader
    BY <1>1, SMT DEF A!Signalled, ArtInv, ArtTypes, ArtSlot, ArtLoader
  <1>4. ArtTypes'
    BY <1>1, <1>2, <1>3, SMT DEF ArtInv, ArtTypes, ArtSlot, ArtLoader
  <1>5. LoaderKeepsSlot'
    BY <1>1, <1>2, <1>3, SMT DEF ArtInv, LoaderKeepsSlot, ArtTypes, Loading, ArtSlot, ArtLoader
  <1>6. A!PictureIsOwn'
    BY <1>1, SMT DEF ArtInv, A!PictureIsOwn, ArtTypes, ArtSlot, ArtLoader
  <1>7. TitlesForAReason'
    BY <1>2, <1>3, SMT DEF TitlesForAReason
  <1>8. A!SleepsForAReason'
    BY <1>1, <1>2, <1>3, SMT
       DEF ArtInv, A!SleepsForAReason, A!Signalled, ArtTypes, Busy, ArtSlot, ArtLoader
  <1>9. PausesBounded'
    BY <1>2, SMT DEF PausesBounded
  <1> QED
    BY <1>4, <1>5, <1>6, <1>7, <1>8, <1>9 DEF ArtInv

\* The main thread takes a picture, leaves the page, comes back, or ends the loader.
LEMMA ArtDrawer ==
    ASSUME ArtInv, (\E s \in A!Slots : A!Take(s)) \/ A!Pause \/ A!Bump \/ A!Resume \/ A!RequestStop
                   \/ A!Signal
    PROVE  ArtInv'
  <1>1. ASSUME NEW s \in A!Slots, A!Take(s) PROVE ArtInv'
    <2>1. ArtTypes'
      BY <1>1, SMT DEF A!Take, ArtInv, ArtTypes, A!SlotState, ArtSlot, ArtLoader
    <2>2. LoaderKeepsSlot'
      BY <1>1, SMT
         DEF A!Take, A!Unlocked, ArtInv, LoaderKeepsSlot, ArtTypes, Loading, ArtSlot, ArtLoader
    <2>3. A!PictureIsOwn'
      BY <1>1, SMT DEF A!Take, ArtInv, A!PictureIsOwn, ArtTypes, ArtSlot, ArtLoader
    <2>4. TitlesForAReason'
      BY <1>1, SMT DEF A!Take, A!Unlocked, TitlesForAReason
    <2>5. A!SleepsForAReason'
      BY <1>1, SMT DEF A!Take, ArtInv, A!SleepsForAReason, ArtTypes, ArtSlot, ArtLoader
    <2>6. PausesBounded'
      BY <1>1, SMT DEF A!Take, PausesBounded
    <2> QED
      BY <2>1, <2>2, <2>3, <2>4, <2>5, <2>6 DEF ArtInv
  <1>2. ASSUME UNCHANGED <<slots, loading>>, LoaderKeepsSlot', ArtTypes',
               TitlesForAReason', A!SleepsForAReason', PausesBounded'
        PROVE  ArtInv'
    BY <1>2, SMT DEF ArtInv, A!PictureIsOwn
  <1>3. CASE A!Pause \/ A!Bump \/ A!Resume \/ A!RequestStop
    <2>1. UNCHANGED <<slots, loading, loader>> /\ drawer' \in Busy
      BY <1>3, SMT DEF A!Pause, A!Bump, A!Resume, A!RequestStop, Busy
    <2>2. /\ generation' \in 0 .. MaxPauses
          /\ drawer' \in {"drawing", "bump", "signal", "leaving", "left"}
          /\ PausesBounded'
      BY <1>3, ArtworkAssumption, SMT
         DEF A!Pause, A!Bump, A!Resume, A!RequestStop, ArtInv, ArtTypes, PausesBounded, ArtSlot,
             ArtLoader
    <2>4. ArtTypes'
      BY <2>1, <2>2, SMT DEF ArtInv, ArtTypes, ArtSlot, ArtLoader
    <2>3. LoaderKeepsSlot' /\ TitlesForAReason' /\ A!SleepsForAReason'
      BY <2>1, SMT DEF ArtInv, LoaderKeepsSlot, TitlesForAReason, A!SleepsForAReason, Busy
    <2> QED
      BY <1>2, <2>1, <2>2, <2>3, <2>4
  <1>4. CASE A!Signal
    <2>1. /\ UNCHANGED <<slots, loading>> /\ loader.at \notin {"titles", "capture"}
          /\ loader'.slot = loader.slot /\ loader'.id = loader.id
          /\ loader'.at = IF loader.at = "waiting" THEN "look" ELSE loader.at
      BY <1>4, SMT DEF A!Signal, A!Signalled, A!Unlocked, ArtInv, ArtTypes, ArtSlot, ArtLoader
    <2>2. ArtTypes'
      BY <1>4, SMT DEF A!Signal, A!Signalled, ArtInv, ArtTypes, ArtSlot, ArtLoader
    <2>4. PausesBounded'
      BY <1>4, SMT DEF A!Signal, PausesBounded
    <2>3. LoaderKeepsSlot' /\ TitlesForAReason' /\ A!SleepsForAReason'
      BY <2>1, SMT DEF ArtInv, LoaderKeepsSlot, TitlesForAReason, A!SleepsForAReason, Loading
    <2> QED
      BY <1>2, <2>1, <2>2, <2>3, <2>4
  <1> QED
    BY <1>1, <1>3, <1>4

\* A slot that is picked is a queued one of its table.
LEMMA PickedSlot ==
    ASSUME ArtInv, NEW kind \in {"cover", "title"}, A!Picks(kind)
    PROVE  /\ loader'.at = "capture" /\ loader'.slot \in A!Slots
           /\ slots[loader'.slot].state = "QUEUED"
           /\ loader' \in ArtLoader
  <1> DEFINE picked == A!FirstOf(A!QueuedOf(kind))
  <1>1. /\ A!QueuedOf(kind) # {}
        /\ loader' = [loader EXCEPT !.at = "capture", !.slot = picked]
    BY DEF A!Picks
  <1>2. picked \in A!QueuedOf(kind)
    <2> DEFINE Numbers == {s[2] : s \in A!QueuedOf(kind)}
    <2>1. Numbers \subseteq Nat /\ Numbers # {}
      BY <1>1, SMT DEF A!QueuedOf, A!SlotsOf, A!Slots
    <2>2. PICK n \in Numbers : \A m \in Numbers : n <= m
      BY <2>1, Smallest
    <2>3. PICK s \in A!QueuedOf(kind) : s[2] = n
      BY <2>2
    <2>4. \A o \in A!QueuedOf(kind) : s[2] <= o[2]
      BY <2>2, <2>3
    <2> QED
      BY <2>4 DEF A!FirstOf
  <1>3. A!QueuedOf(kind) \subseteq A!Slots /\ \A s \in A!QueuedOf(kind) : slots[s].state = "QUEUED"
    BY TwoTables, SMT DEF A!QueuedOf
  <1>4. picked \in A!Slots /\ slots[picked].state = "QUEUED"
    BY <1>2, <1>3
  <1> HIDE DEF picked
  <1>5. loader \in ArtLoader
    BY DEF ArtInv, ArtTypes
  <1>6. loader' \in ArtLoader
    BY <1>1, <1>4, <1>5, Zenon DEF ArtLoader
  <1> QED
    BY <1>1, <1>4, <1>5, <1>6, SMT DEF ArtLoader

\* The worker looks for something to load, or goes to sleep.
LEMMA ArtLook == ASSUME ArtInv, A!Look \/ A!LookTitles PROVE ArtInv'
  <1>1. UNCHANGED <<slots, loading, drawer, paused, generation, artStop>>
    BY DEF A!Look, A!LookTitles
  <1>2. CASE \E kind \in {"cover", "title"} : A!Picks(kind)
    BY <1>1, <1>2, PickedSlot, SMT
       DEF ArtInv, ArtTypes, LoaderKeepsSlot, A!PictureIsOwn, TitlesForAReason,
           A!SleepsForAReason, Loading, PausesBounded, ArtSlot, ArtLoader
  <1>3. CASE A!Look /\ ~A!Picks("cover")
    <2>1. \/ loader' = [loader EXCEPT !.at = "finished"]
          \/ /\ loader' = [loader EXCEPT !.at = "titles"]
             /\ ~artStop /\ (paused \/ A!QueuedOf("cover") = {})
      BY <1>3 DEF A!Look, A!LookAgain
    <2>2. A!QueuedOf("cover")' = A!QueuedOf("cover")
      BY <1>1 DEF A!QueuedOf
    <2> QED
      BY <1>1, <2>1, <2>2, SMT
         DEF ArtInv, ArtTypes, LoaderKeepsSlot, A!PictureIsOwn, TitlesForAReason,
             A!SleepsForAReason, Loading, PausesBounded, ArtSlot, ArtLoader
  <1>4. CASE A!LookTitles /\ ~A!Picks("title")
    <2>1. /\ loader' = [loader EXCEPT !.at = "waiting"] /\ loader.at = "titles"
          /\ paused \/ A!QueuedOf("title") = {}
      BY <1>4 DEF A!LookTitles, A!LookAgain
    <2>2. drawer \in Busy \/ (~artStop /\ (paused \/ \A s \in A!Slots : slots[s].state # "QUEUED"))
      BY <2>1, TwoTables, SMT DEF ArtInv, TitlesForAReason, A!QueuedOf
    <2> QED
      BY <1>1, <2>1, <2>2, SMT
         DEF ArtInv, ArtTypes, LoaderKeepsSlot, A!PictureIsOwn, TitlesForAReason,
             A!SleepsForAReason, Loading, Busy, PausesBounded, ArtSlot, ArtLoader
  <1> QED
    BY <1>2, <1>3, <1>4 DEF A!Look, A!LookTitles

\* From the capture to the store the slot is the loader's, and the store shows in
\* it what it was captured for.
LEMMA ArtLoad == ASSUME ArtInv, A!Capture \/ A!ReadCache \/ A!Fetch \/ A!Store PROVE ArtInv'
  <1>1. CASE A!Capture
    <2>1. /\ loader.slot \in A!Slots
          /\ loader'.at = "cache" /\ loader'.slot = loader.slot
          /\ loader'.id = slots[loader.slot].id
      BY <1>1, SMT DEF A!Capture, ArtInv, LoaderKeepsSlot, ArtTypes, ArtSlot, ArtLoader
    <2>6. /\ slots' = [slots EXCEPT ![loader.slot].state = "LOADING"]
          /\ loader' = [loader EXCEPT !.at = "cache", !.id = slots[loader.slot].id,
                                      !.seen = generation]
          /\ loading' = [ok |-> FALSE, aborted |-> FALSE]
          /\ slots[loader.slot].id \in Games \union {A!Nothing} /\ generation \in Nat
          /\ UNCHANGED <<drawer, paused, generation, artStop>>
      BY <1>1, <2>1, ArtworkAssumption, SMT DEF A!Capture, ArtInv, ArtTypes, ArtSlot, ArtLoader
    <2>7. slots' \in [A!Slots -> ArtSlot]
      BY <2>1, <2>6, SMT DEF ArtInv, ArtTypes, A!SlotState, ArtSlot, ArtLoader
    <2>8. loader' \in ArtLoader
      <3>1. loader \in ArtLoader
        BY DEF ArtInv, ArtTypes
      <3> QED
        BY <2>6, <3>1, Zenon DEF ArtLoader
    <2>2. ArtTypes'
      BY <2>6, <2>7, <2>8 DEF ArtInv, ArtTypes
    <2>3. LoaderKeepsSlot'
      BY <1>1, <2>1, SMT
         DEF A!Capture, ArtInv, LoaderKeepsSlot, ArtTypes, Loading, ArtSlot, ArtLoader
    <2>4. A!PictureIsOwn'
      BY <1>1, <2>1, SMT DEF A!Capture, ArtInv, A!PictureIsOwn, ArtTypes, ArtSlot, ArtLoader
    <2>5. TitlesForAReason' /\ A!SleepsForAReason' /\ PausesBounded'
      BY <2>1, <2>6, SMT DEF TitlesForAReason, A!SleepsForAReason, PausesBounded, ArtInv
    <2> QED
      BY <2>2, <2>3, <2>4, <2>5 DEF ArtInv
  <1>2. CASE A!ReadCache \/ A!Fetch
    <2>1. /\ loader.at \in Loading
          /\ \E at \in {"store", "fetch", "picture"}, ok, aborted \in BOOLEAN :
                A!Loads(at, ok, aborted)
      BY <1>2, Zenon DEF A!ReadCache, A!Fetch, Loading
    <2>2. PICK at \in {"store", "fetch", "picture"}, ok \in BOOLEAN, aborted \in BOOLEAN :
             A!Loads(at, ok, aborted)
      BY <2>1
    <2>3. /\ UNCHANGED <<slots, drawer, paused, generation, artStop>>
          /\ loader' = [loader EXCEPT !.at = at]
          /\ loading' = [ok |-> ok, aborted |-> aborted]
      BY <2>2 DEF A!Loads
    <2> QED
      BY <2>1, <2>3, SMT
         DEF ArtInv, ArtTypes, LoaderKeepsSlot, A!PictureIsOwn, TitlesForAReason,
             A!SleepsForAReason, Loading, PausesBounded, ArtSlot, ArtLoader
  <1>3. CASE A!Store
    <2>1. /\ loader.slot \in A!Slots /\ slots[loader.slot].state = "LOADING"
          /\ slots[loader.slot].id = loader.id /\ loader.id \in Games \union {A!Nothing}
          /\ loader' = [loader EXCEPT !.at = "look", !.slot = A!NoSlot, !.id = A!Nothing,
                                      !.seen = 0]
          /\ loading' = [ok |-> FALSE, aborted |-> FALSE]
          /\ UNCHANGED <<drawer, paused, generation, artStop>>
      BY <1>3, SMT DEF A!Store, ArtInv, LoaderKeepsSlot, ArtTypes, Loading, ArtSlot, ArtLoader
    <2>2. PICK new \in ArtSlot :
             /\ slots' = [slots EXCEPT ![loader.slot] = new]
             /\ new.id = loader.id /\ (new.state = "READY" => new.shows = loader.id)
      <3> DEFINE before == slots[loader.slot]
      <3>1. /\ before \in ArtSlot
            /\ before.id = loader.id
        BY <2>1, SMT DEF ArtInv, ArtTypes, ArtSlot, ArtLoader
      <3>1a. loader.id \in Games \union {A!Nothing}
        BY <2>1
      <3>2. slots' = [slots EXCEPT ![loader.slot] =
                        IF loading.ok THEN [before EXCEPT !.state = "READY", !.shows = loader.id]
                        ELSE [before EXCEPT !.state = IF A!RetriesAtOnce THEN "QUEUED"
                                                   ELSE "FAILED"]]
        BY <1>3, SMT DEF A!Store
      <3> HIDE DEF before
      <3>3. CASE loading.ok
        <4> DEFINE new == [before EXCEPT !.state = "READY", !.shows = loader.id]
        <4>1. /\ new \in ArtSlot
              /\ new.id = loader.id /\ new.shows = loader.id
          <5>1. new \in ArtSlot
            BY <3>1, <3>1a, Zenon DEF A!SlotState, ArtSlot
          <5> QED
            BY <3>1, <5>1, SMT DEF ArtSlot
        <4>2. slots' = [slots EXCEPT ![loader.slot] = new]
          BY <3>2, <3>3
        <4> HIDE DEF new
        <4> QED
          BY <4>1, <4>2
      <3>4. CASE ~loading.ok
        <4> DEFINE state == IF A!RetriesAtOnce THEN "QUEUED" ELSE "FAILED"
        <4>1. state \in {"QUEUED", "FAILED"}
          OBVIOUS
        <4>2. slots' = [slots EXCEPT ![loader.slot] = [before EXCEPT !.state = state]]
          BY <3>2, <3>4
        <4> HIDE DEF state
        <4>3. /\ [before EXCEPT !.state = state] \in ArtSlot
              /\ [before EXCEPT !.state = state].id = loader.id
              /\ [before EXCEPT !.state = state].state # "READY"
          BY <3>1, <4>1, SMT DEF A!SlotState, ArtSlot
        <4> QED
          BY <4>2, <4>3
      <3> QED
        BY <3>3, <3>4
    <2>6. loader' \in ArtLoader
      <3>1. loader \in ArtLoader
        BY DEF ArtInv, ArtTypes
      <3> QED
        BY <2>1, <3>1, Zenon DEF ArtLoader
    <2>7. slots' \in [A!Slots -> ArtSlot]
      BY <2>1, <2>2, SMT DEF ArtInv, ArtTypes
    <2>3. ArtTypes'
      BY <2>1, <2>6, <2>7 DEF ArtInv, ArtTypes
    <2>4. A!PictureIsOwn'
      BY <2>1, <2>2, SMT DEF ArtInv, A!PictureIsOwn, ArtTypes, ArtSlot, ArtLoader
    <2>5. /\ LoaderKeepsSlot' /\ TitlesForAReason' /\ A!SleepsForAReason'
          /\ PausesBounded'
      BY <2>1, SMT DEF LoaderKeepsSlot, TitlesForAReason, A!SleepsForAReason, Loading, ArtInv,
                       ArtTypes, PausesBounded, ArtSlot, ArtLoader
    <2> QED
      BY <2>3, <2>4, <2>5 DEF ArtInv
  <1> QED
    BY <1>1, <1>2, <1>3

\* The flags keep their type.
LEMMA LoadFlags ==
    \A ok, aborted \in BOOLEAN :
       [ok |-> ok, aborted |-> aborted] \in [ok : BOOLEAN, aborted : BOOLEAN]
  OBVIOUS

\* The flags of a load and of the worker stay flags.
LEMMA FlagsNext == ASSUME ArtFlags, A!Next PROVE ArtFlags'
  <1>1. CASE UNCHANGED <<loading, paused, artStop>>
    BY <1>1 DEF ArtFlags
  <1>2. CASE \E at \in {"store", "fetch", "picture"}, ok \in BOOLEAN, aborted \in BOOLEAN :
                A!Loads(at, ok, aborted)
    BY <1>2, LoadFlags DEF A!Loads, ArtFlags
  <1>3. CASE A!Pause \/ A!Resume \/ A!RequestStop
    BY <1>3, Zenon DEF A!Pause, A!Resume, A!RequestStop, ArtFlags
  <1>4. CASE A!Capture \/ A!Store
    BY <1>4, LoadFlags DEF A!Capture, A!Store, ArtFlags
  <1>5. CASE \E g \in Games, kind \in {"cover", "title"} : A!Request(kind, g)
    BY <1>1, <1>5 DEF A!Request
  <1>6. CASE \E s \in A!Slots : A!Take(s)
    BY <1>1, <1>6 DEF A!Take
  <1>7. CASE A!Bump \/ A!Signal \/ A!Look \/ A!LookTitles
    BY <1>1, <1>7 DEF A!Bump, A!Signal, A!Look, A!LookTitles
  <1>8. CASE A!ReadCache \/ A!Fetch
    BY <1>2, <1>8, Zenon DEF A!ReadCache, A!Fetch
  <1> QED
    BY <1>3, <1>4, <1>5, <1>6, <1>7, <1>8 DEF A!Next, A!LoaderStep

\* They start as flags.
LEMMA FlagsInit == A!Init => ArtFlags
  BY LoadFlags DEF A!Init, ArtFlags

\* The types of the proof are those of the model.
LEMMA ArtTypesOK == ArtTypes /\ ArtFlags => A!ArtTypeOK
  BY DEF ArtTypes, ArtFlags, ArtSlot, ArtLoader, A!ArtTypeOK

\* Every step of the artwork keeps its invariant.
LEMMA ArtNext == ASSUME ArtInv, A!Next PROVE ArtInv'
  BY ArtRequest, ArtDrawer, ArtLook, ArtLoad DEF A!Next, A!LoaderStep

\* The invariant rests on the variables of the artwork.
LEMMA ArtStutter == ASSUME ArtInv, UNCHANGED artVars PROVE ArtInv'
  BY SMT DEF ArtInv, artVars, ArtTypes, LoaderKeepsSlot, A!PictureIsOwn, TitlesForAReason,
             A!SleepsForAReason, A!QueuedOf, PausesBounded, ArtSlot, ArtLoader
-----------------------------------------------------------------------------
\* SignalLink: the player's sleep.  A player that has tested, and one that sleeps,
\* found nothing; whoever changes that passes through a close, which wakes it.

PlayerFoundNothing ==
    /\ rx \in Nat
    /\ waiter \in {"testing", "waiting"} => (rx = 0 /\ sns \notin S!Terminal) \/ closing # "no"

\* What the SDK says of the handle ends in a state, or in a close.
LEMMA CheckedConnection ==
    ASSUME PlayerFoundNothing, NEW next, S!CheckConnection(next), closing = "no", rx' = rx,
           waiter' = waiter
    PROVE  PlayerFoundNothing'
  <1>1. CASE S!Goes(next)
    BY <1>1, SMT DEF S!Goes, PlayerFoundNothing
  <1>2. CASE S!Fails(next) \/ S!Closes(FALSE, next)
    BY <1>2, SMT DEF S!Fails, S!Closes, PlayerFoundNothing
  <1>3. ASSUME NEW state, NEW valid, S!Stores(state, valid, next) PROVE PlayerFoundNothing'
    BY <1>3, SMT DEF S!Stores, PlayerFoundNothing
  <1> QED
    BY <1>1, <1>2, <1>3 DEF S!CheckConnection

\* Every step of the link keeps what the player found.
LEMMA PlayerNext == ASSUME PlayerFoundNothing, S!Next PROVE PlayerFoundNothing'
  <1>1. CASE UNCHANGED <<rx, waiter, sns, closing>>
    BY <1>1 DEF PlayerFoundNothing
  <1>2. CASE S!TestDatagram \/ S!Sleep \/ S!WaitExpires \/ S!TakeDatagram
    BY <1>2, SMT DEF S!TestDatagram, S!Sleep, S!WaitExpires, S!TakeDatagram, S!Player,
       S!Arrived, PlayerFoundNothing
  <1>3. CASE S!Unlink \/ S!StoreClosed \/ S!StoreFailed \/ S!ClearDatagrams
    BY <1>3, SMT DEF S!Unlink, S!StoreClosed, S!StoreFailed, S!ClearDatagrams, S!MutexFree, S!Woken,
       PlayerFoundNothing
  <1>4. CASE S!Prepare
    BY <1>4, SMT DEF S!Prepare, S!Working, S!Fails, S!Goes, PlayerFoundNothing
  <1>5. CASE S!BeginConnection
    BY <1>5, SMT DEF S!BeginConnection, S!Working, S!Goes, PlayerFoundNothing
  <1>6. CASE S!Check
    BY <1>6, CheckedConnection DEF S!Check, S!Working
  <1>7. CASE S!SwapSignals
    BY <1>7, SMT DEF S!SwapSignals, S!Working, S!Goes, S!Fails, PlayerFoundNothing
  <1>8. CASE S!ReceiveSignal
    <2>1. CASE S!CheckConnection("receive")
      BY <1>8, <2>1, CheckedConnection DEF S!ReceiveSignal, S!Working
    <2>2. CASE S!Closes(TRUE, "receive")
      BY <1>8, <2>2, SMT DEF S!ReceiveSignal, S!Closes, PlayerFoundNothing
    <2> QED
      BY <1>8, <2>1, <2>2 DEF S!ReceiveSignal
  <1>9. CASE S!ReceiveMessages
    BY <1>9, SMT DEF S!ReceiveMessages, S!Working, S!MutexFree, S!Woken, S!Goes, S!Fails,
       PlayerFoundNothing
  <1>10. CASE S!StartSession \/ S!Destroy
    BY <1>10, SMT DEF S!StartSession, S!Destroy, S!Working, S!Goes, S!Closes, PlayerFoundNothing
  <1>11. CASE S!BridgeUpdate \/ S!Connect \/ S!Drain \/ S!Flush \/ S!BecomeReady
    BY <1>1, <1>11 DEF S!BridgeUpdate, S!Connect, S!Drain, S!Flush, S!BecomeReady, S!Goes
  <1>12. CASE S!ReceiveNothing \/ S!ReceiveUpgrade \/ S!ReceiveSession \/ S!ReceivePing
    BY <1>1, <1>12 DEF S!ReceiveNothing, S!ReceiveUpgrade, S!ReceiveSession, S!ReceivePing,
       S!Reception, S!Goes
  <1>13. CASE S!SendSignal
    BY <1>1, <1>13 DEF S!SendSignal
  <1> QED
    BY <1>2, <1>3, <1>4, <1>5, <1>6, <1>7, <1>8, <1>9, <1>10, <1>11, <1>12, <1>13 DEF S!Next

\* It holds at first, and says that a sleeper will be woken.
LEMMA PlayerHolds ==
    /\ S!Init => PlayerFoundNothing
    /\ PlayerFoundNothing => S!DatagramWakes
  BY SMT DEF S!Init, PlayerFoundNothing, S!DatagramWakes
-----------------------------------------------------------------------------
\* SignalLink: the order of the signals.  A signal is in one place of the line, and
\* everything in front of it is smaller.

FrameKinds == {"upgrade", "open", "ping", "signals"}
AFrame == [kind : FrameKinds, session : 0 .. MaxSessions, body : Seq(1 .. MaxSignals)]

LineTypes ==
    /\ made \in 0 .. MaxSignals /\ sessions \in 0 .. MaxSessions /\ cloud \in 0 .. sessions
    /\ signals \in Seq(1 .. MaxSignals) /\ pending \in Seq(1 .. MaxSignals)
    /\ sent \subseteq 1 .. MaxSignals
    /\ fifo \in Seq(AFrame)

Limits ==
    /\ Len(signals) <= SignalLimit /\ Len(pending) <= ChannelLimit /\ Len(fifo) <= FifoLimit
    /\ \A k \in DOMAIN fifo : Len(fifo[k].body) <= ChannelLimit

\* The two queues of signals that are not in a frame yet.
QueuesOrdered ==
    /\ \A i, j \in DOMAIN signals : i < j => signals[i] < signals[j]
    /\ \A i, j \in DOMAIN pending : i < j => pending[i] < pending[j]
    /\ \A i \in DOMAIN pending, j \in DOMAIN signals : pending[i] < signals[j]

\* The frames.
FramesOrdered ==
    /\ \A k \in DOMAIN fifo : \A i, j \in DOMAIN fifo[k].body :
          i < j => fifo[k].body[i] < fifo[k].body[j]
    /\ \A k, l \in DOMAIN fifo : k < l =>
          \A i \in DOMAIN fifo[k].body, j \in DOMAIN fifo[l].body :
             fifo[k].body[i] < fifo[l].body[j]

\* The frames come before the queues.
FramesFirst ==
    \A k \in DOMAIN fifo : \A i \in DOMAIN fifo[k].body :
       /\ \A j \in DOMAIN pending : fifo[k].body[i] < pending[j]
       /\ \A j \in DOMAIN signals : fifo[k].body[i] < signals[j]

\* What has left comes before what waits.
SentFirst ==
    \A x \in sent :
       /\ \A k \in DOMAIN fifo : \A i \in DOMAIN fifo[k].body : x < fifo[k].body[i]
       /\ \A j \in DOMAIN pending : x < pending[j]
       /\ \A j \in DOMAIN signals : x < signals[j]

\* The next signal of the SDK comes after all of them.
AllMade ==
    /\ \A x \in sent : x <= made
    /\ \A k \in DOMAIN fifo : \A i \in DOMAIN fifo[k].body : fifo[k].body[i] <= made
    /\ \A j \in DOMAIN pending : pending[j] <= made
    /\ \A j \in DOMAIN signals : signals[j] <= made

\* A frame of signals belongs to the session that is open.
FramesOfSession ==
    /\ net # "WEBSOCKET" => cloud = 0 /\ ~opening
    /\ opening => cloud = 0
    /\ \A k \in DOMAIN fifo :
          fifo[k].kind = "signals" => cloud # 0 /\ fifo[k].session = cloud

OrderInv ==
    /\ LineTypes /\ Limits
    /\ QueuesOrdered /\ FramesOrdered /\ FramesFirst /\ SentFirst /\ AllMade
    /\ FramesOfSession

\* Nothing is in the line at first.
LEMMA OrderInit == S!Init => OrderInv
  BY LinkAssumption, SMT DEF S!Init, OrderInv, LineTypes, Limits, QueuesOrdered, FramesOrdered,
     FramesFirst, SentFirst, AllMade, FramesOfSession

\* Everything in the line is a number.
LEMMA LineNumbers ==
    ASSUME OrderInv
    PROVE  /\ made \in Nat /\ \A x \in sent : x \in Nat
           /\ Len(signals) \in Nat /\ DOMAIN signals = 1 .. Len(signals)
           /\ \A j \in DOMAIN signals : signals[j] \in Nat
           /\ Len(pending) \in Nat /\ DOMAIN pending = 1 .. Len(pending)
           /\ \A j \in DOMAIN pending : pending[j] \in Nat
           /\ Len(fifo) \in Nat /\ DOMAIN fifo = 1 .. Len(fifo)
           /\ \A k \in DOMAIN fifo :
                 /\ fifo[k] \in AFrame
                 /\ DOMAIN fifo[k].body = 1 .. Len(fifo[k].body) /\ Len(fifo[k].body) \in Nat
                 /\ \A i \in DOMAIN fifo[k].body :
                       fifo[k].body[i] \in Nat /\ fifo[k].body[i] \in 1 .. MaxSignals
  <1>1. LineTypes
    BY DEF OrderInv
  <1>2. \A k \in DOMAIN fifo : fifo[k] \in AFrame
    BY <1>1, SMT DEF LineTypes
  <1>3. ASSUME NEW f \in AFrame
        PROVE  /\ DOMAIN f.body = 1 .. Len(f.body) /\ Len(f.body) \in Nat
               /\ \A i \in DOMAIN f.body : f.body[i] \in Nat /\ f.body[i] \in 1 .. MaxSignals
    <2>1. f.body \in Seq(1 .. MaxSignals)
      BY <1>3, SMT DEF AFrame
    <2> QED
      BY <2>1, LinkAssumption, SMT
  <1> QED
    BY <1>1, <1>2, <1>3, LinkAssumption, SMTT(60) DEF LineTypes

orderVars == <<made, sessions, cloud, signals, pending, sent, fifo, net, opening>>

\* The order rests on the line and the session.
LEMMA OrderStutter == ASSUME OrderInv, UNCHANGED orderVars PROVE OrderInv'
  BY DEF orderVars, OrderInv, LineTypes, Limits, QueuesOrdered, FramesOrdered, FramesFirst,
     SentFirst, AllMade, FramesOfSession

\* A control frame carries no signal, wherever it queues.
LEMMA ControlFrame ==
    ASSUME NEW kind \in {"upgrade", "open", "ping"}
    PROVE  /\ S!Control(kind) \in AFrame /\ DOMAIN S!Control(kind).body = {}
           /\ Len(S!Control(kind).body) = 0 /\ S!Control(kind).kind # "signals"
  BY LinkAssumption, SMT DEF S!Control, AFrame, FrameKinds

\* A new signal comes after all that were made.
LEMMA OrderSendSignal == ASSUME OrderInv, S!SendSignal PROVE OrderInv'
  <1>1. /\ made' = made + 1 /\ signals' = Append(signals, made + 1)
        /\ made < MaxSignals /\ Len(signals) < SignalLimit
        /\ UNCHANGED <<sessions, cloud, pending, sent, fifo, net, opening>>
    BY DEF S!SendSignal, S!channelVars, S!cloudVars
  <1>2. LineTypes' /\ Limits'
    BY <1>1, LinkAssumption, SMT DEF OrderInv, LineTypes, Limits
  <1>3. \A j \in DOMAIN signals' :
           \/ j \in DOMAIN signals /\ signals'[j] = signals[j] /\ j < Len(signals) + 1
           \/ j = Len(signals) + 1 /\ signals'[j] = made + 1
    BY <1>1, SMT DEF OrderInv, LineTypes
  <1>4. QueuesOrdered'
    BY <1>1, <1>3, LineNumbers, SMT DEF OrderInv, QueuesOrdered, AllMade
  <1>5. FramesFirst'
    BY <1>1, <1>3, LineNumbers, SMTT(60) DEF OrderInv, FramesFirst, AllMade
  <1>7. SentFirst'
    BY <1>1, <1>3, LineNumbers, SMT DEF OrderInv, SentFirst, AllMade
  <1>8. AllMade'
    BY <1>1, <1>3, LineNumbers, SMT DEF OrderInv, AllMade
  <1>6. FramesOrdered' /\ FramesOfSession'
    BY <1>1 DEF OrderInv, FramesOrdered, FramesOfSession
  <1> QED
    BY <1>2, <1>4, <1>5, <1>6, <1>7, <1>8 DEF OrderInv

\* The frames are dropped with their session.
LEMMA OrderDisconnected ==
    ASSUME OrderInv, NEW next \in {"IDLE", "TLS"}, S!Disconnected(next),
           UNCHANGED <<made, sessions, signals, pending, sent>>
    PROVE  OrderInv'
  <1>1. fifo' = <<>> /\ net' = next /\ cloud' = 0 /\ opening' = FALSE
    BY DEF S!Disconnected
  <1>2. LineTypes' /\ Limits' /\ FramesOfSession'
    BY <1>1, LinkAssumption, SMT DEF OrderInv, LineTypes, Limits, FramesOfSession
  <1>3. QueuesOrdered'
    BY DEF OrderInv, QueuesOrdered
  <1>4. FramesOrdered' /\ FramesFirst' /\ SentFirst' /\ AllMade'
    BY <1>1, SMT DEF OrderInv, FramesOrdered, FramesFirst, SentFirst, AllMade
  <1> QED
    BY <1>2, <1>3, <1>4 DEF OrderInv

\* A control frame queues behind the others, or opens a connection alone.
LEMMA OrderControl ==
    ASSUME OrderInv, NEW kind \in {"upgrade", "open", "ping"},
           \/ fifo' = Append(fifo, S!Control(kind)) /\ Len(fifo) < FifoLimit
           \/ fifo' = <<S!Control(kind)>>,
           FramesOfSession', UNCHANGED <<made, sessions, cloud, signals, pending, sent>>
    PROVE  OrderInv'
  <1> DEFINE c == S!Control(kind)
  <1>1. c \in AFrame /\ DOMAIN c.body = {} /\ Len(c.body) = 0
    BY ControlFrame
  <1> HIDE DEF c
  <1>2. /\ LineTypes' /\ Limits'
        /\ \A k \in DOMAIN fifo' : fifo'[k] = c \/ (k \in DOMAIN fifo /\ fifo'[k] = fifo[k])
    <2>1. CASE fifo' = Append(fifo, c) /\ Len(fifo) < FifoLimit
      BY <1>1, <2>1, LinkAssumption, SMTT(60) DEF OrderInv, LineTypes, Limits
    <2>2. CASE fifo' = <<c>>
      BY <1>1, <2>2, LinkAssumption, SMT DEF OrderInv, LineTypes, Limits
    <2> QED
      BY <2>1, <2>2 DEF c
  <1>3. QueuesOrdered'
    BY DEF OrderInv, QueuesOrdered
  <1>4. FramesOrdered' /\ FramesFirst' /\ SentFirst' /\ AllMade'
    BY <1>1, <1>2, SMT DEF OrderInv, FramesOrdered, FramesFirst, SentFirst, AllMade
  <1> QED
    BY <1>2, <1>3, <1>4 DEF OrderInv

\* The SDK's queue goes to the end of the channel, as far as there is room.
LEMMA OrderSwap == ASSUME OrderInv, S!SwapSignals PROVE OrderInv'
  <1> DEFINE all == pending \o signals
  <1>1. /\ signals' = <<>>
        /\ UNCHANGED <<made, sessions, cloud, sent, fifo, net, opening>>
    BY DEF S!SwapSignals, S!cloudVars
  <1>0. PICK room \in IF broken THEN {Len(pending)} ELSE Len(pending) .. ChannelLimit :
           pending' = IF Len(all) <= room THEN all ELSE SubSeq(all, 1, room)
    BY DEF S!SwapSignals
  <1>2. all \in Seq(1 .. MaxSignals) /\ Len(all) = Len(pending) + Len(signals)
    BY SMT DEF OrderInv, LineTypes
  <1>3. room \in Nat /\ room <= ChannelLimit
    BY LinkAssumption, LineNumbers, SMT DEF OrderInv, Limits
  <1>4. \A j \in 1 .. Len(all) :
           \/ j \in DOMAIN pending /\ all[j] = pending[j] /\ j <= Len(pending)
           \/ j - Len(pending) \in DOMAIN signals /\ all[j] = signals[j - Len(pending)]
              /\ j > Len(pending)
    BY LineNumbers, SMT DEF OrderInv, LineTypes
  <1> HIDE DEF all
  <1>5. /\ pending' \in Seq(1 .. MaxSignals) /\ Len(pending') <= ChannelLimit
        /\ \A j \in DOMAIN pending' : j \in 1 .. Len(all) /\ pending'[j] = all[j]
    <2>1. CASE Len(all) <= room
      BY <1>0, <1>2, <1>3, <2>1, LinkAssumption, SMT
    <2>2. CASE ~(Len(all) <= room)
      BY <1>0, <1>2, <1>3, <2>2, LinkAssumption, SMT
    <2> QED
      BY <2>1, <2>2
  <1>6. LineTypes' /\ Limits'
    <2>1. signals' \in Seq(1 .. MaxSignals) /\ Len(signals') <= SignalLimit
      BY <1>1, LinkAssumption, SMT
    <2> QED
      BY <1>1, <1>5, <2>1 DEF OrderInv, LineTypes, Limits
  <1>7. DOMAIN signals' = {}
    BY <1>1, SMT
  <1>8. \A j \in DOMAIN pending' :
           \/ j \in DOMAIN pending /\ pending'[j] = pending[j] /\ j <= Len(pending)
           \/ j > Len(pending) /\ \E i \in DOMAIN signals :
                                     i = j - Len(pending) /\ pending'[j] = signals[i]
    BY <1>4, <1>5
  <1>9. QueuesOrdered'
    <2> SUFFICES ASSUME NEW i \in DOMAIN pending', NEW j \in DOMAIN pending', i < j
                 PROVE  pending'[i] < pending'[j]
      BY <1>7 DEF QueuesOrdered
    <2>1. i \in Nat /\ j \in Nat
      BY <1>5, <1>2, SMT
    <2>2. CASE j \in DOMAIN pending /\ pending'[j] = pending[j] /\ j <= Len(pending)
      <3>1. i \in DOMAIN pending /\ pending'[i] = pending[i]
        BY <1>8, <2>1, <2>2, LineNumbers, SMT
      <3> QED
        BY <2>2, <3>1 DEF OrderInv, QueuesOrdered
    <2>3. CASE j > Len(pending) /\ \E k \in DOMAIN signals :
                                      k = j - Len(pending) /\ pending'[j] = signals[k]
      <3>1. CASE i \in DOMAIN pending /\ pending'[i] = pending[i]
        BY <2>3, <3>1 DEF OrderInv, QueuesOrdered
      <3>2. CASE \E k \in DOMAIN signals : k = i - Len(pending) /\ pending'[i] = signals[k]
        <4>1. i - Len(pending) < j - Len(pending)
          BY <2>1, LineNumbers, SMT
        <4> QED
          BY <2>3, <3>2, <4>1 DEF OrderInv, QueuesOrdered
      <3> QED
        BY <1>8, <3>1, <3>2
    <2> QED
      BY <1>8, <2>2, <2>3
  <1>12. \A j \in DOMAIN pending' : \/ \E i \in DOMAIN pending : pending'[j] = pending[i]
                                    \/ \E i \in DOMAIN signals : pending'[j] = signals[i]
    BY <1>8
  <1>10. FramesFirst'
    <2> SUFFICES ASSUME NEW k \in DOMAIN fifo, NEW i \in DOMAIN fifo[k].body,
                        NEW j \in DOMAIN pending'
                 PROVE  fifo[k].body[i] < pending'[j]
      BY <1>1, <1>7 DEF FramesFirst
    <2> QED
      BY <1>12 DEF OrderInv, FramesFirst
  <1>13. SentFirst'
    <2> SUFFICES ASSUME NEW x \in sent, NEW j \in DOMAIN pending' PROVE x < pending'[j]
      BY <1>1, <1>7 DEF SentFirst, OrderInv
    <2> QED
      BY <1>12 DEF OrderInv, SentFirst
  <1>14. AllMade'
    <2> SUFFICES ASSUME NEW j \in DOMAIN pending' PROVE pending'[j] <= made
      BY <1>1, <1>7 DEF AllMade, OrderInv
    <2> QED
      BY <1>12 DEF OrderInv, AllMade
  <1>11. FramesOrdered' /\ FramesOfSession'
    BY <1>1 DEF OrderInv, FramesOrdered, FramesOfSession
  <1> QED
    BY <1>6, <1>9, <1>10, <1>11, <1>13, <1>14 DEF OrderInv

\* What the socket takes is the front of the frames.
LEMMA OrderDrained ==
    ASSUME OrderInv, NEW n \in 0 .. Len(fifo),
           sent' = sent \union S!Bodies(SubSeq(fifo, 1, n)),
           fifo' = SubSeq(fifo, n + 1, Len(fifo)),
           UNCHANGED <<made, sessions, cloud, signals, pending, net, opening>>
    PROVE  OrderInv'
  <1>1. /\ fifo' \in Seq(AFrame) /\ Len(fifo') <= Len(fifo)
        /\ \A k \in DOMAIN fifo' : n + k \in DOMAIN fifo /\ fifo'[k] = fifo[n + k] /\ k \in Nat
    BY SMT DEF OrderInv, LineTypes
  <1>2. \A x \in sent' : x \in sent \/ \E k \in DOMAIN fifo : k <= n /\
                                          \E i \in DOMAIN fifo[k].body : x = fifo[k].body[i]
    <2> DEFINE front == SubSeq(fifo, 1, n)
    <2>1. \A k \in DOMAIN front : k \in DOMAIN fifo /\ k <= n /\ front[k] = fifo[k]
      BY SMT DEF OrderInv, LineTypes
    <2>2. \A x \in S!Bodies(front) : \E k \in DOMAIN front : \E i \in DOMAIN front[k].body :
              x = front[k].body[i]
      BY DEF S!Bodies, S!Range
    <2> HIDE DEF front
    <2> QED
      BY <2>1, <2>2 DEF front
  <1>3. sent' \subseteq 1 .. MaxSignals
    <2> SUFFICES ASSUME NEW x \in sent' PROVE x \in 1 .. MaxSignals
      OBVIOUS
    <2> QED
      BY <1>2, LineNumbers, ZenonT(60) DEF OrderInv, LineTypes
  <1>4. LineTypes' /\ Limits'
    BY <1>1, <1>3, LinkAssumption, SMT DEF OrderInv, LineTypes, Limits
  <1>5. FramesOrdered'
    <2>1. \A k, l \in DOMAIN fifo' : k < l => n + k < n + l
      BY <1>1, SMT
    <2>2. \A k \in DOMAIN fifo' : \A i, j \in DOMAIN fifo'[k].body :
             i < j => fifo'[k].body[i] < fifo'[k].body[j]
      BY <1>1 DEF OrderInv, FramesOrdered
    <2>3. ASSUME NEW k \in DOMAIN fifo', NEW l \in DOMAIN fifo', k < l
          PROVE  \A i \in DOMAIN fifo'[k].body, j \in DOMAIN fifo'[l].body :
                    fifo'[k].body[i] < fifo'[l].body[j]
      <3>1. /\ n + k \in DOMAIN fifo /\ fifo'[k] = fifo[n + k]
            /\ n + l \in DOMAIN fifo /\ fifo'[l] = fifo[n + l] /\ n + k < n + l
        BY <1>1, <2>1, <2>3
      <3> QED
        BY <3>1 DEF OrderInv, FramesOrdered
    <2> QED
      BY <2>2, <2>3 DEF FramesOrdered
  <1>6. FramesFirst' /\ FramesOfSession'
    BY <1>1, SMTT(60) DEF OrderInv, FramesFirst, FramesOfSession
  <1>7. QueuesOrdered'
    BY DEF OrderInv, QueuesOrdered
  <1>8. AllMade'
    BY <1>1, <1>2 DEF OrderInv, AllMade
  <1>9. SentFirst'
    <2> SUFFICES ASSUME NEW x \in sent' PROVE
           /\ \A k \in DOMAIN fifo' : \A i \in DOMAIN fifo'[k].body : x < fifo'[k].body[i]
           /\ \A j \in DOMAIN pending : x < pending[j]
           /\ \A j \in DOMAIN signals : x < signals[j]
      BY DEF SentFirst
    <2>1. CASE x \in sent
      BY <1>1, <2>1 DEF OrderInv, SentFirst
    <2>2. CASE x \notin sent
      <3>1. PICK k \in DOMAIN fifo : k <= n /\ \E i \in DOMAIN fifo[k].body : x = fifo[k].body[i]
        BY <1>2, <2>2
      <3>2. \A l \in DOMAIN fifo' : n + l \in DOMAIN fifo /\ k < n + l /\ fifo'[l] = fifo[n + l]
        BY <1>1, <3>1, LineNumbers, SMT
      <3> QED
        BY <3>1, <3>2 DEF OrderInv, FramesOrdered, FramesFirst
    <2> QED
      BY <2>1, <2>2
  <1> QED
    BY <1>4, <1>5, <1>6, <1>7, <1>8, <1>9 DEF OrderInv

\* A queue is its front and its rest.
LEMMA SplitQueue ==
    ASSUME NEW Item, NEW q \in Seq(Item), NEW n \in 0 .. Len(q)
    PROVE  /\ SubSeq(q, 1, n) \in Seq(Item) /\ Len(SubSeq(q, 1, n)) = n
           /\ DOMAIN SubSeq(q, 1, n) = 1 .. n
           /\ \A i \in 1 .. n : SubSeq(q, 1, n)[i] = q[i] /\ i \in DOMAIN q /\ i \in Nat
           /\ SubSeq(q, n + 1, Len(q)) \in Seq(Item)
           /\ Len(SubSeq(q, n + 1, Len(q))) = Len(q) - n
           /\ DOMAIN SubSeq(q, n + 1, Len(q)) = 1 .. Len(q) - n
           /\ \A j \in 1 .. Len(q) - n :
                 SubSeq(q, n + 1, Len(q))[j] = q[n + j] /\ n + j \in DOMAIN q
  <1>1. Len(q) \in Nat /\ n \in Nat /\ n <= Len(q) /\ DOMAIN q = 1 .. Len(q)
    BY SMT
  <1>2. /\ SubSeq(q, 1, n) \in Seq(Item) /\ Len(SubSeq(q, 1, n)) = n
        /\ \A i \in 1 .. n : SubSeq(q, 1, n)[i] = q[i]
    BY <1>1, SMTT(60)
  <1>3. /\ SubSeq(q, n + 1, Len(q)) \in Seq(Item)
        /\ Len(SubSeq(q, n + 1, Len(q))) = Len(q) - n
        /\ \A j \in 1 .. Len(q) - n : SubSeq(q, n + 1, Len(q))[j] = q[n + j]
    <2>1. n + 1 \in 1 .. Len(q) + 1 /\ Len(q) \in n .. Len(q) + 1
      BY <1>1, SMT
    <2>2. /\ SubSeq(q, n + 1, Len(q)) \in Seq(Item)
          /\ Len(SubSeq(q, n + 1, Len(q))) =
                IF n + 1 <= Len(q) THEN Len(q) - (n + 1) + 1 ELSE 0
          /\ \A i \in 1 .. Len(q) - (n + 1) + 1 :
                SubSeq(q, n + 1, Len(q))[i] = q[n + 1 + i - 1]
      BY <1>1, <2>1, SubSeqProperties, SMTT(60)
    <2>3. /\ n + 1 <= Len(q) \/ Len(q) - n = 0
          /\ Len(q) - (n + 1) + 1 = Len(q) - n
      <3>1. ASSUME NEW l \in Nat, NEW k \in Nat, k <= l
            PROVE  (k + 1 <= l \/ l - k = 0) /\ l - (k + 1) + 1 = l - k
        BY <3>1, SMT
      <3> QED
        BY <1>1, <3>1, Zenon
    <2>4. \A i \in 1 .. Len(q) - n : n + 1 + i - 1 = n + i
      BY <1>1, SMT
    <2> QED
      BY <2>2, <2>3, <2>4, Zenon
  <1>4. DOMAIN SubSeq(q, 1, n) = 1 .. n /\ DOMAIN SubSeq(q, n + 1, Len(q)) = 1 .. Len(q) - n
    BY <1>1, <1>2, <1>3, SMT
  <1>5. /\ \A i \in 1 .. n : i \in DOMAIN q /\ i \in Nat
        /\ \A j \in 1 .. Len(q) - n : n + j \in DOMAIN q
    BY <1>1, SMT
  <1> QED
    BY <1>2, <1>3, <1>4, <1>5

\* A batch is moved from the front of the channel into a frame of the open session.
LEMMA SplitPending ==
    ASSUME pending \in Seq(1 .. MaxSignals), NEW n \in 0 .. Len(pending)
    PROVE  /\ SubSeq(pending, 1, n) \in Seq(1 .. MaxSignals) /\ Len(SubSeq(pending, 1, n)) = n
           /\ DOMAIN SubSeq(pending, 1, n) = 1 .. n
           /\ \A i \in 1 .. n :
                 SubSeq(pending, 1, n)[i] = pending[i] /\ i \in DOMAIN pending /\ i \in Nat
           /\ SubSeq(pending, n + 1, Len(pending)) \in Seq(1 .. MaxSignals)
           /\ Len(SubSeq(pending, n + 1, Len(pending))) = Len(pending) - n
           /\ DOMAIN SubSeq(pending, n + 1, Len(pending)) = 1 .. Len(pending) - n
           /\ \A j \in 1 .. Len(pending) - n :
                 /\ SubSeq(pending, n + 1, Len(pending))[j] = pending[n + j]
                 /\ n + j \in DOMAIN pending
  BY SplitQueue, Zenon

\* The frame that takes the batch joins the other frames behind them.
LEMMA OrderFlush ==
    ASSUME OrderInv, NEW n \in 1 .. Len(pending), cloud # 0, Len(fifo) < FifoLimit,
           fifo' = Append(fifo, [kind |-> "signals", session |-> cloud,
                                 body |-> SubSeq(pending, 1, n)]),
           pending' = SubSeq(pending, n + 1, Len(pending)),
           UNCHANGED <<made, sessions, cloud, signals, sent, net, opening>>
    PROVE  OrderInv'
  <1> DEFINE batch == SubSeq(pending, 1, n)
             frame == [kind |-> "signals", session |-> cloud, body |-> batch]
  <1>0. /\ pending \in Seq(1 .. MaxSignals) /\ Len(pending) \in Nat /\ n \in 0 .. Len(pending)
        /\ Len(pending) <= ChannelLimit /\ ChannelLimit \in Nat
    BY LinkAssumption, LineNumbers, SMT DEF OrderInv, LineTypes, Limits
  <1> DEFINE rest == SubSeq(pending, n + 1, Len(pending))
  <1>20. /\ batch \in Seq(1 .. MaxSignals) /\ Len(batch) = n /\ DOMAIN batch = 1 .. n
         /\ \A i \in 1 .. n : batch[i] = pending[i] /\ i \in DOMAIN pending /\ i \in Nat
         /\ rest \in Seq(1 .. MaxSignals) /\ Len(rest) = Len(pending) - n
         /\ DOMAIN rest = 1 .. Len(pending) - n
         /\ \A j \in 1 .. Len(pending) - n :
               rest[j] = pending[n + j] /\ n + j \in DOMAIN pending
    BY <1>0, SplitPending
  <1>21. /\ n <= ChannelLimit /\ Len(pending) - n <= ChannelLimit
         /\ \A i \in 1 .. n : i <= n
         /\ \A j \in 1 .. Len(pending) - n : j \in Nat /\ j >= 1
    BY <1>0, SMT
  <1>22. pending' = rest
    OBVIOUS
  <1> HIDE DEF batch, rest
  <1>1. /\ batch \in Seq(1 .. MaxSignals) /\ Len(batch) = n /\ n <= ChannelLimit
        /\ \A i \in DOMAIN batch : i \in DOMAIN pending /\ i \in Nat /\ i <= n
                                   /\ batch[i] = pending[i]
    BY <1>20, <1>21
  <1>2. /\ pending' \in Seq(1 .. MaxSignals) /\ Len(pending') <= ChannelLimit
        /\ \A j \in DOMAIN pending' : n + j \in DOMAIN pending /\ j \in Nat /\ j >= 1
                                      /\ pending'[j] = pending[n + j]
    BY <1>20, <1>21, <1>22
  <1>3. /\ frame \in AFrame /\ frame.body = batch
        /\ frame.kind = "signals" /\ frame.session = cloud
    <2>1. cloud \in 0 .. MaxSessions
      BY LinkAssumption, SMT DEF OrderInv, LineTypes
    <2> QED
      BY <1>1, <2>1, Zenon DEF AFrame, FrameKinds
  <1>4. fifo' = Append(fifo, frame)
    BY DEF batch
  <1> HIDE DEF frame
  <1>5. /\ fifo' \in Seq(AFrame) /\ Len(fifo') <= FifoLimit
        /\ \A k \in DOMAIN fifo' :
              \/ k \in DOMAIN fifo /\ fifo'[k] = fifo[k] /\ k <= Len(fifo)
              \/ k = Len(fifo) + 1 /\ fifo'[k] = frame
    <2>1. fifo \in Seq(AFrame) /\ frame \in AFrame /\ FifoLimit \in Nat
      BY <1>3, LinkAssumption DEF OrderInv, LineTypes
    <2> QED
      BY <1>4, <2>1, SMT
  <1>6. LineTypes' /\ Limits' /\ FramesOfSession'
    BY <1>1, <1>2, <1>3, <1>5, SMTT(60) DEF OrderInv, LineTypes, Limits, FramesOfSession
  <1>7. QueuesOrdered'
    <2>1. \A i, j \in DOMAIN pending' : i < j => n + i < n + j
      BY <1>2, SMT
    <2> QED
      BY <1>2, <2>1, ZenonT(60) DEF OrderInv, QueuesOrdered
  <1>8. FramesOrdered'
    <2>1. ASSUME NEW k \in DOMAIN fifo', NEW i \in DOMAIN fifo'[k].body,
                 NEW j \in DOMAIN fifo'[k].body, i < j
          PROVE  fifo'[k].body[i] < fifo'[k].body[j]
      BY <1>1, <1>3, <1>5, <2>1 DEF OrderInv, FramesOrdered, QueuesOrdered
    <2>2. ASSUME NEW k \in DOMAIN fifo', NEW l \in DOMAIN fifo', k < l,
                 NEW i \in DOMAIN fifo'[k].body, NEW j \in DOMAIN fifo'[l].body
          PROVE  fifo'[k].body[i] < fifo'[l].body[j]
      <3>1. k \in DOMAIN fifo /\ fifo'[k] = fifo[k]
        BY <1>5, <2>2, LineNumbers, SMT
      <3> QED
        BY <1>1, <1>3, <1>5, <2>2, <3>1, SMTT(60) DEF OrderInv, FramesOrdered, FramesFirst
    <2> QED
      BY <2>1, <2>2 DEF FramesOrdered
  <1>9. FramesFirst'
    <2> SUFFICES ASSUME NEW k \in DOMAIN fifo', NEW i \in DOMAIN fifo'[k].body
                 PROVE  /\ \A j \in DOMAIN pending' : fifo'[k].body[i] < pending'[j]
                        /\ \A j \in DOMAIN signals : fifo'[k].body[i] < signals[j]
      BY DEF FramesFirst
    <2>1. CASE k \in DOMAIN fifo /\ fifo'[k] = fifo[k]
      BY <1>2, <2>1 DEF OrderInv, FramesFirst
    <2>2. CASE fifo'[k] = frame
      <3>1. i \in DOMAIN pending /\ i \in Nat /\ i <= n /\ fifo'[k].body[i] = pending[i]
        BY <1>1, <1>3, <2>2
      <3>2. \A j \in DOMAIN pending' : i < n + j
        BY <1>2, <3>1, SMT
      <3> QED
        BY <1>2, <3>1, <3>2 DEF OrderInv, QueuesOrdered
    <2> QED
      BY <1>5, <2>1, <2>2
  <1>10. SentFirst'
    <2> SUFFICES ASSUME NEW x \in sent
                 PROVE  /\ \A k \in DOMAIN fifo' : \A i \in DOMAIN fifo'[k].body :
                              x < fifo'[k].body[i]
                        /\ \A j \in DOMAIN pending' : x < pending'[j]
                        /\ \A j \in DOMAIN signals : x < signals[j]
      BY DEF SentFirst
    <2> QED
      BY <1>1, <1>2, <1>3, <1>5 DEF OrderInv, SentFirst
  <1>11. AllMade'
    <2>1. \A k \in DOMAIN fifo' : \A i \in DOMAIN fifo'[k].body : fifo'[k].body[i] <= made
      BY <1>1, <1>3, <1>5 DEF OrderInv, AllMade
    <2> QED
      BY <1>2, <2>1 DEF OrderInv, AllMade
  <1> QED
    BY <1>6, <1>7, <1>8, <1>9, <1>10, <1>11 DEF OrderInv

\* What arrives, and what is lost with the connection.
LEMMA OrderLost ==
    ASSUME OrderInv, S!Lost \/ S!FailConnection, UNCHANGED <<made, signals, pending>>
    PROVE  OrderInv'
  <1>1. /\ \E next \in {"IDLE", "TLS"} : S!Disconnected(next)
        /\ UNCHANGED <<sessions, sent>>
    BY DEF S!Lost, S!FailConnection
  <1> QED
    BY <1>1, OrderDisconnected

\* What is received opens or ends a session, but moves no signal.
LEMMA OrderReceive ==
    ASSUME OrderInv, S!ReceiveNothing \/ S!ReceiveUpgrade \/ S!ReceiveSession \/ S!ReceivePing
    PROVE  OrderInv'
  <1>1. UNCHANGED <<made, signals, pending>>
    BY DEF S!ReceiveNothing, S!ReceiveUpgrade, S!ReceiveSession, S!ReceivePing, S!Reception,
           S!sdkVars, S!channelVars
  <1>2. CASE S!ReceiveNothing
    BY <1>1, <1>2, OrderLost, OrderStutter DEF S!ReceiveNothing, S!cloudVars, orderVars
  <1>3. CASE S!ReceiveUpgrade
    <2>1. /\ fifo' = <<S!Control("open")>> /\ net' = "WEBSOCKET" /\ opening' = TRUE
          /\ net = "UPGRADE" /\ UNCHANGED <<made, sessions, cloud, signals, pending, sent>>
      BY <1>1, <1>3 DEF S!ReceiveUpgrade
    <2>2. DOMAIN fifo' = {1} /\ fifo'[1] = S!Control("open")
      BY <2>1, SMT
    <2>3. FramesOfSession'
      BY <2>1, <2>2, ControlFrame DEF OrderInv, FramesOfSession
    <2> QED
      BY <2>1, <2>3, OrderControl
  <1>4. CASE S!ReceiveSession
    <2>1. CASE S!FailConnection
      BY <1>1, <2>1, OrderLost
    <2>2. CASE ~S!FailConnection
      <3>1. /\ net = "WEBSOCKET" /\ opening /\ sessions < MaxSessions
            /\ sessions' = sessions + 1 /\ cloud' = sessions + 1 /\ opening' = FALSE
            /\ UNCHANGED <<net, fifo, sent>>
        BY <1>4, <2>2 DEF S!ReceiveSession
      <3>2. \A k \in DOMAIN fifo : fifo[k].kind # "signals"
        BY <3>1 DEF OrderInv, FramesOfSession
      <3>3. LineTypes'
        BY <1>1, <3>1, LinkAssumption, SMT DEF OrderInv, LineTypes
      <3>4. FramesOfSession'
        BY <3>1, <3>2 DEF OrderInv, FramesOfSession
      <3> QED
        BY <1>1, <3>1, <3>3, <3>4 DEF OrderInv, Limits, QueuesOrdered, FramesOrdered,
           FramesFirst, SentFirst, AllMade
    <2> QED
      BY <2>1, <2>2
  <1>5. CASE S!ReceivePing
    <2>1. CASE S!FailConnection
      BY <1>1, <2>1, OrderLost
    <2>2. CASE ~S!FailConnection
      <3>1. /\ fifo' = Append(fifo, S!Control("ping")) /\ Len(fifo) < FifoLimit
            /\ UNCHANGED <<made, sessions, cloud, signals, pending, sent, net, opening>>
        BY <1>1, <1>5, <2>2 DEF S!ReceivePing
      <3>2. \A k \in DOMAIN fifo' : \/ k \in DOMAIN fifo /\ fifo'[k] = fifo[k]
                                   \/ fifo'[k] = S!Control("ping")
        BY <3>1, SMT DEF OrderInv, LineTypes
      <3>3. FramesOfSession'
        BY <3>1, <3>2, ControlFrame DEF OrderInv, FramesOfSession
      <3> QED
        BY <3>1, <3>3, OrderControl
    <2> QED
      BY <2>1, <2>2
  <1> QED
    BY <1>2, <1>3, <1>4, <1>5

\* Every step of the link keeps the order.
LEMMA OrderNext == ASSUME OrderInv, S!Next PROVE OrderInv'
  <1>1. CASE S!SendSignal
    BY <1>1, OrderSendSignal
  <1>2. CASE S!SwapSignals
    BY <1>2, OrderSwap
  <1>3. CASE S!BridgeUpdate
    <2>1. UNCHANGED <<made, signals, pending>>
      BY <1>3 DEF S!BridgeUpdate, S!sdkVars, S!channelVars
    <2>2. CASE S!Disconnected("IDLE") /\ UNCHANGED <<sessions, sent>>
      BY <2>1, <2>2, OrderDisconnected
    <2>3. CASE ~(S!Disconnected("IDLE") /\ UNCHANGED <<sessions, sent>>)
      <3>1. /\ UNCHANGED <<fifo, cloud, opening, sessions, sent>>
            /\ net' = net \/ (net = "IDLE" /\ net' = "TLS")
        BY <1>3, <2>3 DEF S!BridgeUpdate, S!cloudVars
      <3>2. FramesOfSession'
        BY <3>1 DEF OrderInv, FramesOfSession
      <3> QED
        BY <2>1, <3>1, <3>2 DEF OrderInv, LineTypes, Limits, QueuesOrdered, FramesOrdered,
           FramesFirst, SentFirst, AllMade
    <2> QED
      BY <2>2, <2>3
  <1>4. CASE S!Connect
    <2>1. UNCHANGED <<made, signals, pending>> /\ net = "TLS"
      BY <1>4 DEF S!Connect, S!sdkVars, S!channelVars
    <2>2. CASE UNCHANGED S!cloudVars
      BY <2>1, <2>2, OrderStutter DEF S!cloudVars, orderVars
    <2>3. CASE S!FailConnection
      BY <2>1, <2>3, OrderLost
    <2>4. CASE /\ net' = "UPGRADE" /\ fifo' = <<S!Control("upgrade")>>
               /\ UNCHANGED <<cloud, opening, sessions, sent>>
      <3>1. DOMAIN fifo' = {1} /\ fifo'[1] = S!Control("upgrade")
        BY <2>4, SMT
      <3>2. FramesOfSession'
        BY <2>1, <2>4, <3>1, ControlFrame DEF OrderInv, FramesOfSession
      <3> QED
        BY <2>1, <2>4, <3>2, OrderControl
    <2> QED
      BY <1>4, <2>2, <2>3, <2>4 DEF S!Connect
  <1>5. CASE S!Drain
    <2>1. UNCHANGED <<made, signals, pending>>
      BY <1>5 DEF S!Drain, S!sdkVars, S!channelVars
    <2>2. CASE S!Lost
      BY <2>1, <2>2, OrderLost
    <2>3. ASSUME NEW n \in 0 .. Len(fifo),
                 sent' = sent \union S!Bodies(SubSeq(fifo, 1, n)),
                 fifo' = SubSeq(fifo, n + 1, Len(fifo)),
                 UNCHANGED <<net, cloud, opening, sessions>>
          PROVE  OrderInv'
      BY <2>1, <2>3, OrderDrained
    <2> QED
      BY <1>5, <2>2, <2>3 DEF S!Drain
  <1>6. CASE S!ReceiveNothing \/ S!ReceiveUpgrade \/ S!ReceiveSession \/ S!ReceivePing
    BY <1>6, OrderReceive
  <1>7. CASE S!Flush
    <2>1. UNCHANGED <<made, signals, net, cloud, opening, sessions, sent>>
      BY <1>7 DEF S!Flush, S!sdkVars
    <2>2. CASE UNCHANGED <<fifo, pending>>
      BY <2>1, <2>2, OrderStutter DEF orderVars
    <2>3. ASSUME NEW n \in 1 .. Len(pending), S!Ready, Len(fifo) < FifoLimit,
                 fifo' = Append(fifo, [kind |-> "signals", session |-> cloud,
                                       body |-> SubSeq(pending, 1, n)]),
                 pending' = SubSeq(pending, n + 1, Len(pending))
          PROVE  OrderInv'
      BY <2>1, <2>3, OrderFlush DEF S!Ready
    <2> QED
      BY <1>7, <2>2, <2>3 DEF S!Flush
  <1>8. CASE \/ S!TestDatagram \/ S!Sleep \/ S!WaitExpires \/ S!TakeDatagram \/ S!Unlink
             \/ S!StoreClosed \/ S!StoreFailed \/ S!ClearDatagrams
    BY <1>8, OrderStutter DEF S!TestDatagram, S!Sleep, S!WaitExpires, S!TakeDatagram, S!Player,
       S!Unlink, S!StoreClosed, S!StoreFailed, S!ClearDatagrams, S!sdkVars,
       S!channelVars, S!cloudVars, orderVars
  <1>9. CASE \/ S!Prepare \/ S!BeginConnection \/ S!Check \/ S!ReceiveSignal \/ S!BecomeReady
             \/ S!ReceiveMessages \/ S!StartSession \/ S!Destroy
    BY <1>9, OrderStutter DEF S!Prepare, S!BeginConnection, S!Check, S!ReceiveSignal,
       S!BecomeReady, S!ReceiveMessages, S!StartSession, S!Destroy, S!sdkVars, S!channelVars,
       S!cloudVars, orderVars
  <1> QED
    BY <1>1, <1>2, <1>3, <1>4, <1>5, <1>6, <1>7, <1>8, <1>9 DEF S!Next

\* The line is the frames, the channel and the SDK's queue.
LEMMA LineParts ==
    ASSUME OrderInv
    PROVE  /\ \A i \in DOMAIN S!Line :
                 \/ i \in DOMAIN fifo /\ S!Line[i] = fifo[i].body /\ i <= Len(fifo)
                 \/ i = Len(fifo) + 1 /\ S!Line[i] = pending
                 \/ i = Len(fifo) + 2 /\ S!Line[i] = signals
  <1> DEFINE bodies == [i \in DOMAIN fifo |-> fifo[i].body]
  <1>1. Len(fifo) \in Nat /\ DOMAIN fifo = 1 .. Len(fifo)
    BY LineNumbers
  <1>2. bodies \in Seq(Seq(1 .. MaxSignals)) /\ Len(bodies) = Len(fifo)
        /\ \A i \in 1 .. Len(fifo) : bodies[i] = fifo[i].body
    <2>1. \A i \in 1 .. Len(fifo) : fifo[i].body \in Seq(1 .. MaxSignals)
      BY <1>1, LineNumbers DEF AFrame
    <2>2. bodies \in [1 .. Len(fifo) -> Seq(1 .. MaxSignals)]
      BY <1>1, <2>1
    <2> QED
      BY <1>1, <2>2, SMT
  <1>3. pending \in Seq(1 .. MaxSignals) /\ signals \in Seq(1 .. MaxSignals)
    BY DEF OrderInv, LineTypes
  <1> HIDE DEF bodies
  <1>4. /\ Len(bodies \o <<pending, signals>>) = Len(fifo) + 2
        /\ DOMAIN (bodies \o <<pending, signals>>) = 1 .. Len(fifo) + 2
        /\ \A i \in 1 .. Len(fifo) : (bodies \o <<pending, signals>>)[i] = bodies[i]
        /\ (bodies \o <<pending, signals>>)[Len(fifo) + 1] = pending
        /\ (bodies \o <<pending, signals>>)[Len(fifo) + 2] = signals
    <2> DEFINE two == <<pending, signals>>
    <2>1. two \in Seq(Seq(1 .. MaxSignals)) /\ Len(two) = 2 /\ two[1] = pending
          /\ two[2] = signals
      BY <1>3, SMT
    <2> HIDE DEF two
    <2>2. /\ Len(bodies \o two) = Len(bodies) + Len(two)
          /\ bodies \o two \in Seq(Seq(1 .. MaxSignals))
          /\ \A i \in 1 .. Len(bodies) + Len(two) :
                (bodies \o two)[i] = IF i <= Len(bodies) THEN bodies[i] ELSE two[i - Len(bodies)]
      BY <1>2, <2>1, ConcatProperties, ZenonT(60)
    <2>3. /\ Len(bodies \o two) = Len(fifo) + 2
          /\ \A i \in 1 .. Len(fifo) + 2 :
                (bodies \o two)[i] = IF i <= Len(fifo) THEN bodies[i] ELSE two[i - Len(fifo)]
      BY <1>2, <2>1, <2>2, Zenon
    <2>4. DOMAIN (bodies \o two) = 1 .. Len(fifo) + 2
      BY <2>2, <2>3, SMT
    <2>5. /\ \A i \in 1 .. Len(fifo) : i \in 1 .. Len(fifo) + 2 /\ i <= Len(fifo)
          /\ Len(fifo) + 1 \in 1 .. Len(fifo) + 2 /\ ~(Len(fifo) + 1 <= Len(fifo))
          /\ Len(fifo) + 2 \in 1 .. Len(fifo) + 2 /\ ~(Len(fifo) + 2 <= Len(fifo))
          /\ Len(fifo) + 1 - Len(fifo) = 1 /\ Len(fifo) + 2 - Len(fifo) = 2
      <3>1. ASSUME NEW l \in Nat
            PROVE  /\ \A i \in 1 .. l : i \in 1 .. l + 2 /\ i <= l
                   /\ l + 1 \in 1 .. l + 2 /\ ~(l + 1 <= l)
                   /\ l + 2 \in 1 .. l + 2 /\ ~(l + 2 <= l)
                   /\ l + 1 - l = 1 /\ l + 2 - l = 2
        BY <3>1, SMT
      <3> QED
        BY <1>1, <3>1
    <2>6. /\ \A i \in 1 .. Len(fifo) : (bodies \o two)[i] = bodies[i]
          /\ (bodies \o two)[Len(fifo) + 1] = two[1]
          /\ (bodies \o two)[Len(fifo) + 2] = two[2]
      BY <2>3, <2>5
    <2> QED
      BY <2>1, <2>3, <2>4, <2>6 DEF two
  <1>5. S!Line = bodies \o <<pending, signals>>
    BY DEF S!Line, bodies
  <1>6. \A i \in 1 .. Len(fifo) + 2 :
           (i \in 1 .. Len(fifo) /\ i <= Len(fifo)) \/ i = Len(fifo) + 1 \/ i = Len(fifo) + 2
    BY <1>1, SMT
  <1> QED
    BY <1>1, <1>2, <1>4, <1>5, <1>6

\* The order of the line is the order of its parts.
LEMMA LineOrdered == ASSUME OrderInv PROVE S!SignalsInOrder
  <1>1. ASSUME NEW i \in DOMAIN S!Line
        PROVE  S!Increasing(S!Line[i]) /\ S!Before(sent, S!Range(S!Line[i]))
    BY LineParts DEF S!Increasing, S!Before, S!Range, OrderInv, QueuesOrdered, FramesOrdered,
       SentFirst
  <1>2. ASSUME NEW i \in DOMAIN S!Line, NEW j \in DOMAIN S!Line, i < j
        PROVE  S!Before(S!Range(S!Line[i]), S!Range(S!Line[j]))
    <2>1. Len(fifo) \in Nat /\ DOMAIN fifo = 1 .. Len(fifo)
      BY LineNumbers
    <2>2. CASE i \in DOMAIN fifo /\ S!Line[i] = fifo[i].body
      BY <1>2, <2>2, LineParts
         DEF S!Before, S!Range, OrderInv, FramesOrdered, FramesFirst
    <2>3. CASE i = Len(fifo) + 1 /\ S!Line[i] = pending
      <3>1. j = Len(fifo) + 2 /\ S!Line[j] = signals
        <4>1. ~(j <= Len(fifo)) /\ j # Len(fifo) + 1
          BY <1>2, <2>1, <2>3, LineParts, SMT
        <4> QED
          BY <4>1, LineParts
      <3> QED
        BY <2>3, <3>1 DEF S!Before, S!Range, OrderInv, QueuesOrdered
    <2>4. i # Len(fifo) + 2
      BY <1>2, <2>1, LineParts, SMT
    <2> QED
      BY <2>2, <2>3, <2>4, LineParts
  <1>3. \A i \in DOMAIN fifo :
           fifo[i].kind = "signals" => net = "WEBSOCKET" /\ fifo[i].session = cloud
    BY DEF OrderInv, FramesOfSession
  <1> QED
    BY <1>1, <1>2, <1>3 DEF S!SignalsInOrder

-----------------------------------------------------------------------------
\* LaunchWatch: stamps wrap around, and are compared by the sign of their difference.
LEMMA ModSmall ==
    ASSUME NEW w \in Nat \ {0}, NEW x \in 0 .. 2 * w - 1
    PROVE  x % w = IF x < w THEN x ELSE x - w
  <1>1. x \in Nat /\ w \in Nat /\ w > 0 /\ x < 2 * w
    BY SMT
  <1>2. x % w \in 0 .. w - 1 /\ x = w * (x \div w) + (x % w)
    BY <1>1, SMT
  <1> DEFINE q == x \div w  r == x % w
  <1>3. q \in Int /\ r \in Int /\ 0 <= r /\ r < w /\ x = w * q + r
    BY <1>1, <1>2, SMT
  <1> HIDE DEF q, r
  <1>4. q = 0 \/ q = 1
    <2>1. ~(q < 0)
      <3>1. ASSUME q < 0 PROVE FALSE
        <4>1. w * q <= -w
          BY <1>1, <1>3, <3>1, SMT
        <4> QED
          BY <1>1, <1>3, <4>1, SMT
      <3> QED
        BY <3>1
    <2>2. ~(q > 1)
      <3>1. ASSUME q > 1 PROVE FALSE
        <4>1. w * q >= w * 2
          BY <1>1, <1>3, <3>1, SMT
        <4> QED
          BY <1>1, <1>3, <4>1, SMT
      <3> QED
        BY <3>1
    <2> QED
      BY <1>3, <2>1, <2>2, SMT
  <1>5. CASE q = 0
    BY <1>1, <1>3, <1>5, SMT DEF r
  <1>6. CASE q = 1
    BY <1>1, <1>3, <1>6, SMT DEF r
  <1> QED
    BY <1>4, <1>5, <1>6

\* Within half of the stamps the comparison is that of the clocks.
LEMMA NewerIsLater ==
    ASSUME NEW c \in 0 .. MaxClock, NEW k \in 0 .. MaxClock
    PROVE  /\ W!Newer(W!Stamp(c), W!Stamp(k)) => k < c
           /\ W!Stamp(c) = W!Stamp(k) => c = k
           /\ W!Stamp(c) \in 0 .. Width - 1
  <1>1. /\ Width \in Nat /\ Width > 0 /\ FirstStamp \in Nat /\ FirstStamp < Width
        /\ MaxClock \in Nat /\ MaxClock < Width \div 2 /\ Width \div 2 \in Nat
        /\ 2 * (Width \div 2) <= Width /\ Width <= 2 * (Width \div 2) + 1
        /\ c \in Nat /\ k \in Nat /\ c <= MaxClock /\ k <= MaxClock
    BY WatchAssumption, SMT
  <1> DEFINE a == W!Stamp(c)  b == W!Stamp(k)  h == Width \div 2
  <1>2. ASSUME NEW x \in {c, k}
        PROVE  W!Stamp(x) = IF FirstStamp + x < Width THEN FirstStamp + x
                            ELSE FirstStamp + x - Width
    <2>1. FirstStamp + x \in 0 .. 2 * Width - 1
      BY <1>1, SMT
    <2> QED
      BY <1>1, <2>1, ModSmall DEF W!Stamp
  <1>3. /\ a = IF FirstStamp + c < Width THEN FirstStamp + c ELSE FirstStamp + c - Width
        /\ b = IF FirstStamp + k < Width THEN FirstStamp + k ELSE FirstStamp + k - Width
    BY <1>2
  <1> HIDE DEF a, b, h
  <1>4. a \in 0 .. Width - 1 /\ b \in 0 .. Width - 1
    BY <1>1, <1>3, SMT
  <1>5. a = b => c = k
    BY <1>1, <1>3, SMT DEF h
  <1>6. PICK z \in 0 .. 2 * Width - 1 : z = a + Width - b
    <2>1. a + Width - b \in 0 .. 2 * Width - 1
      BY <1>1, <1>4, SMT
    <2> QED
      BY <2>1
  <1> DEFINE y == z % Width
  <1>7. y = IF z < Width THEN z ELSE z - Width
    <2>1. Width \in Nat \ {0}
      BY WatchAssumption
    <2> QED
      BY <1>6, <2>1, ModSmall
  <1>8. W!Newer(a, b) => 1 <= y /\ y <= h - 1
    <2>1. y \in Int /\ h \in Nat
      BY <1>1, <1>6, <1>7, SMT DEF h
    <2>2. W!Newer(a, b) => y \in 1 .. h - 1
      BY <1>6 DEF W!Newer, h
    <2> HIDE DEF y
    <2> QED
      BY <2>1, <2>2, SMT
  <1> HIDE DEF y
  <1>9. W!Newer(a, b) => k < c
    BY <1>1, <1>3, <1>4, <1>6, <1>7, <1>8, SMT DEF h
  <1> QED
    BY <1>4, <1>5, <1>9 DEF a, b

\* A moment with a game in front of moment c.
RanBefore(c) == \E s \in broadcast : s.running /\ s.clock < c

\* What the watch of a launch has counted up to moment k.
LaunchAt(k) ==
    /\ k < clock /\ W!Stamp(k) = launch.stamp
    /\ launch.seen => RanBefore(k + 1)
    /\ launch.empty >= 1 => \E c \in emptyAt : c <= k /\ RanBefore(c)
    /\ launch.empty = 2 => \E c, d \in emptyAt : c < d /\ d <= k /\ RanBefore(c)

\* What the watch of END_GAME has counted up to moment k.
EndAt(k) ==
    /\ k < clock /\ W!Stamp(k) = endGame.stamp /\ known <= k + 1
    /\ endGame.empty >= 1 => \E c \in emptyAt : known <= c /\ c <= k
    /\ endGame.empty = 2 => \E c, d \in emptyAt : known <= c /\ c < d /\ d <= k

LaunchFacts ==
    /\ launch.have => \E k \in 0 .. MaxClock : LaunchAt(k)
    /\ ~launch.have => ~launch.seen /\ launch.empty = 0

EndFacts ==
    /\ endGame.have => endGame.at /\ \E k \in 0 .. MaxClock : EndAt(k)
    /\ ~endGame.have => endGame.empty = 0 /\ (endGame.at => known = 0)

\* What was sent was sent at a moment that has passed.
HostFacts ==
    \A s \in broadcast : s.clock < clock /\ (~s.running => s.clock \in emptyAt)

\* A stream that is not stopped has no verdict yet; what the worker has read of the
\* host's stop is what is known of it after the join; a failure is final.
StagesFit ==
    /\ ~streaming => stage = "run"
    /\ streaming /\ stage = "run" => verdict = "none"
    /\ stage = "joined" => completed = hostStop
    /\ verdict = "failed" => ~streaming

WatchInv ==
    /\ W!WatchTypeOK /\ HostFacts /\ LaunchFacts /\ EndFacts
    /\ StagesFit /\ W!CompletionIsReal

\* The moments without a game that a completion rests on.
LaunchMoments == \E c, d \in emptyAt : c < d /\ RanBefore(c)
EndMoments == \E c, d \in emptyAt : known <= c /\ c < d

\* The types of the parts.
LEMMA WatchRecords ==
    ASSUME W!WatchTypeOK
    PROVE  /\ clock \in 0 .. MaxClock /\ clock \in Nat /\ known \in Nat
           /\ \A c \in emptyAt : c \in Nat
           /\ \A s \in broadcast : /\ s.clock \in 0 .. MaxClock /\ s.clock \in Nat
                                   /\ s.running \in BOOLEAN
           /\ launch.have \in BOOLEAN /\ launch.seen \in BOOLEAN /\ launch.played \in BOOLEAN
           /\ launch.active \in BOOLEAN /\ launch.target \in BOOLEAN
           /\ launch.empty \in 0 .. 2 /\ launch.kind \in W!Kinds
           /\ launch.stamp \in 0 .. Width - 1 /\ launch.floor \in 0 .. MaxFrames
           /\ endGame.at \in BOOLEAN /\ endGame.have \in BOOLEAN
           /\ endGame.empty \in 0 .. 2 /\ endGame.stamp \in 0 .. Width - 1
           /\ hostStop \in BOOLEAN /\ completed \in BOOLEAN /\ streaming \in BOOLEAN
  <1>1. /\ \A s \in broadcast : s.clock \in 0 .. MaxClock /\ s.running \in BOOLEAN
        /\ launch.have \in BOOLEAN /\ launch.seen \in BOOLEAN /\ launch.played \in BOOLEAN
        /\ launch.active \in BOOLEAN /\ launch.target \in BOOLEAN
        /\ launch.empty \in 0 .. 2 /\ launch.kind \in W!Kinds
        /\ launch.stamp \in 0 .. Width - 1 /\ launch.floor \in 0 .. MaxFrames
        /\ endGame.at \in BOOLEAN /\ endGame.have \in BOOLEAN
        /\ endGame.empty \in 0 .. 2 /\ endGame.stamp \in 0 .. Width - 1
        /\ hostStop \in BOOLEAN /\ completed \in BOOLEAN /\ streaming \in BOOLEAN
    BY DEF W!WatchTypeOK
  <1>2. MaxClock \in Nat
    BY WatchAssumption
  <1>3. clock \in 0 .. MaxClock /\ known \in 0 .. MaxClock /\ emptyAt \subseteq 0 .. MaxClock
    BY DEF W!WatchTypeOK
  <1>4. \A x \in 0 .. MaxClock : x \in Nat
    BY <1>2, SMT
  <1> QED
    BY <1>1, <1>3, <1>4

\* What was true of a moment stays true.
LEMMA RanBeforeKept ==
    ASSUME NEW c, broadcast \subseteq broadcast', RanBefore(c)
    PROVE  RanBefore(c)'
  BY DEF RanBefore

\* Counts that stay or start again need nothing new.
LEMMA LaunchKept ==
    ASSUME WatchInv, clock' \in Nat, clock <= clock', emptyAt \subseteq emptyAt',
           broadcast \subseteq broadcast',
           launch'.have = launch.have, launch'.seen = launch.seen,
           launch'.stamp = launch.stamp, launch'.empty \in {launch.empty, 0}
    PROVE  LaunchFacts'
  <1>1. CASE ~launch.have
    BY <1>1 DEF LaunchFacts, WatchInv
  <1>2. CASE launch.have
    <2>1. PICK k \in 0 .. MaxClock : LaunchAt(k)
      BY <1>2 DEF LaunchFacts, WatchInv
    <2>2. k \in Nat /\ k < clock'
      BY <2>1, WatchAssumption, WatchRecords, SMT DEF WatchInv, LaunchAt
    <2>3. launch'.empty >= 1 => launch'.empty = launch.empty
      BY SMT
    <2>4. launch'.empty = 2 => launch'.empty = launch.empty
      BY SMT
    <2>5. LaunchAt(k)'
      BY <2>1, <2>2, <2>3, <2>4, RanBeforeKept DEF LaunchAt, RanBefore, W!Stamp
    <2> QED
      BY <1>2, <2>5 DEF LaunchFacts
  <1> QED
    BY <1>1, <1>2

\* The same for the watch of END_GAME.
LEMMA EndKept ==
    ASSUME WatchInv, clock' \in Nat, clock <= clock', emptyAt \subseteq emptyAt', known' = known,
           endGame'.at = endGame.at, endGame'.have = endGame.have,
           endGame'.stamp = endGame.stamp, endGame'.empty \in {endGame.empty, 0}
    PROVE  EndFacts'
  <1>1. CASE ~endGame.have
    BY <1>1 DEF EndFacts, WatchInv
  <1>2. CASE endGame.have
    <2>1. PICK k \in 0 .. MaxClock : EndAt(k)
      BY <1>2 DEF EndFacts, WatchInv
    <2>2. k \in Nat /\ k < clock'
      BY <2>1, WatchAssumption, WatchRecords, SMT DEF WatchInv, EndAt
    <2>4. /\ endGame'.empty >= 1 => endGame'.empty = endGame.empty
          /\ endGame'.empty = 2 => endGame'.empty = endGame.empty
      BY SMT
    <2>5. EndAt(k)'
      BY <2>1, <2>2, <2>4 DEF EndAt, W!Stamp
    <2> QED
      BY <1>2, <2>5 DEF EndFacts, WatchInv
  <1> QED
    BY <1>1, <1>2

results == <<streaming, known, hostStop, stage, completed, verdict>>

\* What was reported of a stream stays true.
LEMMA VerdictKept ==
    ASSUME WatchInv, emptyAt \subseteq emptyAt', broadcast \subseteq broadcast',
           UNCHANGED results
    PROVE  StagesFit' /\ W!CompletionIsReal'
  BY DEF WatchInv, StagesFit, W!CompletionIsReal, results

watchParts == <<clock, running, broadcast, emptyAt, streaming, streams, displayed, launch,
                endGame, known, hostStop, stage, completed, verdict>>

\* Two counted moments are two moments.
LEMMA CountsAreMoments ==
    ASSUME WatchInv
    PROVE  /\ W!LaunchDone => LaunchMoments
           /\ endGame.empty = 2 => EndMoments
  <1>1. ASSUME W!LaunchDone PROVE LaunchMoments
    <2>1. launch.empty = 2 /\ launch.have
      BY <1>1 DEF W!LaunchDone, WatchInv, LaunchFacts
    <2>2. PICK k \in 0 .. MaxClock : LaunchAt(k)
      BY <2>1 DEF WatchInv, LaunchFacts
    <2> QED
      BY <2>1, <2>2 DEF LaunchAt, LaunchMoments
  <1>2. ASSUME endGame.empty = 2 PROVE EndMoments
    <2>1. endGame.have
      BY <1>2, SMT DEF WatchInv, EndFacts
    <2>2. PICK k \in 0 .. MaxClock : EndAt(k)
      BY <2>1 DEF WatchInv, EndFacts
    <2> QED
      BY <1>2, <2>2 DEF EndAt, EndMoments
  <1> QED
    BY <1>1, <1>2

\* The counts rest on the statuses and the two watches.
LEMMA WatchStutter == ASSUME WatchInv, UNCHANGED watchParts PROVE WatchInv'
  BY DEF watchParts, WatchInv, W!WatchTypeOK, HostFacts, LaunchFacts, EndFacts, LaunchAt, EndAt,
     RanBefore, StagesFit, W!CompletionIsReal, W!Stamp, W!Kinds, W!Verdicts

\* Nothing is counted at first.
LEMMA WatchInit == W!Init => WatchInv
  <1> SUFFICES ASSUME W!Init PROVE WatchInv
    OBVIOUS
  <1>1. /\ 0 \in 0 .. MaxClock /\ 0 \in 0 .. MaxLaunches /\ 0 \in 0 .. MaxFrames
        /\ 0 \in 0 .. Width - 1 /\ 0 \in 0 .. 2
    BY WatchAssumption, SMT
  <1>2. W!WatchTypeOK
    BY <1>1, Zenon DEF W!Init, W!WatchTypeOK, W!NoLaunch, W!NoEndGame, W!Kinds,
       W!Verdicts
  <1>3. HostFacts /\ LaunchFacts /\ EndFacts
    BY DEF W!Init, HostFacts, LaunchFacts, EndFacts, W!NoLaunch, W!NoEndGame
  <1>4. StagesFit /\ W!CompletionIsReal
    BY DEF W!Init, StagesFit, W!CompletionIsReal
  <1> QED
    BY <1>2, <1>3, <1>4 DEF WatchInv

\* Nothing but the counts of a launch start again.
LEMMA WatchQuiet ==
    ASSUME WatchInv, UNCHANGED <<clock, broadcast, emptyAt, known, endGame>>, UNCHANGED results,
           W!WatchTypeOK',
           launch'.have = launch.have, launch'.seen = launch.seen,
           launch'.stamp = launch.stamp, launch'.empty \in {launch.empty, 0}
    PROVE  WatchInv'
  <1>1. clock' \in Nat /\ clock <= clock'
    BY WatchRecords, SMT DEF WatchInv
  <1>2. LaunchFacts' /\ EndFacts'
    BY <1>1, LaunchKept, EndKept
  <1>3. HostFacts'
    BY DEF WatchInv, HostFacts
  <1>4. StagesFit' /\ W!CompletionIsReal'
    BY VerdictKept
  <1> QED
    BY <1>2, <1>3, <1>4 DEF WatchInv

LEMMA WatchRuns == ASSUME WatchInv PROVE running \in BOOLEAN
  BY DEF WatchInv, W!WatchTypeOK

\* A status that the host sends is of the moment that has just passed.
LEMMA WatchBroadcast == ASSUME WatchInv, W!Broadcast PROVE WatchInv'
  <1> DEFINE s == [clock |-> clock, running |-> running]
  <1>1. /\ clock < MaxClock /\ clock' = clock + 1
        /\ broadcast' = broadcast \union {s}
        /\ emptyAt' = IF running THEN emptyAt ELSE emptyAt \union {clock}
        /\ UNCHANGED <<running, streaming, streams, displayed, launch, endGame, known>>
        /\ UNCHANGED results
    BY DEF W!Broadcast, W!resultVars, results
  <1>2. /\ clock \in Nat /\ clock \in 0 .. MaxClock /\ clock' \in 0 .. MaxClock /\ clock' \in Nat
        /\ clock <= clock' /\ clock < clock'
    BY <1>1, WatchRecords, WatchAssumption, SMT DEF WatchInv
  <1>3. s \in [clock : 0 .. MaxClock, running : BOOLEAN] /\ s.clock = clock
        /\ s.running = running
    BY <1>2, WatchRuns, Zenon
  <1> HIDE DEF s
  <1>4. emptyAt \subseteq emptyAt' /\ broadcast \subseteq broadcast'
    BY <1>1
  <1>5. W!WatchTypeOK'
    BY <1>1, <1>2, <1>3 DEF WatchInv, W!WatchTypeOK, W!Kinds, W!Verdicts, results
  <1>6. LaunchFacts' /\ EndFacts'
    BY <1>1, <1>2, <1>4, LaunchKept, EndKept
  <1>7. HostFacts'
    <2> SUFFICES ASSUME NEW r \in broadcast'
                 PROVE  r.clock < clock' /\ (~r.running => r.clock \in emptyAt')
      BY DEF HostFacts
    <2>1. CASE r = s
      BY <1>1, <1>2, <1>3, <2>1
    <2>2. CASE r \in broadcast
      <3>1. r.clock \in Nat /\ r.clock < clock /\ (~r.running => r.clock \in emptyAt)
        BY <2>2, WatchRecords DEF WatchInv, HostFacts
      <3> QED
        BY <1>1, <1>2, <1>4, <3>1, SMT
    <2> QED
      BY <1>1, <2>1, <2>2
  <1>8. StagesFit' /\ W!CompletionIsReal'
    BY <1>1, <1>4, VerdictKept
  <1> QED
    BY <1>5, <1>6, <1>7, <1>8 DEF WatchInv

\* The host's own stop is a completion whenever it comes, until the join.
LEMMA WatchHostStops == ASSUME WatchInv, W!HostStops PROVE WatchInv'
  <1>1. /\ streaming /\ stage # "joined" /\ hostStop' = TRUE
        /\ UNCHANGED <<clock, running, broadcast, emptyAt, streaming, streams, displayed, launch,
                       endGame, known, stage, completed, verdict>>
    BY DEF W!HostStops, W!hostVars
  <1>2. W!WatchTypeOK'
    BY <1>1 DEF WatchInv, W!WatchTypeOK, W!Kinds, W!Verdicts
  <1>3. HostFacts' /\ LaunchFacts' /\ EndFacts'
    BY <1>1 DEF WatchInv, HostFacts, LaunchFacts, LaunchAt, RanBefore, EndFacts, EndAt, W!Stamp
  <1>4. StagesFit' /\ W!CompletionIsReal'
    BY <1>1 DEF WatchInv, StagesFit, W!CompletionIsReal
  <1> QED
    BY <1>2, <1>3, <1>4 DEF WatchInv

\* A game that starts or ends counts nothing until it is seen.
LEMMA WatchPlays ==
    ASSUME WatchInv, W!Plays
    PROVE  WatchInv'
  <1>1. W!WatchTypeOK'
    BY DEF W!Plays, WatchInv, W!WatchTypeOK, W!Kinds, W!Verdicts, W!resultVars
  <1> QED
    BY <1>1, WatchQuiet DEF W!Plays, W!resultVars, results

\* Every stream is watched from the beginning.
LEMMA WatchStart ==
    ASSUME WatchInv, NEW target \in BOOLEAN, W!Start(target)
    PROVE  WatchInv'
  <1>1. /\ launch' = [W!NoLaunch EXCEPT !.target = target] /\ endGame' = W!NoEndGame
        /\ streaming' = TRUE /\ streams < MaxLaunches /\ streams' = streams + 1
        /\ displayed' = 0 /\ known' = 0
        /\ ~streaming /\ hostStop' = FALSE /\ verdict' = "none"
        /\ UNCHANGED <<clock, running, broadcast, emptyAt, stage, completed>>
    BY DEF W!Start
  <1>2. /\ 0 \in 0 .. MaxClock /\ 0 \in 0 .. MaxFrames /\ 0 \in 0 .. Width - 1 /\ 0 \in 0 .. 2
        /\ streams' \in 0 .. MaxLaunches
    BY <1>1, WatchAssumption, SMT DEF WatchInv, W!WatchTypeOK
  <1>3. W!WatchTypeOK'
    BY <1>1, <1>2, Zenon DEF WatchInv, W!WatchTypeOK, W!NoLaunch, W!NoEndGame, W!Kinds,
       W!Verdicts
  <1>4. ~launch'.have /\ ~launch'.seen /\ launch'.empty = 0
        /\ ~endGame'.at /\ ~endGame'.have /\ endGame'.empty = 0
    BY <1>1, Zenon DEF W!NoLaunch, W!NoEndGame
  <1>5. LaunchFacts' /\ EndFacts'
    BY <1>4 DEF LaunchFacts, EndFacts
  <1>6. HostFacts'
    BY <1>1 DEF WatchInv, HostFacts
  <1>7. StagesFit' /\ W!CompletionIsReal'
    BY <1>1 DEF WatchInv, StagesFit, W!CompletionIsReal
  <1> QED
    BY <1>3, <1>5, <1>6, <1>7 DEF WatchInv

\* The record of the watch of a launch.
LEMMA LaunchRecord ==
    ASSUME W!WatchTypeOK
    PROVE  launch \in [target : BOOLEAN, stamp : 0 .. Width - 1, floor : 0 .. MaxFrames,
                       kind : W!Kinds, active : BOOLEAN, played : BOOLEAN, seen : BOOLEAN,
                       have : BOOLEAN, empty : 0 .. 2]
  BY DEF W!WatchTypeOK

\* Activity of the stream counts nothing.
LEMMA WatchActivity ==
    ASSUME WatchInv, NEW kind \in W!Kinds, NEW target \in BOOLEAN, W!Activity(kind, target)
    PROVE  WatchInv'
  <1> DEFINE active == launch.target /\ target
             next == [launch EXCEPT !.kind = kind, !.active = active,
                                    !.floor = displayed, !.empty = 0]
  <1>1. /\ launch' = launch \/ launch' = next
        /\ UNCHANGED <<clock, running, broadcast, emptyAt, streaming, streams, displayed,
                       endGame, known>>
        /\ UNCHANGED results
    BY DEF W!Activity, W!hostVars, W!resultVars, results
  <1>2. CASE launch' = launch
    BY <1>1, <1>2, WatchStutter DEF watchParts, results
  <1>3. CASE launch' = next
    <2>1. displayed \in 0 .. MaxFrames /\ 0 \in 0 .. 2 /\ active \in BOOLEAN
      BY WatchRecords, SMT DEF WatchInv, W!WatchTypeOK
    <2> HIDE DEF active
    <2>2. next \in [target : BOOLEAN, stamp : 0 .. Width - 1, floor : 0 .. MaxFrames,
                    kind : W!Kinds, active : BOOLEAN, played : BOOLEAN, seen : BOOLEAN,
                    have : BOOLEAN, empty : 0 .. 2]
      BY <2>1, LaunchRecord, Zenon DEF WatchInv
    <2>3. next.have = launch.have /\ next.seen = launch.seen /\ next.stamp = launch.stamp
          /\ next.empty = 0
      BY LaunchRecord, Zenon DEF WatchInv
    <2> HIDE DEF next
    <2>4. W!WatchTypeOK'
      BY <1>1, <1>3, <2>2 DEF WatchInv, W!WatchTypeOK, W!Kinds, W!Verdicts, results
    <2> QED
      BY <1>1, <1>3, <2>3, <2>4, WatchQuiet
  <1> QED
    BY <1>1, <1>2, <1>3

\* A sample of the frames counts nothing.
LEMMA WatchSample == ASSUME WatchInv, W!Sample PROVE WatchInv'
  <1>1. PICK n \in displayed .. MaxFrames :
           /\ displayed' = n
           /\ launch' = [launch EXCEPT !.played = @ \/ (launch.active /\ n > launch.floor)]
    BY DEF W!Sample
  <1>2. /\ UNCHANGED <<clock, running, broadcast, emptyAt, streaming, streams, endGame, known>>
        /\ UNCHANGED results
    BY DEF W!Sample, W!hostVars, W!resultVars, results
  <1>3. n \in 0 .. MaxFrames
    BY WatchAssumption, SMT DEF WatchInv, W!WatchTypeOK
  <1> DEFINE played == launch.played \/ (launch.active /\ n > launch.floor)
             next == [launch EXCEPT !.played = played]
  <1>4. played \in BOOLEAN /\ launch' = next
    BY <1>1, WatchRecords DEF WatchInv
  <1> HIDE DEF played
  <1>5. /\ next \in [target : BOOLEAN, stamp : 0 .. Width - 1, floor : 0 .. MaxFrames,
                    kind : W!Kinds, active : BOOLEAN, played : BOOLEAN, seen : BOOLEAN,
                    have : BOOLEAN, empty : 0 .. 2]
        /\ next.have = launch.have /\ next.seen = launch.seen /\ next.stamp = launch.stamp
        /\ next.empty = launch.empty
    BY <1>4, LaunchRecord, Zenon DEF WatchInv
  <1> HIDE DEF next
  <1>6. W!WatchTypeOK'
    BY <1>1, <1>2, <1>3, <1>4, <1>5 DEF WatchInv, W!WatchTypeOK, W!Kinds, W!Verdicts, results
  <1> QED
    BY <1>2, <1>4, <1>5, <1>6, WatchQuiet

\* What the watch of END_GAME is.
LEMMA EndRecord ==
    ASSUME W!WatchTypeOK
    PROVE  endGame \in [at : BOOLEAN, stamp : 0 .. Width - 1, have : BOOLEAN, empty : 0 .. 2]
  BY DEF W!WatchTypeOK

\* A status without a stamp starts both counts again.
LEMMA WatchUnstamped == ASSUME WatchInv, W!ObserveUnstamped PROVE WatchInv'
  <1>1. /\ launch' = [launch EXCEPT !.empty = 0] /\ endGame' = [endGame EXCEPT !.empty = 0]
        /\ UNCHANGED <<clock, running, broadcast, emptyAt, streaming, streams, displayed, known>>
        /\ UNCHANGED results
    BY DEF W!ObserveUnstamped, W!hostVars, W!resultVars, results
  <1>2. 0 \in 0 .. 2
    BY SMT
  <1>3. /\ launch' \in [target : BOOLEAN, stamp : 0 .. Width - 1, floor : 0 .. MaxFrames,
                    kind : W!Kinds, active : BOOLEAN, played : BOOLEAN, seen : BOOLEAN,
                    have : BOOLEAN, empty : 0 .. 2]
        /\ launch'.have = launch.have /\ launch'.seen = launch.seen
        /\ launch'.stamp = launch.stamp /\ launch'.empty = 0
    BY <1>1, <1>2, LaunchRecord, Zenon DEF WatchInv
  <1>4. /\ endGame' \in [at : BOOLEAN, stamp : 0 .. Width - 1, have : BOOLEAN, empty : 0 .. 2]
        /\ endGame'.at = endGame.at /\ endGame'.have = endGame.have
        /\ endGame'.stamp = endGame.stamp /\ endGame'.empty = 0
    BY <1>1, <1>2, EndRecord, Zenon DEF WatchInv
  <1>5. W!WatchTypeOK'
    BY <1>1, <1>3, <1>4 DEF WatchInv, W!WatchTypeOK, W!Kinds, W!Verdicts, results
  <1>6. clock' \in Nat /\ clock <= clock'
    BY <1>1, WatchRecords, SMT DEF WatchInv
  <1>7. LaunchFacts' /\ EndFacts'
    BY <1>1, <1>3, <1>4, <1>6, LaunchKept, EndKept
  <1>8. HostFacts'
    BY <1>1 DEF WatchInv, HostFacts
  <1>9. StagesFit' /\ W!CompletionIsReal'
    BY <1>1, VerdictKept
  <1> QED
    BY <1>5, <1>7, <1>8, <1>9 DEF WatchInv

\* What was known at the confirmation is what the watch of the launch has seen last.
LEMMA WatchEndGame == ASSUME WatchInv, W!EndGame PROVE WatchInv'
  <1> DEFINE last == CHOOSE c \in 0 .. MaxClock : W!Stamp(c) = launch.stamp
  <1>1. /\ endGame' = [at |-> TRUE, stamp |-> launch.stamp, have |-> launch.have, empty |-> 0]
        /\ known' = IF launch.have THEN 1 + last ELSE 0
        /\ streaming /\ stage = "run"
        /\ \/ UNCHANGED <<stage, verdict>>
           \/ stage' = "stop" /\ verdict' = "closed"
        /\ UNCHANGED <<clock, running, broadcast, emptyAt, streaming, streams, displayed, launch,
                       hostStop, completed>>
    BY DEF W!EndGame, W!Ends, W!hostVars, W!resultVars
  <1>2. 0 \in 0 .. 2 /\ 0 \in 0 .. MaxClock
    BY WatchAssumption, SMT
  <1>3. /\ endGame' \in [at : BOOLEAN, stamp : 0 .. Width - 1, have : BOOLEAN, empty : 0 .. 2]
        /\ endGame'.at = TRUE /\ endGame'.have = launch.have
        /\ endGame'.stamp = launch.stamp /\ endGame'.empty = 0
    BY <1>1, <1>2, LaunchRecord, Zenon DEF WatchInv
  <1>4. ~(0 >= 1) /\ 0 # 2
    BY SMT
  <1>5. known' \in 0 .. MaxClock /\ EndFacts'
    <2>1. CASE ~launch.have
      BY <1>1, <1>2, <1>3, <2>1 DEF EndFacts
    <2>2. CASE launch.have
      <3>1. PICK k \in 0 .. MaxClock : LaunchAt(k)
        BY <2>2 DEF WatchInv, LaunchFacts
      <3>2. W!Stamp(k) = launch.stamp /\ k < clock
        BY <3>1 DEF LaunchAt
      <3>3. last \in 0 .. MaxClock /\ W!Stamp(last) = launch.stamp
        BY <3>2
      <3> HIDE DEF last
      <3>4. last = k
        BY <3>2, <3>3, NewerIsLater
      <3>5. known' = k + 1 /\ k + 1 \in 0 .. MaxClock /\ k + 1 <= k + 1
        BY <1>1, <2>2, <3>2, <3>4, WatchAssumption, WatchRecords, SMT DEF WatchInv
      <3>6. EndAt(k)'
        BY <1>1, <1>3, <1>4, <3>2, <3>5 DEF EndAt, W!Stamp
      <3> QED
        BY <1>3, <2>2, <3>5, <3>6 DEF EndFacts
    <2> QED
      BY <2>1, <2>2
  <1>6. W!WatchTypeOK'
    BY <1>1, <1>3, <1>5 DEF WatchInv, W!WatchTypeOK, W!Kinds, W!Verdicts
  <1>7. LaunchFacts' /\ HostFacts'
    BY <1>1 DEF WatchInv, LaunchFacts, LaunchAt, RanBefore, HostFacts, W!Stamp
  <1>8. StagesFit' /\ W!CompletionIsReal'
    BY <1>1 DEF WatchInv, StagesFit, W!CompletionIsReal
  <1> QED
    BY <1>5, <1>6, <1>7, <1>8 DEF WatchInv

\* A completion that the worker sees has what it is a completion of.
LEMMA WatchEnds ==
    ASSUME WatchInv, NEW how \in {"launch", "ended", "timeout", "lost", "closed"}, W!Ends(how),
           UNCHANGED <<endGame, known>>,
           how = "launch" => LaunchMoments,
           how = "ended" => hostStop \/ EndMoments
    PROVE  WatchInv'
  <1>1. /\ streaming /\ stage = "run" /\ stage' = "stop" /\ verdict' = how
        /\ UNCHANGED <<clock, running, broadcast, emptyAt, streaming, streams, displayed, launch,
                       hostStop, completed, endGame, known>>
    BY DEF W!Ends, W!hostVars
  <1>2. W!WatchTypeOK'
    BY <1>1 DEF WatchInv, W!WatchTypeOK, W!Kinds, W!Verdicts
  <1>3. HostFacts' /\ LaunchFacts' /\ EndFacts'
    BY <1>1 DEF WatchInv, HostFacts, LaunchFacts, LaunchAt, RanBefore, EndFacts, EndAt, W!Stamp
  <1>4. StagesFit'
    BY <1>1 DEF StagesFit
  <1>5. W!CompletionIsReal'
    BY <1>1 DEF W!CompletionIsReal, LaunchMoments, EndMoments, RanBefore
  <1> QED
    BY <1>2, <1>3, <1>4, <1>5 DEF WatchInv

\* The worker ends the stream on what both watches have counted, or on no evidence,
\* and then reports none.
LEMMA WatchPoll ==
    ASSUME WatchInv, W!Poll \/ W!Finished \/ W!Closed
    PROVE  WatchInv'
  <1>1. CASE W!EndDone /\ W!Ends("ended") /\ UNCHANGED <<endGame, known>>
    BY <1>1, CountsAreMoments, WatchEnds DEF W!EndDone
  <1>2. CASE W!LaunchDone /\ W!Ends("launch") /\ UNCHANGED <<endGame, known>>
    BY <1>2, CountsAreMoments, WatchEnds
  <1>3. CASE /\ W!Ends("timeout") \/ W!Ends("lost") \/ W!Ends("closed")
             /\ UNCHANGED <<endGame, known>>
    BY <1>3, WatchEnds
  <1> QED
    BY <1>1, <1>2, <1>3 DEF W!Poll, W!Finished, W!Closed

\* After the join the worker knows what the host has said.
LEMMA WatchJoin == ASSUME WatchInv, W!Join PROVE WatchInv'
  <1>1. /\ stage = "stop" /\ stage' = "joined" /\ completed' = hostStop
        /\ UNCHANGED <<clock, running, broadcast, emptyAt, streaming, streams, displayed, launch,
                       endGame, known, hostStop, verdict>>
    BY DEF W!Join, W!hostVars
  <1>2. W!WatchTypeOK'
    BY <1>1 DEF WatchInv, W!WatchTypeOK, W!Kinds, W!Verdicts
  <1>3. HostFacts' /\ LaunchFacts' /\ EndFacts'
    BY <1>1 DEF WatchInv, HostFacts, LaunchFacts, LaunchAt, RanBefore, EndFacts, EndAt, W!Stamp
  <1>4. StagesFit' /\ W!CompletionIsReal'
    BY <1>1 DEF WatchInv, StagesFit, W!CompletionIsReal
  <1> QED
    BY <1>2, <1>3, <1>4 DEF WatchInv

\* The end of the stream forgets END_GAME; what it reports is what the host and the
\* statuses have said until then.
LEMMA WatchStopped == ASSUME WatchInv, W!Stopped PROVE WatchInv'
  <1> DEFINE done == completed \/ (endGame.at /\ endGame.empty = 2)
  <1>1. /\ stage = "joined" /\ stage' = "run" /\ streaming' = FALSE /\ completed' = FALSE
        /\ endGame' = W!NoEndGame
        /\ UNCHANGED <<clock, running, broadcast, emptyAt, streams, displayed, launch, known,
                       hostStop>>
    BY DEF W!Stopped, W!hostVars
  <1>2. \/ verdict' = "ended" /\ done
        \/ verdict = "timeout" /\ verdict' = "failed" /\ ~done
        \/ verdict' = verdict /\ verdict # "timeout"
    BY DEF W!Stopped
  <1>3. done => hostStop \/ EndMoments
    BY <1>1, CountsAreMoments DEF WatchInv, StagesFit
  <1>4. ~done => ~hostStop
    BY <1>1 DEF WatchInv, StagesFit
  <1> HIDE DEF done
  <1>5. streaming
    BY <1>1 DEF WatchInv, StagesFit
  <1>6. verdict' \in W!Verdicts
    BY <1>2 DEF WatchInv, W!WatchTypeOK, W!Verdicts
  <1>7. 0 \in 0 .. 2 /\ 0 \in 0 .. Width - 1
    BY WatchAssumption, SMT
  <1>8. /\ endGame' \in [at : BOOLEAN, stamp : 0 .. Width - 1, have : BOOLEAN, empty : 0 .. 2]
        /\ ~endGame'.at /\ ~endGame'.have /\ endGame'.empty = 0
    BY <1>1, <1>7, Zenon DEF W!NoEndGame
  <1>9. W!WatchTypeOK'
    BY <1>1, <1>6, <1>8 DEF WatchInv, W!WatchTypeOK, W!Kinds, W!Verdicts
  <1>10. EndFacts'
    BY <1>8 DEF EndFacts
  <1>11. LaunchFacts' /\ HostFacts'
    BY <1>1 DEF WatchInv, LaunchFacts, LaunchAt, RanBefore, HostFacts, W!Stamp
  <1>12. StagesFit'
    BY <1>1 DEF StagesFit
  <1>13. W!CompletionIsReal'
    BY <1>1, <1>2, <1>3, <1>4 DEF WatchInv, W!CompletionIsReal, EndMoments
  <1> QED
    BY <1>9, <1>10, <1>11, <1>12, <1>13 DEF WatchInv

\* A status counts only when it is newer than the last one that counted.
LEMMA LaunchObserves ==
    ASSUME WatchInv, NEW s \in broadcast,
           launch' = W!LaunchStatus(s.running, W!Stamp(s.clock)),
           UNCHANGED <<clock, broadcast, emptyAt>>
    PROVE  LaunchFacts'
           /\ launch' \in [target : BOOLEAN, stamp : 0 .. Width - 1, floor : 0 .. MaxFrames,
                           kind : W!Kinds, active : BOOLEAN, played : BOOLEAN, seen : BOOLEAN,
                           have : BOOLEAN, empty : 0 .. 2]
  <1> DEFINE stamp == W!Stamp(s.clock)
             seenNow == launch.seen \/ (launch.active /\ launch.played /\ s.running)
             empty == IF ~s.running /\ launch.kind = 3 /\ launch.played /\ seenNow
                      THEN W!Bump(launch.empty) ELSE 0
             next == [launch EXCEPT !.have = TRUE, !.stamp = stamp, !.seen = seenNow,
                                    !.empty = empty]
  <1>1. /\ s.clock \in 0 .. MaxClock /\ s.clock \in Nat /\ s.running \in BOOLEAN
        /\ s.clock < clock /\ (~s.running => s.clock \in emptyAt)
        /\ clock \in Nat /\ launch.empty \in 0 .. 2 /\ launch.seen \in BOOLEAN
        /\ launch.have \in BOOLEAN
        /\ launch.active \in BOOLEAN /\ launch.played \in BOOLEAN
    BY WatchRecords DEF WatchInv, HostFacts
  <1>2. CASE ~W!LaunchFresh(stamp)
    <2>1. launch' = launch
      BY <1>2 DEF W!LaunchStatus
    <2> QED
      BY <2>1, LaunchRecord DEF WatchInv, LaunchFacts, LaunchAt, RanBefore, W!Stamp
  <1>3. CASE W!LaunchFresh(stamp)
    <2>1. launch' = next
      BY <1>3 DEF W!LaunchStatus
    <2>2. stamp \in 0 .. Width - 1 /\ seenNow \in BOOLEAN /\ empty \in 0 .. 2
      <3>1. W!Bump(launch.empty) \in 0 .. 2 /\ 0 \in 0 .. 2
        BY <1>1, SMT DEF W!Bump
      <3>2. stamp \in 0 .. Width - 1
        BY <1>1, NewerIsLater
      <3> QED
        BY <1>1, <3>1, <3>2, Zenon
    <2>3. launch.have => \E k \in 0 .. MaxClock : LaunchAt(k) /\ k < s.clock
      <3> SUFFICES ASSUME launch.have PROVE \E k \in 0 .. MaxClock : LaunchAt(k) /\ k < s.clock
        OBVIOUS
      <3>1. PICK k \in 0 .. MaxClock : LaunchAt(k)
        BY DEF WatchInv, LaunchFacts
      <3>2. W!Newer(stamp, W!Stamp(k))
        BY <1>3, <3>1 DEF W!LaunchFresh, LaunchAt
      <3> QED
        BY <1>1, <3>1, <3>2, NewerIsLater
    <2>4. seenNow => s.running \/ launch.seen
      OBVIOUS
    <2>5. empty >= 1 => /\ ~s.running /\ launch.seen
                        /\ empty = 2 => launch.empty >= 1
      BY <1>1, SMT DEF W!Bump
    <2> HIDE DEF seenNow, empty, stamp
    <2>6. /\ next \in [target : BOOLEAN, stamp : 0 .. Width - 1, floor : 0 .. MaxFrames,
                    kind : W!Kinds, active : BOOLEAN, played : BOOLEAN, seen : BOOLEAN,
                    have : BOOLEAN, empty : 0 .. 2]
          /\ next.have = TRUE /\ next.seen = seenNow /\ next.stamp = stamp /\ next.empty = empty
      BY <2>2, LaunchRecord, Zenon DEF WatchInv
    <2> HIDE DEF next
    <2>7. launch.seen => launch.have
      BY DEF WatchInv, LaunchFacts
    <2>8. launch.seen => \E k \in 0 .. MaxClock : LaunchAt(k) /\ k < s.clock
      BY <2>3, <2>7
    <2>9. seenNow => \E r \in broadcast : r.running /\ r.clock < s.clock + 1
      <3>1. CASE s.running
        BY <1>1, <3>1, SMT
      <3>2. CASE launch.seen
        <4>1. PICK k \in 0 .. MaxClock : LaunchAt(k) /\ k < s.clock
          BY <2>8, <3>2
        <4>2. PICK r \in broadcast : r.running /\ r.clock < k + 1
          BY <3>2, <4>1 DEF LaunchAt, RanBefore
        <4>3. r.clock < s.clock + 1
          BY <1>1, <4>1, <4>2, WatchAssumption, WatchRecords, SMT DEF WatchInv
        <4> QED
          BY <4>2, <4>3
      <3> QED
        BY <2>4, <3>1, <3>2
    <2>10. empty >= 1 => \E c \in emptyAt : c <= s.clock /\ RanBefore(c)
      <3> SUFFICES ASSUME empty >= 1 PROVE \E c \in emptyAt : c <= s.clock /\ RanBefore(c)
        OBVIOUS
      <3>1. s.clock \in emptyAt /\ s.clock <= s.clock
        BY <1>1, <2>5, SMT
      <3>2. PICK k \in 0 .. MaxClock : LaunchAt(k) /\ k < s.clock
        BY <2>5, <2>8
      <3>3. PICK r \in broadcast : r.running /\ r.clock < k + 1
        BY <2>5, <3>2 DEF LaunchAt, RanBefore
      <3>4. r.clock < s.clock
        BY <1>1, <3>2, <3>3, WatchAssumption, WatchRecords, SMT DEF WatchInv
      <3> QED
        BY <3>1, <3>3, <3>4 DEF RanBefore
    <2>11. empty = 2 => \E c, d \in emptyAt : c < d /\ d <= s.clock /\ RanBefore(c)
      <3> SUFFICES ASSUME empty = 2
                   PROVE  \E c, d \in emptyAt : c < d /\ d <= s.clock /\ RanBefore(c)
        OBVIOUS
      <3>1. empty >= 1
        BY SMT
      <3>2. s.clock \in emptyAt /\ s.clock <= s.clock
        BY <1>1, <2>5, <3>1, SMT
      <3>3. PICK k \in 0 .. MaxClock : LaunchAt(k) /\ k < s.clock
        BY <2>5, <2>8, <3>1
      <3>4. PICK c \in emptyAt : c <= k /\ RanBefore(c)
        BY <2>5, <3>1, <3>3 DEF LaunchAt
      <3>5. c < s.clock
        BY <1>1, <3>3, <3>4, WatchAssumption, WatchRecords, SMT DEF WatchInv
      <3> QED
        BY <3>2, <3>4, <3>5
    <2>12. LaunchAt(s.clock)'
      BY <1>1, <2>1, <2>6, <2>9, <2>10, <2>11 DEF LaunchAt, RanBefore, W!Stamp, stamp
    <2> QED
      BY <1>1, <2>1, <2>6, <2>12 DEF LaunchFacts
  <1> QED
    BY <1>2, <1>3

\* What END_GAME makes of a status of the host.
LEMMA EndObserves ==
    ASSUME WatchInv, NEW s \in broadcast,
           endGame' = W!EndStatus(s.running, W!Stamp(s.clock)),
           UNCHANGED <<clock, emptyAt, known>>
    PROVE  EndFacts'
           /\ endGame' \in [at : BOOLEAN, stamp : 0 .. Width - 1, have : BOOLEAN, empty : 0 .. 2]
  <1> DEFINE stamp == W!Stamp(s.clock)
             empty == IF endGame.have /\ ~s.running THEN W!Bump(endGame.empty) ELSE 0
             next == [endGame EXCEPT !.have = TRUE, !.stamp = stamp, !.empty = empty]
  <1>1. /\ s.clock \in 0 .. MaxClock /\ s.clock \in Nat /\ s.running \in BOOLEAN
        /\ s.clock < clock /\ (~s.running => s.clock \in emptyAt)
        /\ clock \in Nat /\ known \in Nat /\ endGame.empty \in 0 .. 2
        /\ endGame.have \in BOOLEAN /\ endGame.at \in BOOLEAN
    BY WatchRecords DEF WatchInv, HostFacts
  <1>2. CASE ~endGame.at \/ ~W!EndFresh(stamp)
    <2>1. endGame' = endGame
      BY <1>2 DEF W!EndStatus
    <2> QED
      BY <2>1, EndRecord DEF WatchInv, EndFacts, EndAt, W!Stamp
  <1>3. CASE endGame.at /\ W!EndFresh(stamp)
    <2>1. endGame' = next
      BY <1>3 DEF W!EndStatus
    <2>2. stamp \in 0 .. Width - 1 /\ empty \in 0 .. 2
      <3>1. W!Bump(endGame.empty) \in 0 .. 2 /\ 0 \in 0 .. 2
        BY <1>1, SMT DEF W!Bump
      <3>2. stamp \in 0 .. Width - 1
        BY <1>1, NewerIsLater
      <3> QED
        BY <1>1, <3>1, <3>2, Zenon
    <2>3. endGame.have => \E k \in 0 .. MaxClock : EndAt(k) /\ k < s.clock
      <3> SUFFICES ASSUME endGame.have PROVE \E k \in 0 .. MaxClock : EndAt(k) /\ k < s.clock
        OBVIOUS
      <3>1. PICK k \in 0 .. MaxClock : EndAt(k)
        BY DEF WatchInv, EndFacts
      <3>2. W!Newer(stamp, W!Stamp(k))
        BY <1>3, <3>1 DEF W!EndFresh, EndAt
      <3> QED
        BY <1>1, <3>1, <3>2, NewerIsLater
    <2>5. empty >= 1 => /\ ~s.running /\ endGame.have
                        /\ empty = 2 => endGame.empty >= 1
      BY <1>1, SMT DEF W!Bump
    <2> HIDE DEF empty, stamp
    <2>6. /\ next \in [at : BOOLEAN, stamp : 0 .. Width - 1, have : BOOLEAN, empty : 0 .. 2]
          /\ next.have = TRUE /\ next.at = endGame.at /\ next.stamp = stamp /\ next.empty = empty
      BY <2>2, EndRecord, Zenon DEF WatchInv
    <2> HIDE DEF next
    <2>7. known <= s.clock + 1 /\ (endGame.have => known <= s.clock)
      <3>1. CASE ~endGame.have
        <4>1. known = 0
          BY <1>3, <3>1 DEF WatchInv, EndFacts
        <4> QED
          BY <1>1, <3>1, <4>1, SMT
      <3>2. CASE endGame.have
        <4>1. PICK k \in 0 .. MaxClock : EndAt(k) /\ k < s.clock
          BY <2>3, <3>2
        <4> QED
          BY <1>1, <4>1, WatchAssumption, SMT DEF EndAt
      <3> QED
        BY <3>1, <3>2
    <2>10. empty >= 1 => \E c \in emptyAt : known <= c /\ c <= s.clock
      <3>1. s.clock <= s.clock
        BY <1>1, SMT
      <3> QED
        BY <1>1, <2>5, <2>7, <3>1
    <2>11. empty = 2 => \E c, d \in emptyAt : known <= c /\ c < d /\ d <= s.clock
      <3> SUFFICES ASSUME empty = 2
                   PROVE  \E c, d \in emptyAt : known <= c /\ c < d /\ d <= s.clock
        OBVIOUS
      <3>1. empty >= 1
        BY SMT
      <3>2. s.clock \in emptyAt /\ s.clock <= s.clock
        BY <1>1, <2>5, <3>1, SMT
      <3>3. PICK k \in 0 .. MaxClock : EndAt(k) /\ k < s.clock
        BY <2>3, <2>5, <3>1
      <3>4. PICK c \in emptyAt : known <= c /\ c <= k
        BY <2>5, <3>1, <3>3 DEF EndAt
      <3>5. c < s.clock
        BY <1>1, <3>3, <3>4, WatchAssumption, WatchRecords, SMT DEF WatchInv
      <3> QED
        BY <3>2, <3>4, <3>5
    <2>12. EndAt(s.clock)'
      BY <1>1, <2>1, <2>6, <2>7, <2>10, <2>11 DEF EndAt, W!Stamp, stamp
    <2> QED
      BY <1>1, <1>3, <2>1, <2>6, <2>12 DEF EndFacts
  <1> QED
    BY <1>2, <1>3

\* A status that arrives is counted by both watches.
LEMMA WatchObserve == ASSUME WatchInv, NEW s \in broadcast, W!Observe(s) PROVE WatchInv'
  <1>1. /\ launch' = W!LaunchStatus(s.running, W!Stamp(s.clock))
        /\ endGame' = W!EndStatus(s.running, W!Stamp(s.clock))
        /\ UNCHANGED <<clock, running, broadcast, emptyAt, streaming, streams, displayed, known>>
        /\ UNCHANGED results
    BY DEF W!Observe, W!hostVars, W!resultVars, results
  <1>2. W!WatchTypeOK'
    BY <1>1, LaunchObserves, EndObserves DEF WatchInv, W!WatchTypeOK, W!Kinds, W!Verdicts, results
  <1>3. HostFacts'
    BY <1>1 DEF WatchInv, HostFacts
  <1>4. StagesFit' /\ W!CompletionIsReal'
    BY <1>1, VerdictKept
  <1> QED
    BY <1>1, <1>2, <1>3, <1>4, LaunchObserves, EndObserves DEF WatchInv

\* Every step of the watch keeps the counts.
LEMMA WatchNext == ASSUME WatchInv, W!Next PROVE WatchInv'
  BY WatchBroadcast, WatchPlays, WatchHostStops, WatchStart, WatchActivity, WatchSample,
     WatchObserve, WatchUnstamped, WatchEndGame, WatchPoll, WatchJoin, WatchStopped DEF W!Next

-----------------------------------------------------------------------------
\* DnsPolicy: the queue and the wire.

ALookup == [at : {"idle", "enqueue", "pass", "queue", "begin", "settle", "sleep", "cleanup"},
            leg : D!Legs]

DnsTypes ==
    /\ dnsScope \in [Resolvers -> [kind : {"none", "token", "temporary"}, cancelled : BOOLEAN]]
    /\ lookup \in [Resolvers -> ALookup]
    /\ legs \in [Resolvers -> [D!Legs -> D!Leg]]
    /\ queue \in Seq(Resolvers \X D!Legs)

Queued(t, i) == \E n \in DOMAIN queue : queue[n] = <<t, i>>
QueuedOnce == \A m, n \in DOMAIN queue : queue[m] = queue[n] => m = n

Gone(leg) == leg.state = "none" /\ ~leg.held

\* A lookup has the legs that it has come to, and one of them on its way to the wire.
ThreadOK(t) ==
    /\ lookup[t].at = "idle" => \A j \in D!Legs : Gone(legs[t][j])
    /\ lookup[t].at = "enqueue" => \A j \in D!Legs : j >= lookup[t].leg => Gone(legs[t][j])
    /\ lookup[t].at = "cleanup" => \A j \in D!Legs : j < lookup[t].leg => Gone(legs[t][j])
    /\ lookup[t].at = "begin" => /\ legs[t][lookup[t].leg].state = "queued"
                                 /\ legs[t][lookup[t].leg].held
    /\ \A j \in D!Legs :
          /\ legs[t][j].held => \/ legs[t][j].state = "active"
                                \/ lookup[t].at \in {"begin", "settle"} /\ lookup[t].leg = j
          /\ D!Waits(t, j) <=> Queued(t, j)

Holding == {q \in Resolvers \X D!Legs : legs[q[1]][q[2]].held}

WireCounted == wire = Cardinality(Holding) /\ wire \in 0 .. WireLimit

DnsInv == DnsTypes /\ QueuedOnce /\ WireCounted /\ \A t \in Resolvers : ThreadOK(t)

\* The legs are numbered from one.
LEMMA LegNumbers == D!Legs = 1 .. Servers /\ 1 \in D!Legs /\ IsFiniteSet(D!Legs)
                    /\ IsFiniteSet(Resolvers \X D!Legs) /\ \A i \in D!Legs : i \in Nat
  <1>1. D!Legs = 1 .. Servers /\ 1 \in 1 .. Servers /\ \A i \in 1 .. Servers : i \in Nat
    BY DnsAssumption, SMT DEF D!Legs
  <1>2. IsFiniteSet(1 .. Servers)
    BY DnsAssumption, FS_Interval, SMT
  <1> QED
    BY <1>1, <1>2, DnsAssumption, FS_Product

\* A leg that is not there is a leg that holds nothing.
LEMMA NoLegIsLeg == D!NoLeg \in D!Leg /\ Gone(D!NoLeg)
  <1>1. 0 \in 0 .. QueryBudget /\ 0 \in 0 .. Retry
    BY DnsAssumption, SMT
  <1> QED
    BY <1>1, Zenon DEF D!NoLeg, D!Leg, Gone

\* One leg changes.
LEMMA OneLeg ==
    ASSUME DnsTypes, NEW t \in Resolvers, NEW i \in D!Legs, NEW x \in D!Leg,
           legs' = [legs EXCEPT ![t] = [legs[t] EXCEPT ![i] = x]]
    PROVE  /\ legs' \in [Resolvers -> [D!Legs -> D!Leg]] /\ legs'[t][i] = x
           /\ \A u \in Resolvers, j \in D!Legs : u # t \/ j # i => legs'[u][j] = legs[u][j]
  BY DEF DnsTypes

\* The sockets in use follow the leg.
LEMMA WireFollows ==
    ASSUME DnsTypes, WireCounted, NEW t \in Resolvers, NEW i \in D!Legs, NEW x \in D!Leg,
           legs' = [legs EXCEPT ![t] = [legs[t] EXCEPT ![i] = x]],
           \/ x.held /\ legs[t][i].held /\ wire' = wire
           \/ ~x.held /\ ~legs[t][i].held /\ wire' = wire
           \/ x.held /\ ~legs[t][i].held /\ wire' = wire + 1 /\ wire < WireLimit
           \/ ~x.held /\ legs[t][i].held /\ wire' = wire - 1
    PROVE  WireCounted'
  <1> DEFINE q == <<t, i>>
  <1>1. /\ IsFiniteSet(Holding) /\ wire = Cardinality(Holding) /\ wire \in 0 .. WireLimit
        /\ Cardinality(Holding) \in Nat
    <2>1. Holding \subseteq Resolvers \X D!Legs
      BY DEF Holding
    <2> QED
      BY <2>1, LegNumbers, FS_Subset, FS_CardinalityType DEF WireCounted
  <1>2. \A p \in Resolvers \X D!Legs : p # q => legs'[p[1]][p[2]] = legs[p[1]][p[2]]
    <2> SUFFICES ASSUME NEW u \in Resolvers, NEW j \in D!Legs, <<u, j>> # q
                 PROVE  legs'[u][j] = legs[u][j]
      OBVIOUS
    <2> QED
      BY OneLeg
  <1>3. legs'[t][i] = x /\ q \in Resolvers \X D!Legs /\ q[1] = t /\ q[2] = i
    BY OneLeg, ZenonT(60)
  <1> HIDE DEF q
  <1>4. CASE x.held /\ legs[t][i].held /\ wire' = wire
    <2>1. Holding' = Holding
      BY <1>2, <1>3, <1>4 DEF Holding
    <2> QED
      BY <1>1, <1>4, <2>1 DEF WireCounted
  <1>5. CASE ~x.held /\ ~legs[t][i].held /\ wire' = wire
    <2>1. Holding' = Holding
      BY <1>2, <1>3, <1>5 DEF Holding
    <2> QED
      BY <1>1, <1>5, <2>1 DEF WireCounted
  <1>6. CASE x.held /\ ~legs[t][i].held /\ wire' = wire + 1 /\ wire < WireLimit
    <2>1. Holding' = Holding \union {q} /\ q \notin Holding
      BY <1>2, <1>3, <1>6 DEF Holding
    <2>2. Cardinality(Holding') = Cardinality(Holding) + 1
      BY <1>1, <2>1, FS_AddElement
    <2> QED
      BY <1>1, <1>6, <2>2, DnsAssumption, SMT DEF WireCounted
  <1>7. CASE ~x.held /\ legs[t][i].held /\ wire' = wire - 1
    <2>1. Holding' = Holding \ {q} /\ q \in Holding
      BY <1>2, <1>3, <1>7 DEF Holding
    <2>2. Cardinality(Holding') = Cardinality(Holding) - 1
      BY <1>1, <2>1, FS_RemoveElement
    <2>3. Cardinality(Holding) # 0
      BY <1>1, <2>1, FS_EmptySet
    <2> QED
      BY <1>1, <1>7, <2>2, <2>3, DnsAssumption, SMT DEF WireCounted
  <1> QED
    BY <1>4, <1>5, <1>6, <1>7

\* The wire is counted while no leg takes or gives back a place.
LEMMA WireStays ==
    ASSUME WireCounted, UNCHANGED wire,
           \A t \in Resolvers, j \in D!Legs : legs'[t][j].held = legs[t][j].held
    PROVE  WireCounted'
  <1>1. Holding' = Holding
    BY DEF Holding
  <1> QED
    BY <1>1 DEF WireCounted

\* What a step does to the queue: nothing, or one leg joins or leaves.
QueueKept == UNCHANGED queue
QueueJoined(t, i) ==
    \A u \in Resolvers, j \in D!Legs : Queued(u, j)' <=> Queued(u, j) \/ (u = t /\ j = i)
QueueLeft(t, i) ==
    \A u \in Resolvers, j \in D!Legs : Queued(u, j)' <=> Queued(u, j) /\ ~(u = t /\ j = i)

\* A leg that joins the queue is in it, and nobody else is because of that.
LEMMA Joins ==
    ASSUME DnsTypes, QueuedOnce, NEW t \in Resolvers, NEW i \in D!Legs, ~Queued(t, i),
           queue' = Append(queue, <<t, i>>)
    PROVE  queue' \in Seq(Resolvers \X D!Legs) /\ QueuedOnce' /\ QueueJoined(t, i)
  <1> DEFINE q == <<t, i>>  P == Resolvers \X D!Legs
  <1>1. q \in P /\ queue \in Seq(P)
    BY DEF DnsTypes
  <1>2. Len(queue) \in Nat /\ DOMAIN queue = 1 .. Len(queue)
    BY <1>1, SMT
  <1> HIDE DEF q, P
  <1>3. /\ queue' \in Seq(P) /\ Len(queue') = Len(queue) + 1 /\ queue'[Len(queue) + 1] = q
        /\ DOMAIN queue' = 1 .. Len(queue) + 1
        /\ \A n \in 1 .. Len(queue) : queue'[n] = queue[n]
    BY <1>1, SMT DEF q
  <1>4. \A n \in 1 .. Len(queue) : queue[n] # q
    BY <1>2 DEF Queued, q
  <1>5. /\ \A n \in 1 .. Len(queue) : n \in 1 .. Len(queue) + 1
        /\ \A n \in 1 .. Len(queue) + 1 : n \in 1 .. Len(queue) \/ n = Len(queue) + 1
        /\ Len(queue) + 1 \in 1 .. Len(queue) + 1
    BY <1>2, SMT
  <1>6. QueuedOnce'
    <2> SUFFICES ASSUME NEW m \in 1 .. Len(queue) + 1, NEW n \in 1 .. Len(queue) + 1,
                        queue'[m] = queue'[n]
                 PROVE  m = n
      BY <1>3 DEF QueuedOnce
    <2>1. CASE m \in 1 .. Len(queue) /\ n \in 1 .. Len(queue)
      BY <1>2, <1>3, <2>1 DEF QueuedOnce
    <2>2. CASE m \in 1 .. Len(queue) /\ n = Len(queue) + 1
      BY <1>3, <1>4, <2>2
    <2>3. CASE m = Len(queue) + 1 /\ n \in 1 .. Len(queue)
      BY <1>3, <1>4, <2>3
    <2> QED
      BY <1>5, <2>1, <2>2, <2>3
  <1>7. QueueJoined(t, i)
    <2> SUFFICES ASSUME NEW u \in Resolvers, NEW j \in D!Legs
                 PROVE  Queued(u, j)' <=> Queued(u, j) \/ (u = t /\ j = i)
      BY DEF QueueJoined
    <2>1. ASSUME Queued(u, j)' PROVE Queued(u, j) \/ (u = t /\ j = i)
      <3>1. PICK n \in 1 .. Len(queue) + 1 : queue'[n] = <<u, j>>
        BY <1>3, <2>1 DEF Queued
      <3>2. CASE n \in 1 .. Len(queue)
        BY <1>2, <1>3, <3>1, <3>2 DEF Queued
      <3>3. CASE n = Len(queue) + 1
        <4>1. <<u, j>> = <<t, i>>
          BY <1>3, <3>1, <3>3 DEF q
        <4> QED
          BY <4>1
      <3> QED
        BY <1>5, <3>2, <3>3
    <2>2. ASSUME Queued(u, j) PROVE Queued(u, j)'
      BY <1>2, <1>3, <1>5, <2>2 DEF Queued
    <2>3. ASSUME u = t, j = i PROVE Queued(u, j)'
      BY <1>3, <1>5, <2>3 DEF Queued, q
    <2> QED
      BY <2>1, <2>2, <2>3
  <1> QED
    BY <1>3, <1>6, <1>7 DEF P

\* A queue without its entry at one place.
LEMMA Unlinked ==
    ASSUME DnsTypes, QueuedOnce, NEW t \in Resolvers, NEW i \in D!Legs,
           NEW p \in DOMAIN queue, queue[p] = <<t, i>>,
           queue' = [n \in 1 .. Len(queue) - 1 |-> queue[IF n < p THEN n ELSE n + 1]]
    PROVE  queue' \in Seq(Resolvers \X D!Legs) /\ QueuedOnce' /\ QueueLeft(t, i)
  <1> DEFINE P == Resolvers \X D!Legs  was(n) == IF n < p THEN n ELSE n + 1
             l == Len(queue)
  <1>1. queue \in Seq(P) /\ l \in Nat /\ DOMAIN queue = 1 .. l /\ p \in 1 .. l
        /\ \A n \in 1 .. l : queue[n] \in P
    BY SMT DEF DnsTypes
  <1> HIDE DEF P, l
  <1>2. /\ l - 1 \in Nat
        /\ \A n \in 1 .. l - 1 : was(n) \in 1 .. l /\ was(n) # p
        /\ \A m, n \in 1 .. l - 1 : was(m) = was(n) => m = n
        /\ \A n \in 1 .. l : n # p => \E m \in 1 .. l - 1 : was(m) = n
    <2>1. l - 1 \in Nat
      BY <1>1, SMT
    <2>2. \A n \in 1 .. l - 1 : was(n) \in 1 .. l /\ was(n) # p
      BY <1>1, SMT
    <2>3. \A m, n \in 1 .. l - 1 : was(m) = was(n) => m = n
      BY <1>1, SMT
    <2>4. ASSUME NEW n \in 1 .. l, n # p PROVE \E m \in 1 .. l - 1 : was(m) = n
      <3>1. CASE n < p
        <4>1. n \in 1 .. l - 1
          BY <1>1, <3>1, SMT
        <4> QED
          BY <3>1, <4>1
      <3>2. CASE ~(n < p)
        <4>1. n - 1 \in 1 .. l - 1 /\ ~(n - 1 < p) /\ n - 1 + 1 = n
          BY <1>1, <2>4, <3>2, SMT
        <4> QED
          BY <4>1
      <3> QED
        BY <3>1, <3>2
    <2> QED
      BY <2>1, <2>2, <2>3, <2>4
  <1>3. queue' = [n \in 1 .. l - 1 |-> queue[was(n)]]
    BY DEF l
  <1> HIDE DEF was
  <1>4. queue' \in [1 .. l - 1 -> P] /\ DOMAIN queue' = 1 .. l - 1
        /\ \A n \in 1 .. l - 1 : queue'[n] = queue[was(n)]
    BY <1>1, <1>2, <1>3
  <1>5. queue' \in Seq(P)
    BY <1>2, <1>4, SMTT(60)
  <1>6. QueuedOnce'
    <2> SUFFICES ASSUME NEW m \in 1 .. l - 1, NEW n \in 1 .. l - 1, queue'[m] = queue'[n]
                 PROVE  m = n
      BY <1>4 DEF QueuedOnce
    <2>1. was(m) \in DOMAIN queue /\ was(n) \in DOMAIN queue /\ queue[was(m)] = queue[was(n)]
      BY <1>1, <1>2, <1>4
    <2>2. was(m) = was(n)
      BY <2>1 DEF QueuedOnce
    <2> QED
      BY <1>2, <2>2
  <1>7. QueueLeft(t, i)
    <2> SUFFICES ASSUME NEW u \in Resolvers, NEW j \in D!Legs
                 PROVE  Queued(u, j)' <=> Queued(u, j) /\ ~(u = t /\ j = i)
      BY DEF QueueLeft
    <2>1. ASSUME Queued(u, j)' PROVE Queued(u, j) /\ ~(u = t /\ j = i)
      <3>1. PICK n \in 1 .. l - 1 : queue[was(n)] = <<u, j>>
        BY <1>4, <2>1 DEF Queued
      <3>2. was(n) \in DOMAIN queue /\ was(n) # p
        BY <1>1, <1>2
      <3> QED
        BY <1>1, <3>1, <3>2 DEF Queued, QueuedOnce
    <2>2. ASSUME Queued(u, j), ~(u = t /\ j = i) PROVE Queued(u, j)'
      <3>1. PICK n \in 1 .. l : queue[n] = <<u, j>>
        BY <1>1, <2>2 DEF Queued
      <3>2. n # p
        BY <2>2, <3>1
      <3>3. PICK m \in 1 .. l - 1 : was(m) = n
        BY <1>2, <3>2
      <3> QED
        BY <1>4, <3>1, <3>3 DEF Queued
    <2> QED
      BY <2>1, <2>2
  <1> QED
    BY <1>5, <1>6, <1>7 DEF P

\* A leg that leaves the queue is out of it, and nobody else is.
LEMMA LeavesQueue ==
    ASSUME DnsTypes, QueuedOnce, NEW t \in Resolvers, NEW i \in D!Legs,
           queue' = D!Without(t, i)
    PROVE  queue' \in Seq(Resolvers \X D!Legs) /\ QueuedOnce' /\ QueueLeft(t, i)
  <1> DEFINE places == {n \in DOMAIN queue : queue[n] = <<t, i>>}
             first == CHOOSE n \in places : \A m \in places : n <= m
  <1>1. CASE places = {}
    <2>1. queue' = queue
      BY <1>1 DEF D!Without
    <2>2. ~Queued(t, i)
      BY <1>1 DEF Queued
    <2> QED
      BY <2>1, <2>2 DEF DnsTypes, QueuedOnce, QueueLeft, Queued
  <1>2. CASE places # {}
    <2>1. PICK p \in places : TRUE
      BY <1>2
    <2>2. places = {p} /\ p \in DOMAIN queue /\ queue[p] = <<t, i>>
      BY <2>1 DEF QueuedOnce
    <2>3. p <= p
      <3>1. p \in Nat
        BY <2>2, SMT DEF DnsTypes
      <3> QED
        BY <3>1, SMT
    <2>4. first = p
      BY <2>2, <2>3
    <2>5. queue' = [n \in 1 .. Len(queue) - 1 |-> queue[IF n < first THEN n ELSE n + 1]]
      BY <1>2 DEF D!Without
    <2> HIDE DEF first, places
    <2> QED
      BY <2>2, <2>4, <2>5, Unlinked
  <1> QED
    BY <1>1, <1>2

\* The same of the head of the queue.
LEMMA LeavesFirst ==
    ASSUME DnsTypes, QueuedOnce, NEW t \in Resolvers, NEW i \in D!Legs,
           queue # <<>>, Head(queue) = <<t, i>>, queue' = Tail(queue)
    PROVE  /\ queue' \in Seq(Resolvers \X D!Legs) /\ QueuedOnce' /\ QueueLeft(t, i)
           /\ Queued(t, i)
  <1>1. /\ queue \in Seq(Resolvers \X D!Legs) /\ Len(queue) \in Nat
        /\ DOMAIN queue = 1 .. Len(queue) /\ Len(queue) # 0
    BY SMT DEF DnsTypes
  <1>2. 1 \in DOMAIN queue /\ queue[1] = <<t, i>>
    BY <1>1, SMT
  <1>3. queue' = [n \in 1 .. Len(queue) - 1 |-> queue[IF n < 1 THEN n ELSE n + 1]]
    <2>1. Tail(queue) = [n \in 1 .. Len(queue) - 1 |-> queue[n + 1]]
      <3>1. /\ Tail(queue) \in Seq(Resolvers \X D!Legs) /\ Len(Tail(queue)) = Len(queue) - 1
            /\ \A n \in 1 .. Len(Tail(queue)) : Tail(queue)[n] = queue[n + 1]
        BY <1>1, HeadTailProperties
      <3> DEFINE tail == Tail(queue)
      <3>2. tail = [n \in 1 .. Len(tail) |-> tail[n]]
        <4>1. tail \in Seq(Resolvers \X D!Legs)
          BY <3>1
        <4> HIDE DEF tail
        <4> QED
          BY <4>1, SMT
      <3> QED
        BY <3>1, <3>2
    <2>2. \A n \in 1 .. Len(queue) - 1 : ~(n < 1)
      BY <1>1, SMT
    <2> QED
      BY <2>1, <2>2
  <1> QED
    BY <1>2, <1>3, Unlinked DEF Queued

ScopeTypes ==
    dnsScope \in [Resolvers -> [kind : {"none", "token", "temporary"}, cancelled : BOOLEAN]]

\* What a step that changes leg i of thread t to x does to the wire and the queue.
WireMoves(t, i, x) ==
    \/ x.held /\ legs[t][i].held /\ wire' = wire
    \/ ~x.held /\ ~legs[t][i].held /\ wire' = wire
    \/ x.held /\ ~legs[t][i].held /\ wire' = wire + 1 /\ wire < WireLimit
    \/ ~x.held /\ legs[t][i].held /\ wire' = wire - 1

QueueMoves(t, i) ==
    \/ QueueKept
    \/ /\ QueueJoined(t, i) \/ QueueLeft(t, i)
       /\ QueuedOnce' /\ queue' \in Seq(Resolvers \X D!Legs)

\* The places that the lookup may go to with that leg.
Allowed(t, w, k, i, x) ==
    /\ lookup[t].at \in {"begin", "settle"} => lookup[t].leg = i
    /\ w = "idle" => \A j \in D!Legs : j # i => Gone(legs[t][j])
    /\ w = "enqueue" => \A j \in D!Legs : j # i /\ j >= k => Gone(legs[t][j])
    /\ w = "cleanup" => \A j \in D!Legs : j # i /\ j < k => Gone(legs[t][j])
    /\ w = "idle" \/ (w = "enqueue" /\ i >= k) \/ (w = "cleanup" /\ i < k) => Gone(x)
    /\ w = "begin" => k = i /\ x.state = "queued" /\ x.held
    /\ x.held => x.state = "active" \/ (w \in {"begin", "settle"} /\ k = i)
    /\ x.state = "queued" /\ w # "begin" <=> Queued(t, i)'

AtBegin(r, j) == r.at = "begin" /\ r.leg = j

\* When a leg waits.
LEMMA WaitsMeans ==
    /\ \A r \in ALookup, j \in D!Legs : r = [at |-> "begin", leg |-> j] <=> AtBegin(r, j)
    /\ \A w \in {"idle", "enqueue", "pass", "queue", "begin", "settle", "sleep", "cleanup"},
          k \in D!Legs :
          /\ [at |-> w, leg |-> k] \in ALookup
          /\ [at |-> w, leg |-> k].at = w /\ [at |-> w, leg |-> k].leg = k
  <1>1. \A r \in ALookup, j \in D!Legs : r = [at |-> "begin", leg |-> j] <=> AtBegin(r, j)
    BY SMT DEF ALookup, AtBegin
  <1> QED
    BY <1>1, SMT DEF ALookup

\* What a lookup does leaves the others alone.
LEMMA OtherThreads ==
    ASSUME DnsInv, NEW t \in Resolvers,
           \A u \in Resolvers : u # t =>
              /\ lookup'[u] = lookup[u]
              /\ \A j \in D!Legs : legs'[u][j] = legs[u][j] /\ (Queued(u, j)' <=> Queued(u, j)),
           ThreadOK(t)'
    PROVE  \A u \in Resolvers : ThreadOK(u)'
  <1> SUFFICES ASSUME NEW u \in Resolvers, u # t PROVE ThreadOK(u)'
    OBVIOUS
  <1>1. ThreadOK(u)
    BY DEF DnsInv
  <1>2. \A j \in D!Legs : legs'[u][j] = legs[u][j] /\ (Queued(u, j)' <=> Queued(u, j))
    OBVIOUS
  <1>3. lookup'[u] = lookup[u]
    OBVIOUS
  <1>4. \A j \in D!Legs : /\ Gone(legs[u][j])' <=> Gone(legs[u][j])
                          /\ D!Waits(u, j)' <=> D!Waits(u, j)
    BY <1>2, <1>3 DEF Gone, D!Waits
  <1>5. /\ lookup'[u].at = "idle" => \A j \in D!Legs : Gone(legs[u][j])'
        /\ lookup'[u].at = "enqueue" =>
              \A j \in D!Legs : j >= lookup'[u].leg => Gone(legs[u][j])'
        /\ lookup'[u].at = "cleanup" =>
              \A j \in D!Legs : j < lookup'[u].leg => Gone(legs[u][j])'
    BY <1>1, <1>3, <1>4 DEF ThreadOK
  <1>6. lookup'[u].at = "begin" => /\ legs'[u][lookup'[u].leg].state = "queued"
                                   /\ legs'[u][lookup'[u].leg].held
    <2>1. lookup[u].leg \in D!Legs
      BY DEF DnsInv, DnsTypes, ALookup
    <2> QED
      BY <1>1, <1>2, <1>3, <2>1 DEF ThreadOK
  <1>7. \A j \in D!Legs :
           /\ legs'[u][j].held => \/ legs'[u][j].state = "active"
                                  \/ lookup'[u].at \in {"begin", "settle"} /\ lookup'[u].leg = j
           /\ D!Waits(u, j)' <=> Queued(u, j)'
    BY <1>1, <1>2, <1>3, <1>4 DEF ThreadOK
  <1> QED
    BY <1>5, <1>6, <1>7 DEF ThreadOK, Gone

\* A lookup goes to another place.
LEMMA Moves ==
    ASSUME DnsTypes, NEW t \in Resolvers, NEW k \in D!Legs,
           NEW w \in {"idle", "enqueue", "pass", "queue", "begin", "settle", "sleep", "cleanup"},
           D!Goes(t, w, k)
    PROVE  /\ lookup' \in [Resolvers -> ALookup]
           /\ lookup'[t].at = w /\ lookup'[t].leg = k
           /\ \A u \in Resolvers : u # t => lookup'[u] = lookup[u]
           /\ \A j \in D!Legs : lookup'[t] = [at |-> "begin", leg |-> j]
                                   <=> w = "begin" /\ k = j
  <1>1. lookup' = [lookup EXCEPT ![t] = [at |-> w, leg |-> k]]
    BY DEF D!Goes
  <1>2. lookup' \in [Resolvers -> ALookup] /\ lookup'[t] = [at |-> w, leg |-> k]
        /\ \A u \in Resolvers : u # t => lookup'[u] = lookup[u]
    BY <1>1, WaitsMeans DEF DnsTypes
  <1>3. lookup'[t].at = w /\ lookup'[t].leg = k /\ lookup'[t] \in ALookup
    BY <1>2, WaitsMeans
  <1> QED
    BY <1>2, <1>3, WaitsMeans DEF AtBegin

\* A step that only moves a lookup.
LEMMA MovesOnly ==
    ASSUME DnsInv, NEW t \in Resolvers, NEW k \in D!Legs,
           NEW w \in {"idle", "enqueue", "pass", "queue", "begin", "settle", "sleep", "cleanup"},
           D!Goes(t, w, k), UNCHANGED <<legs, queue, wire>>,
           ScopeTypes',
           ThreadOK(t)'
    PROVE  DnsInv'
  <1>1. /\ lookup' \in [Resolvers -> ALookup]
        /\ \A u \in Resolvers : u # t => lookup'[u] = lookup[u]
    BY Moves, SMTT(60) DEF DnsInv
  <1>2. DnsTypes' /\ QueuedOnce' /\ WireCounted'
    BY <1>1 DEF DnsInv, DnsTypes, ScopeTypes, QueuedOnce, WireCounted, Holding
  <1>3. \A u \in Resolvers : ThreadOK(u)'
    BY <1>1, OtherThreads DEF Queued
  <1> QED
    BY <1>2, <1>3 DEF DnsInv

\* A step that changes one leg too.
LEMMA MovesLeg ==
    ASSUME DnsInv, NEW t \in Resolvers, NEW k \in D!Legs, NEW i \in D!Legs, NEW x \in D!Leg,
           NEW w \in {"idle", "enqueue", "pass", "queue", "begin", "settle", "sleep", "cleanup"},
           D!Goes(t, w, k), legs' = [legs EXCEPT ![t] = [legs[t] EXCEPT ![i] = x]],
           WireMoves(t, i, x),
           QueueMoves(t, i),
           ScopeTypes',
           ThreadOK(t)'
    PROVE  DnsInv'
  <1>1. /\ lookup' \in [Resolvers -> ALookup]
        /\ \A u \in Resolvers : u # t => lookup'[u] = lookup[u]
    BY Moves DEF DnsInv
  <1>2. /\ legs' \in [Resolvers -> [D!Legs -> D!Leg]]
        /\ \A u \in Resolvers, j \in D!Legs : u # t => legs'[u][j] = legs[u][j]
    BY OneLeg DEF DnsInv
  <1>3. QueuedOnce' /\ queue' \in Seq(Resolvers \X D!Legs)
    BY DEF QueueMoves, QueueKept, DnsInv, DnsTypes, QueuedOnce
  <1>4. \A u \in Resolvers, j \in D!Legs : u # t => (Queued(u, j)' <=> Queued(u, j))
    BY DEF QueueMoves, QueueKept, QueueJoined, QueueLeft, Queued
  <1>5. WireCounted'
    BY WireFollows DEF DnsInv, WireMoves
  <1>6. DnsTypes'
    BY <1>1, <1>2, <1>3 DEF DnsTypes, ScopeTypes
  <1>7. \A u \in Resolvers : ThreadOK(u)'
    BY <1>1, <1>2, <1>4, OtherThreads
  <1> QED
    BY <1>3, <1>5, <1>6, <1>7 DEF DnsInv

dnsParts == <<dnsScope, lookup, legs, queue, wire>>

\* The accounts rest on the lookups, the legs, the queue and the wire.
LEMMA DnsStutter ==
    ASSUME DnsInv, UNCHANGED <<lookup, legs, queue, wire>>,
           ScopeTypes'
    PROVE  DnsInv'
  <1>1. DnsTypes'
    BY DEF DnsInv, DnsTypes, ScopeTypes
  <1>2. QueuedOnce' /\ WireCounted'
    BY DEF DnsInv, QueuedOnce, WireCounted, Holding
  <1>3. \A t \in Resolvers : ThreadOK(t)'
    <2> SUFFICES ASSUME NEW t \in Resolvers PROVE ThreadOK(t)'
      OBVIOUS
    <2>1. ThreadOK(t)
      BY DEF DnsInv
    <2> QED
      BY <2>1 DEF ThreadOK, Queued, Gone, D!Waits
  <1> QED
    BY <1>1, <1>2, <1>3 DEF DnsInv

\* Nobody waits at first.
LEMMA DnsInit == D!Init => DnsInv
  <1> SUFFICES ASSUME D!Init PROVE DnsInv
    OBVIOUS
  <1>1. D!NoScope \in [kind : {"none", "token", "temporary"}, cancelled : BOOLEAN]
        /\ [at |-> "idle", leg |-> 1] \in ALookup /\ [at |-> "idle", leg |-> 1].at = "idle"
    BY LegNumbers, WaitsMeans, Zenon DEF D!NoScope
  <1>2. queue \in Seq(Resolvers \X D!Legs) /\ DOMAIN queue = {}
    BY SMT DEF D!Init
  <1>3. DnsTypes
    BY <1>1, <1>2, NoLegIsLeg DEF D!Init, DnsTypes
  <1>4. QueuedOnce
    BY <1>2 DEF QueuedOnce
  <1>5. WireCounted
    <2>1. Holding = {}
      BY NoLegIsLeg DEF D!Init, Holding, Gone
    <2>2. Cardinality({}) = 0
      BY FS_EmptySet
    <2>3. wire = 0 /\ 0 \in 0 .. WireLimit
      BY DnsAssumption, SMT DEF D!Init
    <2> QED
      BY <2>1, <2>2, <2>3 DEF WireCounted
  <1>6. ASSUME NEW t \in Resolvers PROVE ThreadOK(t)
    <2>1. lookup[t].at = "idle" /\ \A j \in D!Legs : legs[t][j] = D!NoLeg
      BY <1>1 DEF D!Init
    <2>2. D!NoLeg.state # "queued"
      BY Zenon DEF D!NoLeg
    <2> QED
      BY <1>2, <2>1, <2>2, NoLegIsLeg DEF ThreadOK, Gone, Queued, D!Waits
  <1> QED
    BY <1>3, <1>4, <1>5, <1>6 DEF DnsInv

\* The lookup after a step that changes none of its legs.
LEMMA Wanders ==
    ASSUME DnsInv, NEW t \in Resolvers, NEW k \in D!Legs,
           NEW w \in {"enqueue", "pass", "queue", "sleep", "cleanup"},
           D!Goes(t, w, k), UNCHANGED <<legs, queue, wire>>,
           ScopeTypes',
           lookup[t].at \notin {"begin", "settle"},
           w = "enqueue" => lookup[t].at = "idle",
           w = "cleanup" => k = 1
    PROVE  DnsInv'
  <1>1. /\ lookup'[t].at = w /\ lookup'[t].leg = k
        /\ \A j \in D!Legs : lookup'[t] # [at |-> "begin", leg |-> j]
    BY Moves DEF DnsInv
  <1>2. /\ lookup[t] \in ALookup /\ ThreadOK(t)
        /\ \A j \in D!Legs : Queued(t, j)' <=> Queued(t, j)
    BY DEF DnsInv, DnsTypes, Queued
  <1>9. lookup[t].at # "begin" /\ ~(lookup[t].at \in {"begin", "settle"})
    OBVIOUS
  <1>3. ASSUME NEW j \in D!Legs PROVE lookup[t] # [at |-> "begin", leg |-> j]
    <2>1. ~AtBegin(lookup[t], j)
      BY <1>9 DEF AtBegin
    <2> QED
      BY <1>2, <2>1, WaitsMeans
  <1>4. \A j \in D!Legs : D!Waits(t, j)' <=> D!Waits(t, j)
    BY <1>1, <1>3 DEF D!Waits
  <1>5. w = "cleanup" => \A j \in D!Legs : ~(j < k)
    BY LegNumbers, SMT
  <1>6. w = "enqueue" => \A j \in D!Legs : Gone(legs[t][j])
    BY <1>2 DEF ThreadOK
  <1>7. \A j \in D!Legs :
           /\ legs[t][j].held => legs[t][j].state = "active"
           /\ D!Waits(t, j)' <=> Queued(t, j)'
    BY <1>2, <1>4, <1>9 DEF ThreadOK
  <1>8. ThreadOK(t)'
    <2>1. w # "idle" /\ w # "begin"
      OBVIOUS
    <2>2. \A j \in D!Legs : legs'[t][j] = legs[t][j]
      OBVIOUS
    <2>3. /\ w = "idle" => \A j \in D!Legs : Gone(legs'[t][j])
          /\ w = "enqueue" => \A j \in D!Legs : j >= k => Gone(legs'[t][j])
          /\ w = "cleanup" => \A j \in D!Legs : j < k => Gone(legs'[t][j])
      BY <1>5, <1>6, <2>1, <2>2
    <2>4. w = "begin" => legs'[t][k].state = "queued" /\ legs'[t][k].held
      BY <2>1
    <2>5. \A j \in D!Legs :
             /\ legs'[t][j].held => \/ legs'[t][j].state = "active"
                                    \/ w \in {"begin", "settle"} /\ k = j
             /\ D!Waits(t, j)' <=> Queued(t, j)'
      BY <1>7, <2>2
    <2> QED
      BY <1>1, <2>3, <2>4, <2>5 DEF ThreadOK, Gone
  <1> QED
    BY <1>8, MovesOnly

\* The lookup after a step that changes one of its legs.
LEMMA Changes ==
    ASSUME DnsInv, NEW t \in Resolvers, NEW k \in D!Legs, NEW i \in D!Legs, NEW x \in D!Leg,
           NEW w \in {"idle", "enqueue", "pass", "queue", "begin", "settle", "sleep", "cleanup"},
           D!Goes(t, w, k), legs' = [legs EXCEPT ![t] = [legs[t] EXCEPT ![i] = x]],
           WireMoves(t, i, x),
           QueueMoves(t, i),
           ScopeTypes',
           Allowed(t, w, k, i, x)
    PROVE  DnsInv'
  <1>1. /\ lookup'[t].at = w /\ lookup'[t].leg = k
        /\ \A j \in D!Legs : lookup'[t] = [at |-> "begin", leg |-> j] <=> w = "begin" /\ k = j
    BY Moves DEF DnsInv
  <1>2. /\ legs'[t][i] = x
        /\ \A j \in D!Legs : j # i => legs'[t][j] = legs[t][j]
    <2>1. legs \in [Resolvers -> [D!Legs -> D!Leg]]
      BY DEF DnsInv, DnsTypes
    <2>2. legs' = [legs EXCEPT ![t] = [legs[t] EXCEPT ![i] = x]]
      OBVIOUS
    <2> QED
      BY <2>1, <2>2, Zenon
  <1>3. lookup[t] \in ALookup /\ ThreadOK(t)
    BY DEF DnsInv, DnsTypes
  <1>4. \A j \in D!Legs : j # i => (Queued(t, j)' <=> Queued(t, j))
    BY DEF QueueMoves, QueueKept, QueueJoined, QueueLeft, Queued
  <1>5. \A j \in D!Legs : j # i => lookup[t] # [at |-> "begin", leg |-> j]
    BY <1>3, WaitsMeans DEF AtBegin, Allowed
  <1>6. \A j \in D!Legs : j # i =>
           /\ Gone(legs'[t][j]) <=> Gone(legs[t][j])
           /\ legs'[t][j].held => legs'[t][j].state = "active"
           /\ D!Waits(t, j)' <=> Queued(t, j)'
    <2> SUFFICES ASSUME NEW j \in D!Legs, j # i
                 PROVE  /\ Gone(legs'[t][j]) <=> Gone(legs[t][j])
                        /\ legs'[t][j].held => legs'[t][j].state = "active"
                        /\ D!Waits(t, j)' <=> Queued(t, j)'
      OBVIOUS
    <2>1. legs'[t][j] = legs[t][j] /\ (Queued(t, j)' <=> Queued(t, j))
      BY <1>2, <1>4
    <2>2. legs[t][j].held => legs[t][j].state = "active"
      BY <1>3 DEF ThreadOK, Allowed
    <2>3. w = "begin" => k # j
      BY DEF Allowed
    <2>4. D!Waits(t, j)' <=> D!Waits(t, j)
      BY <1>1, <1>5, <2>1, <2>3 DEF D!Waits
    <2>5. D!Waits(t, j) <=> Queued(t, j)
      BY <1>3 DEF ThreadOK
    <2> QED
      BY <2>1, <2>2, <2>4, <2>5
  <1>7. D!Waits(t, i)' <=> Queued(t, i)'
    BY <1>1, <1>2 DEF D!Waits, Allowed
  <1>8. ThreadOK(t)'
    <2>1. /\ w = "idle" => \A j \in D!Legs : Gone(legs'[t][j])
          /\ w = "enqueue" => \A j \in D!Legs : j >= k => Gone(legs'[t][j])
          /\ w = "cleanup" => \A j \in D!Legs : j < k => Gone(legs'[t][j])
      BY <1>2, <1>6 DEF Allowed
    <2>2. w = "begin" => legs'[t][k].state = "queued" /\ legs'[t][k].held
      BY <1>2 DEF Allowed
    <2>3. \A j \in D!Legs :
             /\ legs'[t][j].held => \/ legs'[t][j].state = "active"
                                    \/ w \in {"begin", "settle"} /\ k = j
             /\ D!Waits(t, j)' <=> Queued(t, j)'
      BY <1>2, <1>6, <1>7 DEF Allowed
    <2> QED
      BY <1>1, <2>1, <2>2, <2>3 DEF ThreadOK, Gone
  <1> QED
    BY <1>8, MovesLeg

\* What the queue's operations do to it.
LEMMA QueueSteps ==
    ASSUME DnsInv, NEW t \in Resolvers, NEW i \in D!Legs
    PROVE  /\ queue' = Append(queue, <<t, i>>) /\ ~Queued(t, i)
                 => QueueMoves(t, i) /\ Queued(t, i)'
           /\ queue' = D!Without(t, i) => QueueMoves(t, i) /\ ~Queued(t, i)'
           /\ queue # <<>> /\ Head(queue) = <<t, i>> /\ queue' = Tail(queue)
                 => QueueMoves(t, i) /\ ~Queued(t, i)'
           /\ UNCHANGED queue => QueueMoves(t, i) /\ (Queued(t, i)' <=> Queued(t, i))
  <1>1. DnsTypes /\ QueuedOnce
    BY DEF DnsInv
  <1>2. ASSUME queue' = Append(queue, <<t, i>>), ~Queued(t, i)
        PROVE  QueueMoves(t, i) /\ Queued(t, i)'
    BY <1>1, <1>2, Joins DEF QueueMoves, QueueJoined
  <1>3. ASSUME queue' = D!Without(t, i) PROVE QueueMoves(t, i) /\ ~Queued(t, i)'
    BY <1>1, <1>3, LeavesQueue DEF QueueMoves, QueueLeft
  <1>4. ASSUME queue # <<>>, Head(queue) = <<t, i>>, queue' = Tail(queue)
        PROVE  QueueMoves(t, i) /\ ~Queued(t, i)'
    BY <1>1, <1>4, LeavesFirst DEF QueueMoves, QueueLeft
  <1>5. ASSUME UNCHANGED queue PROVE QueueMoves(t, i) /\ (Queued(t, i)' <=> Queued(t, i))
    BY <1>5 DEF QueueMoves, QueueKept, Queued
  <1> QED
    BY <1>2, <1>3, <1>4, <1>5

\* The leg that a lookup looks at.
LEMMA ThisLegFacts ==
    ASSUME DnsInv, NEW t \in Resolvers
    PROVE  /\ lookup[t] \in ALookup /\ lookup[t].leg \in D!Legs /\ ThreadOK(t)
           /\ \A j \in D!Legs :
                 /\ legs[t][j] \in D!Leg /\ legs[t][j].held \in BOOLEAN
                 /\ legs[t][j].state \in {"none", "queued", "active", "success", "failed"}
  BY DEF DnsInv, DnsTypes, ALookup, D!Leg

\* On to the next leg.
LEMMA NextLegGoes ==
    ASSUME DnsInv, NEW t \in Resolvers, NEW p, D!NextLeg(t, p)
    PROVE  \E w \in {"queue", "sleep", "cleanup"}, k \in D!Legs :
              D!Goes(t, w, k) /\ (w = "cleanup" => k = 1)
  <1>1. lookup[t].leg \in D!Legs
    BY ThisLegFacts
  <1>2. CASE lookup[t].leg < Servers
    <2>1. lookup[t].leg + 1 \in D!Legs
      BY <1>1, <1>2, LegNumbers, DnsAssumption, SMT
    <2>3. lookup[t].leg # Servers
      BY <1>1, <1>2, LegNumbers, DnsAssumption, SMT
    <2>2. D!Goes(t, "queue", lookup[t].leg + 1)
      BY <1>2, <2>3 DEF D!NextLeg
    <2> QED
      BY <2>1, <2>2
  <1>3. CASE ~(lookup[t].leg < Servers)
    BY <1>3, LegNumbers DEF D!NextLeg
  <1> QED
    BY <1>2, <1>3

\* What happens to a scope moves no leg.
LEMMA DnsScopes ==
    ASSUME DnsInv, NEW t \in Resolvers, D!Begin(t) \/ D!End(t) \/ D!Cancel(t)
    PROVE  DnsInv'
  <1>1. UNCHANGED <<lookup, legs, queue, wire>>
    BY DEF D!Begin, D!End, D!Cancel
  <1>2. ScopeTypes'
    <2>1. \E r \in [kind : {"none", "token", "temporary"}, cancelled : BOOLEAN] :
             dnsScope' = [dnsScope EXCEPT ![t] = r]
      <3>1. CASE D!Begin(t)
        BY <3>1, Zenon DEF D!Begin
      <3>2. CASE D!End(t)
        BY <3>2, Zenon DEF D!End, D!NoScope
      <3>3. CASE D!Cancel(t)
        <4>1. dnsScope[t] \in [kind : {"none", "token", "temporary"}, cancelled : BOOLEAN]
          BY DEF DnsInv, DnsTypes
        <4>2. [dnsScope[t] EXCEPT !.cancelled = TRUE]
                 \in [kind : {"none", "token", "temporary"}, cancelled : BOOLEAN]
          BY <4>1, Zenon
        <4>3. dnsScope' = [dnsScope EXCEPT ![t] = [dnsScope[t] EXCEPT !.cancelled = TRUE]]
          BY <3>3 DEF D!Cancel
        <4> QED
          BY <4>2, <4>3
      <3> QED
        BY <3>1, <3>2, <3>3
    <2> QED
      BY <2>1 DEF DnsInv, DnsTypes, ScopeTypes
  <1> QED
    BY <1>1, <1>2, DnsStutter

\* Nor does the end of the process.
LEMMA DnsStopAll == ASSUME DnsInv, D!StopAll PROVE DnsInv'
  <1>1. UNCHANGED <<lookup, legs, queue, wire>>
    BY DEF D!StopAll
  <1>2. ScopeTypes'
    <2>1. dnsScope' = [u \in Resolvers |->
              [dnsScope[u] EXCEPT !.cancelled = dnsScope[u].cancelled \/ dnsScope[u].kind # "none"]]
      BY DEF D!StopAll
    <2>2. ASSUME NEW r \in [kind : {"none", "token", "temporary"}, cancelled : BOOLEAN],
                 NEW b \in BOOLEAN
          PROVE  [r EXCEPT !.cancelled = b] \in [kind : {"none", "token", "temporary"},
                                                 cancelled : BOOLEAN]
      BY Zenon
    <2>3. \A u \in Resolvers : (dnsScope[u].cancelled \/ dnsScope[u].kind # "none") \in BOOLEAN
      BY Zenon
    <2>4. \A u \in Resolvers : dnsScope[u] \in [kind : {"none", "token", "temporary"},
                                                cancelled : BOOLEAN]
      BY DEF DnsInv, DnsTypes
    <2> QED
      BY <2>1, <2>2, <2>3, <2>4 DEF ScopeTypes
  <1> QED
    BY <1>1, <1>2, DnsStutter

\* Nor does a lookup that only goes on.
LEMMA DnsWanders ==
    ASSUME DnsInv, NEW t \in Resolvers,
           D!StartLookup(t) \/ D!NotConfigured(t) \/ D!Pass(t) \/ D!Skip(t)
    PROVE  DnsInv'
  <1>1. CASE D!StartLookup(t)
    <2>1. /\ lookup[t].at = "idle" /\ D!Goes(t, "enqueue", 1) /\ UNCHANGED <<legs, queue, wire>>
      BY <1>1 DEF D!StartLookup, D!At
    <2>2. ScopeTypes'
      BY <1>1 DEF D!StartLookup, DnsInv, DnsTypes, ScopeTypes
    <2> QED
      BY <2>1, <2>2, LegNumbers, Wanders
  <1>2. CASE D!NotConfigured(t)
    <2>1. /\ lookup[t].at = "enqueue" /\ D!Goes(t, "cleanup", 1)
          /\ UNCHANGED <<legs, queue, wire>>
      BY <1>2 DEF D!NotConfigured, D!At
    <2>2. ScopeTypes'
      BY <1>2 DEF D!NotConfigured, DnsInv, DnsTypes, ScopeTypes
    <2> QED
      BY <2>1, <2>2, LegNumbers, Wanders
  <1>3. CASE D!Pass(t)
    <2>1. /\ lookup[t].at = "pass" /\ \E w \in {"cleanup", "queue"} : D!Goes(t, w, 1)
          /\ UNCHANGED <<legs, queue, wire>>
      BY <1>3 DEF D!Pass, D!At
    <2>2. ScopeTypes'
      BY <1>3 DEF D!Pass, DnsInv, DnsTypes, ScopeTypes
    <2> QED
      BY <2>1, <2>2, LegNumbers, Wanders
  <1>4. CASE D!Skip(t)
    <2>1. /\ lookup[t].at = "queue" /\ UNCHANGED <<legs, queue, wire, dnsScope>>
      BY <1>4 DEF D!Skip, D!At
    <2>2. \E p \in BOOLEAN : D!NextLeg(t, p)
      BY <1>4 DEF D!Skip, D!Pending
    <2>3. PICK w \in {"queue", "sleep", "cleanup"}, k \in D!Legs :
             D!Goes(t, w, k) /\ (w = "cleanup" => k = 1)
      BY <2>2, NextLegGoes
    <2>4. ScopeTypes'
      BY <2>1 DEF DnsInv, DnsTypes, ScopeTypes
    <2> QED
      BY <2>1, <2>3, <2>4, Wanders
  <1> QED
    BY <1>1, <1>2, <1>3, <1>4

\* A new leg waits at the end of the queue.
LEMMA DnsEnqueue == ASSUME DnsInv, NEW t \in Resolvers, D!Enqueue(t) PROVE DnsInv'
  <1>1. PICK i \in D!Legs : i = lookup[t].leg
    BY ThisLegFacts
  <1>2. PICK x \in D!Leg : x = [D!NoLeg EXCEPT !.state = "queued"]
    BY NoLegIsLeg, Zenon DEF D!Leg
  <1>3. x.state = "queued" /\ ~x.held
    BY <1>2, Zenon DEF D!NoLeg
  <1>4. /\ lookup[t].at = "enqueue" /\ queue' = Append(queue, <<t, i>>)
        /\ legs' = [legs EXCEPT ![t] = [legs[t] EXCEPT ![i] = x]]
        /\ UNCHANGED <<dnsScope, wire>>
        /\ IF i < Servers THEN D!Goes(t, "enqueue", i + 1) ELSE D!Goes(t, "pass", 1)
    BY <1>1, <1>2 DEF D!Enqueue, D!At
  <1>5. \A j \in D!Legs : j >= i => Gone(legs[t][j])
    BY <1>1, <1>4, ThisLegFacts DEF ThreadOK
  <1>6. i >= i /\ Gone(legs[t][i])
    BY <1>5, LegNumbers, SMT
  <1>7. ~Queued(t, i)
    BY <1>6, ThisLegFacts DEF ThreadOK, D!Waits, Gone
  <1>8. QueueMoves(t, i) /\ Queued(t, i)'
    BY <1>4, <1>7, QueueSteps
  <1>9. WireMoves(t, i, x)
    BY <1>3, <1>4, <1>6 DEF WireMoves, Gone
  <1>10. ScopeTypes'
    BY <1>4 DEF DnsInv, DnsTypes, ScopeTypes
  <1>11. CASE i < Servers
    <2>1. i + 1 \in D!Legs /\ ~(i >= i + 1) /\ \A j \in D!Legs : j >= i + 1 => j >= i
      BY <1>11, LegNumbers, DnsAssumption, SMT
    <2>2. Allowed(t, "enqueue", i + 1, i, x)
      BY <1>3, <1>4, <1>5, <1>8, <2>1 DEF Allowed
    <2> QED
      BY <1>4, <1>8, <1>9, <1>10, <1>11, <2>1, <2>2, Changes
  <1>12. CASE ~(i < Servers)
    <2>1. Allowed(t, "pass", 1, i, x)
      BY <1>3, <1>4, <1>8 DEF Allowed
    <2> QED
      BY <1>4, <1>8, <1>9, <1>10, <1>12, <2>1, LegNumbers, Changes
  <1> QED
    BY <1>11, <1>12

\* A leg that waits in front of the wire holds no place yet.
LEMMA WaitingLeg ==
    ASSUME DnsInv, NEW t \in Resolvers, lookup[t].at = "queue",
           legs[t][lookup[t].leg].state = "queued"
    PROVE  ~legs[t][lookup[t].leg].held /\ Queued(t, lookup[t].leg)
  <1>1. /\ lookup[t] \in ALookup /\ lookup[t].leg \in D!Legs /\ ThreadOK(t)
    BY ThisLegFacts
  <1>2. lookup[t] # [at |-> "begin", leg |-> lookup[t].leg]
    BY <1>1, WaitsMeans DEF AtBegin
  <1> QED
    BY <1>1, <1>2 DEF ThreadOK, D!Waits

\* A leg that is given up leaves the queue.
LEMMA DnsExpire == ASSUME DnsInv, NEW t \in Resolvers, D!Expire(t) PROVE DnsInv'
  <1>1. PICK i \in D!Legs : i = lookup[t].leg
    BY ThisLegFacts
  <1>2. legs[t][i] \in D!Leg
    BY ThisLegFacts
  <1>3. PICK x \in D!Leg : x = [legs[t][i] EXCEPT !.state = "failed"]
    BY <1>2, Zenon DEF D!Leg
  <1>4. x.state = "failed" /\ x.held = legs[t][i].held
    BY <1>2, <1>3, Zenon DEF D!Leg
  <1>5. /\ lookup[t].at = "queue" /\ legs[t][i].state = "queued"
        /\ queue' = D!Without(t, i)
        /\ legs' = [legs EXCEPT ![t] = [legs[t] EXCEPT ![i] = x]]
        /\ UNCHANGED <<dnsScope, wire>>
    BY <1>1, <1>3 DEF D!Expire, D!At, D!ThisLeg
  <1>6. \E p \in BOOLEAN : D!NextLeg(t, p)
    BY DEF D!Expire
  <1>7. PICK w \in {"queue", "sleep", "cleanup"}, k \in D!Legs :
           D!Goes(t, w, k) /\ (w = "cleanup" => k = 1)
    BY <1>6, NextLegGoes
  <1>8. ~legs[t][i].held
    BY <1>1, <1>5, WaitingLeg
  <1>9. QueueMoves(t, i) /\ ~Queued(t, i)'
    BY <1>5, QueueSteps
  <1>10. WireMoves(t, i, x)
    BY <1>4, <1>5, <1>8 DEF WireMoves
  <1>11. ScopeTypes'
    BY <1>5 DEF DnsInv, DnsTypes, ScopeTypes
  <1>12. w = "cleanup" => \A j \in D!Legs : ~(j < k)
    BY <1>7, LegNumbers, SMT
  <1>13. Allowed(t, w, k, i, x)
    BY <1>4, <1>5, <1>8, <1>9, <1>12 DEF Allowed
  <1> QED
    BY <1>5, <1>7, <1>9, <1>10, <1>11, <1>13, Changes

\* The head of the queue takes a place on the wire.
LEMMA DnsAdmit == ASSUME DnsInv, NEW t \in Resolvers, D!Admit(t) PROVE DnsInv'
  <1>1. PICK i \in D!Legs : i = lookup[t].leg
    BY ThisLegFacts
  <1>2. legs[t][i] \in D!Leg
    BY ThisLegFacts
  <1>3. PICK x \in D!Leg : x = [legs[t][i] EXCEPT !.held = TRUE, !.started = TRUE]
    BY <1>2, Zenon DEF D!Leg
  <1>4. x.state = legs[t][i].state /\ x.held
    BY <1>2, <1>3, Zenon DEF D!Leg
  <1>5. /\ lookup[t].at = "queue" /\ legs[t][i].state = "queued"
        /\ queue # <<>> /\ Head(queue) = <<t, i>> /\ queue' = Tail(queue)
        /\ wire < WireLimit /\ wire' = wire + 1
        /\ D!Goes(t, "begin", i) /\ UNCHANGED dnsScope
        /\ legs' = [legs EXCEPT ![t][i].held = TRUE, ![t][i].started = TRUE]
    BY <1>1 DEF D!Admit, D!At, D!ThisLeg, D!Ready, D!Admissible
  <1>6. legs' = [legs EXCEPT ![t] = [legs[t] EXCEPT ![i] = x]]
    <2>1. legs \in [Resolvers -> [D!Legs -> D!Leg]]
      BY DEF DnsInv, DnsTypes
    <2> QED
      BY <1>3, <1>5, <2>1
  <1>7. ~legs[t][i].held
    BY <1>1, <1>5, WaitingLeg
  <1>8. QueueMoves(t, i) /\ ~Queued(t, i)'
    BY <1>5, QueueSteps
  <1>9. WireMoves(t, i, x)
    BY <1>4, <1>5, <1>7 DEF WireMoves
  <1>10. ScopeTypes'
    BY <1>5 DEF DnsInv, DnsTypes, ScopeTypes
  <1>11. Allowed(t, "begin", i, i, x)
    BY <1>4, <1>5, <1>8 DEF Allowed
  <1> QED
    BY <1>5, <1>6, <1>8, <1>9, <1>10, <1>11, Changes

\* A query that is short of a resource queues again.
LEMMA DnsBeginQuery == ASSUME DnsInv, NEW t \in Resolvers, D!BeginQuery(t) PROVE DnsInv'
  <1>1. PICK i \in D!Legs : i = lookup[t].leg
    BY ThisLegFacts
  <1>2. /\ lookup[t].at = "begin" /\ D!Goes(t, "settle", i) /\ UNCHANGED <<dnsScope, wire>>
        /\ \/ \E s \in {"active", "failed"} :
                 legs' = [legs EXCEPT ![t][i].state = s] /\ UNCHANGED queue
           \/ /\ legs' = [legs EXCEPT ![t][i].wait = Retry]
              /\ queue' = Append(queue, <<t, i>>)
    BY <1>1, SMTT(60) DEF D!BeginQuery, D!At
  <1>3. legs[t][i] \in D!Leg /\ legs[t][i].state = "queued" /\ legs[t][i].held /\ ~Queued(t, i)
    <2>1. lookup[t] = [at |-> "begin", leg |-> i]
      BY <1>1, <1>2, ThisLegFacts, WaitsMeans DEF AtBegin
    <2> QED
      BY <1>1, <1>2, <2>1, ThisLegFacts DEF ThreadOK, D!Waits
  <1>4. ScopeTypes'
    BY <1>2 DEF DnsInv, DnsTypes, ScopeTypes
  <1>5. ASSUME NEW s \in {"active", "failed"}, UNCHANGED queue,
               legs' = [legs EXCEPT ![t][i].state = s]
        PROVE  DnsInv'
    <2>1. PICK x \in D!Leg : x = [legs[t][i] EXCEPT !.state = s]
      BY <1>3, Zenon DEF D!Leg
    <2>2. x.state = s /\ x.held
      BY <1>3, <2>1, Zenon DEF D!Leg
    <2>3. legs' = [legs EXCEPT ![t] = [legs[t] EXCEPT ![i] = x]]
      BY <1>5, <2>1
    <2>4. QueueMoves(t, i) /\ ~Queued(t, i)'
      BY <1>3, <1>5, QueueSteps
    <2>5. WireMoves(t, i, x)
      BY <1>2, <1>3, <2>2 DEF WireMoves
    <2>6. Allowed(t, "settle", i, i, x)
      BY <1>1, <1>2, <2>2, <2>4 DEF Allowed
    <2> QED
      BY <1>2, <1>4, <2>3, <2>4, <2>5, <2>6, Changes
  <1>6. ASSUME legs' = [legs EXCEPT ![t][i].wait = Retry], queue' = Append(queue, <<t, i>>)
        PROVE  DnsInv'
    <2>1. Retry \in 0 .. Retry
      BY DnsAssumption, SMT
    <2>2. PICK x \in D!Leg : x = [legs[t][i] EXCEPT !.wait = Retry]
      BY <1>3, <2>1, Zenon DEF D!Leg
    <2>3. x.state = "queued" /\ x.held
      BY <1>3, <2>2, Zenon DEF D!Leg
    <2>4. legs' = [legs EXCEPT ![t] = [legs[t] EXCEPT ![i] = x]]
      BY <1>6, <2>2
    <2>5. QueueMoves(t, i) /\ Queued(t, i)'
      BY <1>3, <1>6, QueueSteps
    <2>6. WireMoves(t, i, x)
      BY <1>2, <1>3, <2>3 DEF WireMoves
    <2>7. Allowed(t, "settle", i, i, x)
      BY <1>1, <1>2, <2>3, <2>5 DEF Allowed
    <2> QED
      BY <1>2, <1>4, <2>4, <2>5, <2>6, <2>7, Changes
  <1> QED
    BY <1>2, <1>5, <1>6

\* A leg that is no longer active gives its place back.
LEMMA DnsSettle == ASSUME DnsInv, NEW t \in Resolvers, D!Settle(t) PROVE DnsInv'
  <1>1. PICK i \in D!Legs : i = lookup[t].leg
    BY ThisLegFacts
  <1>2. /\ legs[t][i] \in D!Leg /\ legs[t][i].held \in BOOLEAN
        /\ legs[t][i].state \in {"none", "queued", "active", "success", "failed"}
    BY ThisLegFacts
  <1>3. PICK s \in D!Polled(legs[t][i]) :
           /\ legs' = [legs EXCEPT ![t][i].state = s,
                                   ![t][i].held = @ /\ ~(legs[t][i].held /\ s # "active")]
           /\ wire' = IF legs[t][i].held /\ s # "active" THEN wire - 1 ELSE wire
           /\ \E p \in BOOLEAN : D!NextLeg(t, p)
    BY <1>1, ZenonT(60) DEF D!Settle, D!ThisLeg
  <1>4. /\ lookup[t].at = "settle" \/ (lookup[t].at = "queue" /\ legs[t][i].state = "active")
        /\ UNCHANGED <<dnsScope, queue>>
    BY <1>1 DEF D!Settle, D!At, D!ThisLeg
  <1>5. /\ s \in {"none", "queued", "active", "success", "failed"}
        /\ s = "queued" <=> legs[t][i].state = "queued"
    BY <1>2 DEF D!Polled
  <1>6. PICK b \in BOOLEAN : b <=> legs[t][i].held /\ s = "active"
    OBVIOUS
  <1>7. PICK x \in D!Leg : x = [legs[t][i] EXCEPT !.state = s, !.held = b]
    BY <1>2, <1>5, Zenon DEF D!Leg
  <1>8. x.state = s /\ x.held = b
    BY <1>2, <1>7, Zenon DEF D!Leg
  <1>9. legs' = [legs EXCEPT ![t] = [legs[t] EXCEPT ![i] = x]]
    <2>1. legs \in [Resolvers -> [D!Legs -> D!Leg]]
      BY DEF DnsInv, DnsTypes
    <2>2. (legs[t][i].held /\ ~(legs[t][i].held /\ s # "active")) = b
      BY <1>2, <1>6
    <2>3. [legs[t][i] EXCEPT !.state = s].held = legs[t][i].held
      BY <1>2, Zenon DEF D!Leg
    <2>4. legs' = [legs EXCEPT ![t][i].state = s, ![t][i].held = b]
      BY <1>3, <2>1, <2>2, <2>3
    <2> QED
      BY <1>7, <2>1, <2>4
  <1>10. PICK w \in {"queue", "sleep", "cleanup"}, k \in D!Legs :
            D!Goes(t, w, k) /\ (w = "cleanup" => k = 1)
    BY <1>3, NextLegGoes
  <1>11. lookup[t].at # "begin"
    BY <1>4
  <1>12. Queued(t, i) <=> legs[t][i].state = "queued"
    <2>1. lookup[t] # [at |-> "begin", leg |-> i]
      BY <1>11, ThisLegFacts, WaitsMeans DEF AtBegin
    <2> QED
      BY <2>1, ThisLegFacts DEF ThreadOK, D!Waits
  <1>13. QueueMoves(t, i) /\ (Queued(t, i)' <=> Queued(t, i))
    BY <1>4, QueueSteps
  <1>14. WireMoves(t, i, x)
    BY <1>3, <1>6, <1>8 DEF WireMoves
  <1>15. ScopeTypes'
    BY <1>4 DEF DnsInv, DnsTypes, ScopeTypes
  <1>16. w = "cleanup" => \A j \in D!Legs : ~(j < k)
    BY <1>10, LegNumbers, SMT
  <1>17. Allowed(t, w, k, i, x)
    BY <1>1, <1>5, <1>6, <1>8, <1>10, <1>12, <1>13, <1>16 DEF Allowed
  <1> QED
    BY <1>9, <1>10, <1>13, <1>14, <1>15, <1>17, Changes

\* A leg of a lookup that ends leaves the queue and the wire.
LEMMA DnsCleanup == ASSUME DnsInv, NEW t \in Resolvers, D!Cleanup(t) PROVE DnsInv'
  <1>1. PICK i \in D!Legs : i = lookup[t].leg
    BY ThisLegFacts
  <1>2. PICK x \in D!Leg : x = D!NoLeg
    BY NoLegIsLeg
  <1>3. /\ lookup[t].at = "cleanup" /\ queue' = D!Without(t, i)
        /\ wire' = IF legs[t][i].held THEN wire - 1 ELSE wire
        /\ legs' = [legs EXCEPT ![t] = [legs[t] EXCEPT ![i] = x]]
    BY <1>1, <1>2 DEF D!Cleanup, D!At
  <1>4. IF i < Servers THEN D!Goes(t, "cleanup", i + 1) /\ UNCHANGED dnsScope
        ELSE /\ D!Goes(t, "idle", 1)
             /\ dnsScope' = IF dnsScope[t].kind = "temporary"
                            THEN [dnsScope EXCEPT ![t] = D!NoScope] ELSE dnsScope
    BY <1>1 DEF D!Cleanup
  <1>5. Gone(x) /\ x.state # "queued" /\ ~x.held
    BY <1>2, NoLegIsLeg DEF Gone
  <1>6. \A j \in D!Legs : j < i => Gone(legs[t][j])
    BY <1>1, <1>3, ThisLegFacts DEF ThreadOK
  <1>7. QueueMoves(t, i) /\ ~Queued(t, i)'
    BY <1>3, QueueSteps
  <1>8. WireMoves(t, i, x)
    BY <1>3, <1>5, ThisLegFacts DEF WireMoves
  <1>9. CASE i < Servers
    <2>1. i + 1 \in D!Legs /\ \A j \in D!Legs : j # i /\ j < i + 1 => j < i
      BY <1>9, LegNumbers, DnsAssumption, SMT
    <2>2. ScopeTypes'
      BY <1>4, <1>9 DEF DnsInv, DnsTypes, ScopeTypes
    <2>3. Allowed(t, "cleanup", i + 1, i, x)
      BY <1>3, <1>5, <1>6, <1>7, <2>1 DEF Allowed
    <2> QED
      BY <1>3, <1>4, <1>7, <1>8, <1>9, <2>1, <2>2, <2>3, Changes
  <1>10. CASE ~(i < Servers)
    <2>1. \A j \in D!Legs : j # i => j < i
      BY <1>10, LegNumbers, DnsAssumption, SMT
    <2>2. ScopeTypes'
      <3>1. D!NoScope \in [kind : {"none", "token", "temporary"}, cancelled : BOOLEAN]
        BY Zenon DEF D!NoScope
      <3>2. dnsScope \in [Resolvers -> [kind : {"none", "token", "temporary"},
                                        cancelled : BOOLEAN]]
        BY DEF DnsInv, DnsTypes
      <3> QED
        BY <1>4, <1>10, <3>1, <3>2 DEF ScopeTypes
    <2>3. Allowed(t, "idle", 1, i, x)
      BY <1>3, <1>5, <1>6, <1>7, <2>1 DEF Allowed
    <2> QED
      BY <1>3, <1>4, <1>7, <1>8, <1>10, <2>2, <2>3, LegNumbers, Changes
  <1> QED
    BY <1>9, <1>10

\* Time moves no leg.
LEMMA DnsTick == ASSUME DnsInv, D!Tick PROVE DnsInv'
  <1>1. /\ \A u \in Resolvers : lookup[u].at \in {"idle", "sleep"}
        /\ lookup' = [u \in Resolvers |-> IF lookup[u].at = "sleep"
                                           THEN [at |-> "pass", leg |-> 1] ELSE lookup[u]]
        /\ legs' = [u \in Resolvers |-> [j \in D!Legs |->
              [legs[u][j] EXCEPT
                 !.age = IF legs[u][j].started /\ legs[u][j].age < QueryBudget
                         THEN legs[u][j].age + 1 ELSE legs[u][j].age,
                 !.wait = IF legs[u][j].wait > 0 THEN legs[u][j].wait - 1 ELSE 0]]]
        /\ UNCHANGED <<dnsScope, queue, wire>>
    BY DEF D!Tick, D!At
  <1>2. ASSUME NEW u \in Resolvers, NEW j \in D!Legs
        PROVE  /\ legs'[u][j] \in D!Leg /\ legs'[u][j].state = legs[u][j].state
               /\ legs'[u][j].held = legs[u][j].held
    <2>1. legs[u][j] \in D!Leg
      BY ThisLegFacts
    <2>2. /\ legs[u][j].age \in 0 .. QueryBudget /\ legs[u][j].wait \in 0 .. Retry
      BY <2>1 DEF D!Leg
    <2>3. PICK a \in 0 .. QueryBudget :
             a = IF legs[u][j].started /\ legs[u][j].age < QueryBudget
                 THEN legs[u][j].age + 1 ELSE legs[u][j].age
      <3>1. legs[u][j].age < QueryBudget => legs[u][j].age + 1 \in 0 .. QueryBudget
        BY <2>2, DnsAssumption, SMT
      <3> QED
        BY <2>2, <3>1
    <2>4. PICK w \in 0 .. Retry : w = IF legs[u][j].wait > 0 THEN legs[u][j].wait - 1 ELSE 0
      <3>1. /\ legs[u][j].wait > 0 => legs[u][j].wait - 1 \in 0 .. Retry
            /\ 0 \in 0 .. Retry
        BY <2>2, DnsAssumption, SMT
      <3> QED
        BY <3>1
    <2>5. legs'[u][j] = [legs[u][j] EXCEPT !.age = a, !.wait = w]
      BY <1>1, <2>3, <2>4
    <2> QED
      BY <2>1, <2>5, Zenon DEF D!Leg
  <1>3. legs' \in [Resolvers -> [D!Legs -> D!Leg]]
    <2>1. legs' = [u \in Resolvers |-> [j \in D!Legs |-> legs'[u][j]]]
      BY <1>1
    <2> QED
      BY <1>2, <2>1
  <1>4. ASSUME NEW u \in Resolvers
        PROVE  /\ lookup'[u] \in ALookup /\ lookup[u] \in ALookup
               /\ lookup'[u].at \in {"idle", "pass"}
               /\ lookup'[u].at = "idle" => lookup[u].at = "idle"
    <2>1. lookup[u] \in ALookup
      BY ThisLegFacts
    <2> QED
      BY <1>1, <2>1, LegNumbers, WaitsMeans, ZenonT(60)
  <1>5. lookup' \in [Resolvers -> ALookup]
    BY <1>1, <1>4
  <1>6. DnsTypes' /\ QueuedOnce'
    BY <1>1, <1>3, <1>5, ZenonT(60) DEF DnsInv, DnsTypes, QueuedOnce
  <1>7. WireCounted'
    BY <1>1, <1>2, WireStays DEF DnsInv
  <1>8. ASSUME NEW u \in Resolvers PROVE ThreadOK(u)'
    <2>1. ThreadOK(u) /\ lookup[u].at \in {"idle", "sleep"}
      BY <1>1, ThisLegFacts
    <2>2. \A j \in D!Legs : /\ lookup'[u] # [at |-> "begin", leg |-> j]
                            /\ lookup[u] # [at |-> "begin", leg |-> j]
      <3>1. lookup'[u].at # "begin" /\ lookup[u].at # "begin"
        BY <1>4, <2>1
      <3>2. \A j \in D!Legs : ~AtBegin(lookup'[u], j) /\ ~AtBegin(lookup[u], j)
        BY <3>1 DEF AtBegin
      <3> QED
        BY <1>4, <3>2, WaitsMeans, ZenonT(60)
    <2>3. \A j \in D!Legs : Queued(u, j)' <=> Queued(u, j)
      BY <1>1 DEF Queued
    <2>4. \A j \in D!Legs : D!Waits(u, j)' <=> Queued(u, j)'
      <3>1. \A j \in D!Legs : D!Waits(u, j)' <=> D!Waits(u, j)
        BY <1>2, <2>2 DEF D!Waits
      <3>2. \A j \in D!Legs : D!Waits(u, j) <=> Queued(u, j)
        BY <2>1 DEF ThreadOK
      <3> QED
        BY <2>3, <3>1, <3>2
    <2>5. \A j \in D!Legs : legs'[u][j].held => legs'[u][j].state = "active"
      BY <1>2, <2>1 DEF ThreadOK
    <2>6. lookup'[u].at = "idle" => \A j \in D!Legs : Gone(legs'[u][j])
      BY <1>2, <1>4, <2>1 DEF ThreadOK, Gone
    <2>7. lookup'[u].at # "enqueue" /\ lookup'[u].at # "cleanup" /\ lookup'[u].at # "begin"
      BY <1>4
    <2> QED
      BY <2>4, <2>5, <2>6, <2>7 DEF ThreadOK, Gone
  <1> QED
    BY <1>6, <1>7, <1>8 DEF DnsInv

\* Every step of the resolver keeps the accounts.
LEMMA DnsNext == ASSUME DnsInv, D!Next PROVE DnsInv'
  <1>1. ASSUME NEW t \in Resolvers, D!LookupStep(t) PROVE DnsInv'
    BY <1>1, DnsEnqueue, DnsWanders, DnsExpire, DnsAdmit, DnsBeginQuery, DnsSettle, DnsCleanup
       DEF D!LookupStep
  <1>2. ASSUME NEW t \in Resolvers,
               D!Begin(t) \/ D!End(t) \/ D!Cancel(t) \/ D!StartLookup(t)
        PROVE  DnsInv'
    BY <1>2, DnsScopes, DnsWanders
  <1> QED
    BY <1>1, <1>2, DnsStopAll, DnsTick DEF D!Next

\* What is in the queue once is there exactly once.
LEMMA OnceIsCounted == ASSUME DnsInv PROVE D!QueueAccounted
  <1>1. wire = Cardinality({q \in Resolvers \X D!Legs : legs[q[1]][q[2]].held})
    BY DEF DnsInv, WireCounted, Holding
  <1>2. ASSUME NEW t \in Resolvers, NEW i \in D!Legs
        PROVE  Cardinality({n \in DOMAIN queue : queue[n] = <<t, i>>}) =
                  IF D!Waits(t, i) THEN 1 ELSE 0
    <2> DEFINE places == {n \in DOMAIN queue : queue[n] = <<t, i>>}
    <2>1. D!Waits(t, i) <=> places # {}
      BY ZenonT(60) DEF DnsInv, ThreadOK, Queued
    <2>2. \A m, n \in places : m = n
      BY DEF DnsInv, QueuedOnce
    <2> HIDE DEF places
    <2>3. CASE places = {}
      BY <2>1, <2>3, FS_EmptySet DEF places
    <2>4. CASE places # {}
      <3>1. PICK n \in places : TRUE
        BY <2>4
      <3>2. places = {n}
        BY <2>2, <3>1
      <3> QED
        BY <2>1, <2>4, <3>2, FS_Singleton DEF places
    <2> QED
      BY <2>3, <2>4
  <1>3. \A T : D!Cardinality(T) = Cardinality(T)
    BY DEF D!Cardinality, Cardinality
  <1> QED
    BY <1>1, <1>2, <1>3 DEF D!QueueAccounted

-----------------------------------------------------------------------------
\* The types of the link.

Places == {"idle", "connect", "check", "swap", "bridge", "drain", "receive", "flush",
           "ready", "rx", "destroyed"}

WorkerTypes ==
    /\ sns \in {"CONNECTING", "CONNECTED"} \union S!Terminal
    /\ sdkHandle \in BOOLEAN /\ attempted \in BOOLEAN /\ rejects \in BOOLEAN
    /\ pump \in Places /\ closing \in {"no", "unlink", "store", "reject", "clear"}

NetTypes ==
    /\ net \in {"IDLE", "TLS", "UPGRADE", "WEBSOCKET"}
    /\ suspended \in BOOLEAN /\ opening \in BOOLEAN

OwnerTypes ==
    /\ prep \in {"configuration", "signaling", "ready", "media"}
    /\ linked \in BOOLEAN /\ broken \in BOOLEAN
    /\ rx \in 0 .. 1 /\ waiter \in {"out", "testing", "waiting"}

LinkFlags == WorkerTypes /\ NetTypes /\ OwnerTypes

\* Nothing is connected at first.
LEMMA LinkFlagsInit == S!Init => LinkFlags
  <1>1. 0 \in 0 .. 1
    BY SMT
  <1>2. S!Init => WorkerTypes /\ NetTypes
    BY Zenon DEF S!Init, WorkerTypes, NetTypes, Places
  <1>3. S!Init => OwnerTypes
    BY <1>1, Zenon DEF S!Init, OwnerTypes
  <1> QED
    BY <1>2, <1>3 DEF LinkFlags

\* However a step of the worker ends, it ends at a place of the worker.
LEMMA WorkerEnds ==
    ASSUME WorkerTypes, NEW next \in Places,
           \/ S!Goes(next) \/ S!Fails(next) \/ S!CheckConnection(next)
           \/ \E reject \in BOOLEAN : S!Closes(reject, next)
    PROVE  WorkerTypes'
  BY DEF WorkerTypes, S!Goes, S!Fails, S!Closes, S!CheckConnection, S!Stores, S!Terminal

\* The worker between its places.
LEMMA WorkerNext == ASSUME WorkerTypes, S!Next PROVE WorkerTypes'
  <1>1. CASE UNCHANGED <<sns, sdkHandle, attempted, pump, closing, rejects>>
    BY <1>1 DEF WorkerTypes
  <1>2. CASE \E next \in Places :
                \/ S!Goes(next) \/ S!Fails(next) \/ S!CheckConnection(next)
                \/ \E reject \in BOOLEAN : S!Closes(reject, next)
    BY <1>2, WorkerEnds
  <1>3. CASE S!Unlink \/ S!StoreClosed \/ S!StoreFailed \/ S!ClearDatagrams
    BY <1>3 DEF S!Unlink, S!StoreClosed, S!StoreFailed, S!ClearDatagrams, WorkerTypes, S!Terminal
  <1>4. CASE S!BeginConnection
    <2>1. "check" \in Places
      BY DEF Places
    <2>2. CASE S!Goes("check")
      BY <1>2, <2>1, <2>2
    <2>3. CASE ~S!Goes("check")
      BY <1>4, <2>1, <2>3 DEF S!BeginConnection, WorkerTypes, S!Terminal
    <2> QED
      BY <2>2, <2>3
  <1>5. CASE S!SendSignal \/ S!TestDatagram \/ S!Sleep \/ S!WaitExpires \/ S!TakeDatagram
    BY <1>1, <1>5 DEF S!SendSignal, S!TestDatagram, S!Sleep, S!WaitExpires, S!TakeDatagram, S!Player
  <1>6. CASE S!Prepare \/ S!Check \/ S!SwapSignals \/ S!BridgeUpdate \/ S!Connect \/ S!Drain
    BY <1>2, <1>6 DEF S!Prepare, S!Check, S!SwapSignals, S!BridgeUpdate, S!Connect, S!Drain, Places
  <1>7. CASE S!ReceiveNothing \/ S!ReceiveUpgrade \/ S!ReceiveSession \/ S!ReceivePing
             \/ S!ReceiveSignal
    BY <1>2, <1>7 DEF S!ReceiveNothing, S!ReceiveUpgrade, S!ReceiveSession, S!ReceivePing,
       S!ReceiveSignal, S!Reception, Places
  <1>8. CASE S!Flush \/ S!BecomeReady \/ S!ReceiveMessages \/ S!StartSession \/ S!Destroy
    BY <1>2, <1>8 DEF S!Flush, S!BecomeReady, S!ReceiveMessages, S!StartSession, S!Destroy, Places
  <1> QED
    BY <1>3, <1>4, <1>5, <1>6, <1>7, <1>8 DEF S!Next

\* The cloud connection between its states.
LEMMA NetNext == ASSUME NetTypes, S!Next PROVE NetTypes'
  <1>1. CASE UNCHANGED <<net, suspended, opening>>
    BY <1>1 DEF NetTypes
  <1>2. CASE UNCHANGED suspended /\ \E next \in {"IDLE", "TLS"} : S!Disconnected(next)
    BY <1>2 DEF NetTypes, S!Disconnected
  <1>3. CASE S!SendSignal \/ S!TestDatagram \/ S!Sleep \/ S!WaitExpires \/ S!TakeDatagram
             \/ S!Unlink \/ S!StoreClosed \/ S!StoreFailed \/ S!ClearDatagrams \/ S!Prepare
             \/ S!BeginConnection
             \/ S!Check \/ S!SwapSignals \/ S!ReceiveSignal \/ S!Flush \/ S!BecomeReady
             \/ S!ReceiveMessages \/ S!StartSession \/ S!Destroy
    BY <1>1, <1>3 DEF S!SendSignal, S!TestDatagram, S!Sleep, S!WaitExpires, S!TakeDatagram,
       S!Player, S!Unlink, S!StoreClosed, S!StoreFailed, S!ClearDatagrams, S!Prepare,
       S!BeginConnection, S!Check,
       S!SwapSignals, S!ReceiveSignal, S!Flush, S!BecomeReady, S!ReceiveMessages, S!StartSession,
       S!Destroy, S!cloudVars
  <1>4. CASE S!BridgeUpdate
    BY <1>4 DEF S!BridgeUpdate, S!cloudVars, S!Disconnected, NetTypes
  <1>5. CASE S!Connect \/ S!Drain
    BY <1>1, <1>2, <1>5 DEF S!Connect, S!Drain, S!Lost, S!FailConnection, S!cloudVars, NetTypes
  <1>6. CASE S!ReceiveNothing \/ S!ReceiveUpgrade \/ S!ReceiveSession \/ S!ReceivePing
    BY <1>1, <1>2, <1>6 DEF S!ReceiveNothing, S!ReceiveUpgrade, S!ReceiveSession, S!ReceivePing,
       S!Lost, S!FailConnection, S!cloudVars, NetTypes
  <1> QED
    BY <1>3, <1>4, <1>5, <1>6 DEF S!Next

\* The owner's stages, its player and the datagram that waits.
LEMMA OwnerNext == ASSUME OwnerTypes, S!Next PROVE OwnerTypes'
  <1>1. CASE UNCHANGED <<prep, linked, broken, rx, waiter>>
    BY <1>1 DEF OwnerTypes
  <1>2. CASE S!TestDatagram \/ S!Sleep \/ S!WaitExpires \/ S!TakeDatagram
    BY <1>2, SMT DEF S!TestDatagram, S!Sleep, S!WaitExpires, S!TakeDatagram, S!Player, OwnerTypes,
       S!sdkVars, S!channelVars
  <1>3. CASE S!ReceiveMessages \/ S!ClearDatagrams
    BY <1>3, SMT DEF S!ReceiveMessages, S!ClearDatagrams, S!Woken, OwnerTypes, S!sdkVars,
       S!channelVars
  <1>4. CASE \/ S!Unlink \/ S!Prepare \/ S!ReceiveSignal \/ S!BecomeReady
             \/ S!StartSession \/ S!Destroy
    BY <1>4 DEF S!Unlink, S!Prepare, S!ReceiveSignal, S!BecomeReady, S!StartSession, S!Destroy,
       OwnerTypes, S!sdkVars, S!channelVars
  <1>5. CASE S!SendSignal \/ S!StoreClosed \/ S!StoreFailed \/ S!BeginConnection
             \/ S!Check \/ S!SwapSignals
             \/ S!BridgeUpdate \/ S!Connect \/ S!Drain \/ S!ReceiveNothing \/ S!ReceiveUpgrade
             \/ S!ReceiveSession \/ S!ReceivePing \/ S!Flush
    BY <1>1, <1>5 DEF S!SendSignal, S!StoreClosed, S!StoreFailed, S!BeginConnection,
       S!Check, S!SwapSignals,
       S!BridgeUpdate, S!Connect, S!Drain, S!ReceiveNothing, S!ReceiveUpgrade, S!ReceiveSession,
       S!ReceivePing, S!Reception, S!Flush, S!sdkVars, S!channelVars
  <1> QED
    BY <1>2, <1>3, <1>4, <1>5 DEF S!Next

\* The three together, with the types of the line, are the types of the link.
LEMMA LinkTypesOK == ASSUME OrderInv, LinkFlags PROVE S!LinkTypeOK
  <1>1. \A i \in DOMAIN fifo : fifo[i] \in S!Frame
    <2> SUFFICES ASSUME NEW i \in DOMAIN fifo PROVE fifo[i] \in S!Frame
      OBVIOUS
    <2>1. fifo[i] \in AFrame /\ Len(fifo[i].body) <= ChannelLimit
      BY DEF OrderInv, LineTypes, Limits
    <2>2. fifo[i].body \in Seq(1 .. MaxSignals) /\ Len(fifo[i].body) \in Nat
      BY <2>1, SMT DEF AFrame
    <2>3. /\ fifo[i].body \in [1 .. Len(fifo[i].body) -> 1 .. MaxSignals]
          /\ Len(fifo[i].body) \in 0 .. ChannelLimit
      BY <2>1, <2>2, LinkAssumption, SMT
    <2>4. fifo[i].body \in UNION {[1 .. n -> 1 .. MaxSignals] : n \in 0 .. ChannelLimit}
      BY <2>3
    <2> QED
      BY <2>1, <2>4, Zenon DEF AFrame, S!Frame, FrameKinds
  <1> QED
    BY <1>1 DEF OrderInv, LineTypes, Limits, LinkFlags, WorkerTypes, NetTypes, OwnerTypes, Places,
       S!LinkTypeOK

-----------------------------------------------------------------------------
\* The types of the resolver: the budget of a lookup and the length of the queue.

InPass == {"queue", "begin", "settle", "sleep"}

Budgeted ==
    /\ elapsed \in [Resolvers -> 0 .. D!CollectionBudget]
    /\ \A t \in Resolvers : lookup[t].at \in InPass => elapsed[t] < D!CollectionBudget

Paced == pause \in 0 .. Pace /\ stopped \in BOOLEAN

\* The collection budget is a number of ticks.
LEMMA BudgetIsNat == D!CollectionBudget \in Nat
  <1> DEFINE legsOf == MaxScopes * Servers
  <1>1. legsOf \in Nat
    BY DnsAssumption, SMT
  <1> HIDE DEF legsOf
  <1>2. (legsOf + WireLimit - 1) \div WireLimit + 1 \in Nat
    BY <1>1, DnsAssumption, SMT
  <1> DEFINE waves == (legsOf + WireLimit - 1) \div WireLimit + 1
  <1>3. waves \in Nat
    BY <1>2
  <1> HIDE DEF waves
  <1>4. waves * QueryBudget \in Nat
    BY <1>3, DnsAssumption, SMT
  <1> QED
    BY <1>4 DEF D!CollectionBudget, legsOf, waves

\* Nothing has run at first.
LEMMA BudgetInit == D!Init => Budgeted /\ Paced
  <1>1. 0 \in 0 .. D!CollectionBudget /\ 0 \in 0 .. Pace
    BY BudgetIsNat, DnsAssumption, SMT
  <1> SUFFICES ASSUME D!Init PROVE Budgeted /\ Paced
    OBVIOUS
  <1>2. elapsed \in [Resolvers -> 0 .. D!CollectionBudget]
    BY <1>1 DEF D!Init
  <1>3. \A t \in Resolvers : lookup[t].at \notin InPass
    BY DEF D!Init, InPass
  <1>4. Paced
    BY <1>1 DEF D!Init, Paced
  <1> QED
    BY <1>2, <1>3, <1>4 DEF Budgeted

\* A lookup that goes on within its pass, or out of it, has time left as before.
LEMMA BudgetMoves ==
    ASSUME DnsTypes, Budgeted, UNCHANGED elapsed,
           NEW t \in Resolvers, NEW w, NEW k, D!Goes(t, w, k),
           w \in InPass => lookup[t].at \in InPass \/ elapsed[t] < D!CollectionBudget
    PROVE  Budgeted'
  <1>1. /\ lookup'[t].at = w
        /\ \A u \in Resolvers : u # t => lookup'[u] = lookup[u]
    BY DEF D!Goes, DnsTypes
  <1> QED
    BY <1>1, Zenon DEF Budgeted, D!CollectionBudget

\* A lookup begins with all of its time.
LEMMA BudgetStarts ==
    ASSUME DnsTypes, Budgeted, NEW t \in Resolvers, NEW w \in {"enqueue", "idle"}, D!Goes(t, w, 1),
           elapsed' = [elapsed EXCEPT ![t] = 0]
    PROVE  Budgeted'
  <1>1. /\ lookup'[t].at = w
        /\ \A u \in Resolvers : u # t => lookup'[u] = lookup[u]
    BY DEF D!Goes, DnsTypes
  <1>2. w \notin InPass
    BY DEF InPass
  <1>3. 0 \in 0 .. D!CollectionBudget
    BY BudgetIsNat, SMT
  <1>4. /\ elapsed' \in [Resolvers -> 0 .. D!CollectionBudget]
        /\ \A u \in Resolvers : u # t => elapsed'[u] = elapsed[u]
    BY <1>3 DEF Budgeted
  <1> QED
    BY <1>1, <1>2, <1>4, Zenon DEF Budgeted, D!CollectionBudget

\* The steps of one lookup.
LEMMA BudgetLookup ==
    ASSUME DnsInv, Budgeted, NEW t \in Resolvers, D!LookupStep(t) \/ D!StartLookup(t)
    PROVE  Budgeted'
  <1>0. DnsTypes
    BY DEF DnsInv
  <1>1. CASE D!StartLookup(t)
    BY <1>0, <1>1, BudgetStarts DEF D!StartLookup
  <1>2. CASE D!NotConfigured(t) \/ D!Enqueue(t)
    <2>1. \E w \in {"cleanup", "enqueue", "pass"}, k \in Nat : D!Goes(t, w, k) /\ UNCHANGED elapsed
      <3>1. lookup[t].leg + 1 \in Nat /\ 1 \in Nat
        BY ThisLegFacts, LegNumbers, SMT
      <3> QED
        BY <1>2, <3>1 DEF D!NotConfigured, D!Enqueue
    <2>2. \A w \in {"cleanup", "enqueue", "pass"} : w \notin InPass
      BY DEF InPass
    <2> QED
      BY <1>0, <2>1, <2>2, BudgetMoves
  <1>3. CASE D!Pass(t)
    <2>1. "cleanup" \notin InPass
      BY DEF InPass
    <2> QED
      BY <1>0, <1>3, <2>1, BudgetMoves DEF D!Pass
  <1>4. CASE D!Expire(t) \/ D!Skip(t) \/ D!Settle(t)
    <2>1. UNCHANGED elapsed /\ lookup[t].at \in InPass
      BY <1>4 DEF D!Expire, D!Skip, D!Settle, D!At, InPass
    <2>2. \E p \in BOOLEAN : D!NextLeg(t, p)
      BY <1>4 DEF D!Expire, D!Skip, D!Settle, D!Pending
    <2>3. \E w \in {"queue", "sleep", "cleanup"}, k \in D!Legs : D!Goes(t, w, k)
      BY <2>2, NextLegGoes
    <2> QED
      BY <1>0, <2>1, <2>3, BudgetMoves, SMTT(60)
  <1>5. CASE D!Admit(t) \/ D!BeginQuery(t)
    <2>1. UNCHANGED elapsed /\ lookup[t].at \in InPass
      BY <1>5, SMTT(60) DEF D!Admit, D!BeginQuery, D!At, InPass
    <2>2. \E w \in {"begin", "settle"} : D!Goes(t, w, lookup[t].leg)
      BY <1>5 DEF D!Admit, D!BeginQuery
    <2> QED
      BY <1>0, <2>1, <2>2, BudgetMoves
  <1>6. CASE D!Cleanup(t)
    <2>1. CASE lookup[t].leg < Servers
      <3>1. D!Goes(t, "cleanup", lookup[t].leg + 1) /\ UNCHANGED elapsed
        BY <1>6, <2>1 DEF D!Cleanup
      <3>2. "cleanup" \notin InPass
        BY DEF InPass
      <3> QED
        BY <1>0, <3>1, <3>2, BudgetMoves
    <2>2. CASE ~(lookup[t].leg < Servers)
      <3>1. D!Goes(t, "idle", 1) /\ elapsed' = [elapsed EXCEPT ![t] = 0]
        BY <1>6, <2>2 DEF D!Cleanup
      <3> QED
        BY <1>0, <3>1, BudgetStarts
    <2> QED
      BY <2>1, <2>2
  <1> QED
    BY <1>1, <1>2, <1>3, <1>4, <1>5, <1>6 DEF D!LookupStep

\* A tick takes one from the time of those that sleep, and wakes them.
LEMMA BudgetTick == ASSUME DnsInv, Budgeted, D!Tick PROVE Budgeted'
  <1>1. \A u \in Resolvers : lookup[u].at \in {"idle", "sleep"}
    BY DEF D!Tick, D!At
  <1>2. /\ elapsed' = [u \in Resolvers |-> IF lookup[u].at = "sleep" THEN elapsed[u] + 1 ELSE 0]
        /\ lookup' = [u \in Resolvers |-> IF lookup[u].at = "sleep"
                                           THEN [at |-> "pass", leg |-> 1] ELSE lookup[u]]
    BY DEF D!Tick, D!At
  <1>3. ASSUME NEW u \in Resolvers
        PROVE  /\ elapsed'[u] \in 0 .. D!CollectionBudget
               /\ lookup'[u].at \notin InPass
    <2>1. CASE lookup[u].at = "sleep"
      <3>1. elapsed[u] \in 0 .. D!CollectionBudget /\ elapsed[u] < D!CollectionBudget
        BY <2>1 DEF Budgeted, InPass
      <3>2. elapsed[u] + 1 \in 0 .. D!CollectionBudget
        BY <3>1, BudgetIsNat, SMT
      <3> QED
        BY <1>2, <2>1, <3>2 DEF InPass
    <2>2. CASE lookup[u].at # "sleep"
      <3>1. 0 \in 0 .. D!CollectionBudget
        BY BudgetIsNat, SMT
      <3> QED
        BY <1>1, <1>2, <2>2, <3>1 DEF InPass
    <2> QED
      BY <2>1, <2>2
  <1>4. elapsed' \in [Resolvers -> 0 .. D!CollectionBudget]
    BY <1>2, <1>3
  <1> QED
    BY <1>3, <1>4, Zenon DEF Budgeted, D!CollectionBudget

\* Every step of the resolver keeps within the budget.
LEMMA BudgetNext == ASSUME DnsInv, Budgeted, D!Next PROVE Budgeted'
  <1>1. ASSUME NEW t \in Resolvers, D!Begin(t) \/ D!End(t) \/ D!Cancel(t) PROVE Budgeted'
    BY <1>1 DEF D!Begin, D!End, D!Cancel, Budgeted
  <1>2. CASE D!StopAll
    BY <1>2 DEF D!StopAll, Budgeted
  <1> QED
    BY <1>1, <1>2, BudgetLookup, BudgetTick DEF D!Next

\* Every step keeps the pace.
LEMMA PacedNext == ASSUME Paced, D!Next PROVE Paced'
  <1>1. CASE UNCHANGED <<pause, stopped>>
    BY <1>1 DEF Paced
  <1>2. ASSUME NEW t \in Resolvers, D!LookupStep(t) PROVE Paced'
    <2>1. UNCHANGED <<pause, stopped>> \/ (pause' = Pace /\ stopped' = stopped)
      BY <1>2, Zenon DEF D!LookupStep, D!Enqueue, D!NotConfigured, D!Pass, D!Expire, D!Admit,
         D!Skip,
         D!BeginQuery, D!Settle, D!Cleanup
    <2>2. Pace \in 0 .. Pace
      BY DnsAssumption, SMT
    <2> QED
      BY <1>1, <2>1, <2>2, SMTT(60) DEF Paced
  <1>3. ASSUME NEW t \in Resolvers, D!Begin(t) \/ D!End(t) \/ D!Cancel(t) \/ D!StartLookup(t)
        PROVE  Paced'
    BY <1>1, <1>3 DEF D!Begin, D!End, D!Cancel, D!StartLookup
  <1>4. CASE D!StopAll
    BY <1>4 DEF D!StopAll, Paced
  <1>5. CASE D!Tick
    <2>1. pause' = (IF pause > 0 THEN pause - 1 ELSE 0) /\ stopped' = stopped
      BY <1>5 DEF D!Tick
    <2>2. pause' \in 0 .. Pace
      BY <2>1, DnsAssumption, SMT DEF Paced
    <2> QED
      BY <2>1, <2>2 DEF Paced
  <1> QED
    BY <1>2, <1>3, <1>4, <1>5 DEF D!Next

\* A queue without repetitions is not longer than there are legs.
LEMMA QueueBounded ==
    ASSUME DnsInv
    PROVE  Len(queue) <= Cardinality(Resolvers) * Servers
  <1> DEFINE P == Resolvers \X D!Legs
  <1>1. /\ queue \in [1 .. Len(queue) -> P] /\ Len(queue) \in Nat
        /\ DOMAIN queue = 1 .. Len(queue)
    BY SMT DEF DnsInv, DnsTypes
  <1>2. queue \in Injection(1 .. Len(queue), P)
    BY <1>1 DEF DnsInv, QueuedOnce, Injection, IsInjective
  <1>3. /\ IsFiniteSet(P) /\ IsFiniteSet(Resolvers)
        /\ Cardinality(P) = Cardinality(Resolvers) * Cardinality(1 .. Servers)
    BY LegNumbers, DnsAssumption, FS_Product
  <1>4. Cardinality(1 .. Len(queue)) = Len(queue) /\ Cardinality(1 .. Servers) = Servers
    <2>1. ASSUME NEW n \in Nat PROVE Cardinality(1 .. n) = n
      <3>1. Cardinality(1 .. n) = IF 1 > n THEN 0 ELSE n - 1 + 1
        BY FS_Interval, SMT
      <3> QED
        BY <3>1, SMT
    <2> QED
      BY <1>1, <2>1, DnsAssumption
  <1>5. Cardinality(1 .. Len(queue)) <= Cardinality(P)
    BY <1>2, <1>3, FS_Injection
  <1> QED
    BY <1>3, <1>4, <1>5

\* The types of the resolver.
LEMMA DnsTypesOK == ASSUME DnsInv, Budgeted, Paced PROVE D!DnsTypeOK
  <1>1. Len(queue) <= D!Cardinality(Resolvers) * Servers
    <2>1. D!Cardinality(Resolvers) = Cardinality(Resolvers)
      BY Zenon DEF D!Cardinality, Cardinality
    <2> QED
      BY <2>1, QueueBounded
  <1>2. DnsTypes /\ wire \in 0 .. WireLimit
    BY DEF DnsInv, WireCounted
  <1> QED
    BY <1>1, <1>2, Zenon DEF DnsTypes, Budgeted, Paced, D!DnsTypeOK, ALookup

-----------------------------------------------------------------------------
\* Every leg gets its turn: the time that a lookup has left covers what is ahead of
\* its legs in the queue.

\* One scope after the other may put all of its legs in the queue; each of them may
\* keep a place on the wire for the provider's budget, and pays for its pace.
AllLegs == MaxScopes * Servers
Turn == QueryBudget + 1 + WireLimit * (Pace + 1)
StartLimit == WireLimit * Retry + (AllLegs - 1) * Turn + WireLimit * Pace + WireLimit + WireLimit

\* What a leg that holds a place may still cost the wire: a tick for every tick of
\* its budget, while it is on its way to the provider.
Token(t, j, k) ==
    /\ legs[t][j].held
    /\ k = 0 \/ (~D!Waits(t, j) /\ k + legs[t][j].age <= QueryBudget)

Tokens == {p \in (Resolvers \X D!Legs) \X (0 .. QueryBudget) : Token(p[1][1], p[1][2], p[2])}

\* The lookup has already looked at the leg since the last tick.
Looked(t, j) ==
    \/ lookup[t].at = "sleep"
    \/ lookup[t].at \in {"queue", "begin"} /\ j < lookup[t].leg
    \/ lookup[t].at = "settle" /\ j <= lookup[t].leg

\* The first in the queue could have been admitted, but its lookup looked too early:
\* until the next tick the free places stay free.
HeadReady ==
    /\ queue # <<>> /\ pause = 0
    /\ Looked(queue[1][1], queue[1][2]) /\ legs[queue[1][1]][queue[1][2]].wait = 0

Slack == IF HeadReady THEN WireLimit - wire ELSE 0

\* What the wire has to do before the first in the queue is admitted.
Ahead == Cardinality(Tokens) + WireLimit * pause + Slack

\* Entry n of the queue is in time: with all that is ahead of it, it is admitted
\* within the limit; and what is ahead of it waits for local resources no longer than
\* until the lookup is one pause old.
InTime(n) ==
    /\ WireLimit * elapsed[queue[n][1]] + Ahead + (n - 1) * Turn <= StartLimit
    /\ WireLimit * Retry + Ahead + (n - 1) * Turn <= StartLimit
    /\ \A m \in 1 .. n :
          \/ legs[queue[m][1]][queue[m][2]].wait = 0
          \/ legs[queue[m][1]][queue[m][2]].wait + elapsed[queue[n][1]] <= Retry

StartsInTime ==
    \A n \in DOMAIN queue : legs[queue[n][1]][queue[n][2]].started \/ InTime(n)

\* The legs that the lookup has put in the queue, and those it has polled since the
\* last tick.
PutInQueue(t, j) ==
    \/ lookup[t].at \in {"pass", "queue", "begin", "settle", "sleep"}
    \/ lookup[t].at = "enqueue" /\ j < lookup[t].leg

PolledNow(t, j) ==
    \/ lookup[t].at = "sleep"
    \/ lookup[t].at \in {"queue", "begin", "settle"} /\ j < lookup[t].leg

\* A leg that holds a place has started, one that has not started is in the queue,
\* and one that was polled has some of its budget left.
LegAsked(t, j) ==
    /\ legs[t][j].held => legs[t][j].started
    /\ PutInQueue(t, j) => legs[t][j].started \/ legs[t][j].state = "queued"
    /\ PolledNow(t, j) /\ legs[t][j].state = "active" => legs[t][j].age < QueryBudget

Asked ==
    \A t \in Resolvers :
       /\ lookup[t].at = "enqueue" => elapsed[t] = 0
       /\ \A j \in D!Legs : LegAsked(t, j)

\* A lookup has a scope, and the scopes are limited.
ScopeOf(t) == dnsScope[t].kind # "none"
Scopes == {t \in Resolvers : ScopeOf(t)}
Scoped ==
    /\ Cardinality(Scopes) <= MaxScopes
    /\ \A t \in Resolvers : lookup[t].at # "idle" => ScopeOf(t)

\* The constants are numbers, and so are the products of them that are counted with.
LEMMA TurnNumbers ==
    /\ QueryBudget \in Nat /\ QueryBudget > 0 /\ WireLimit \in Nat /\ WireLimit > 0
    /\ Pace \in Nat /\ Retry \in Nat /\ MaxScopes \in Nat /\ Servers \in Nat
    /\ AllLegs \in Nat /\ WireLimit * Pace \in Nat /\ WireLimit * Retry \in Nat
    /\ Turn \in Nat /\ Turn = QueryBudget + 1 + WireLimit * Pace + WireLimit
    /\ StartLimit \in Int
  <1>1. /\ QueryBudget \in Nat /\ QueryBudget > 0 /\ WireLimit \in Nat /\ WireLimit > 0
        /\ Pace \in Nat /\ Retry \in Nat /\ MaxScopes \in Nat /\ Servers \in Nat
    BY DnsAssumption, SMT
  <1>2. /\ AllLegs \in Nat /\ WireLimit * Pace \in Nat /\ WireLimit * Retry \in Nat
        /\ WireLimit * (Pace + 1) = WireLimit * Pace + WireLimit
    BY <1>1, SMT DEF AllLegs
  <1>3. Turn \in Nat /\ Turn = QueryBudget + 1 + WireLimit * Pace + WireLimit
    BY <1>1, <1>2, SMT DEF Turn
  <1>4. (AllLegs - 1) * Turn \in Int
    BY <1>2, <1>3, SMT
  <1>5. StartLimit \in Int
    BY <1>1, <1>2, <1>4, SMT DEF StartLimit
  <1> QED
    BY <1>1, <1>2, <1>3, <1>5

\* The interval of the tokens of a leg.
LEMMA TokenNumbers ==
    /\ IsFiniteSet(0 .. QueryBudget) /\ Cardinality(0 .. QueryBudget) = QueryBudget + 1
    /\ 0 \in 0 .. QueryBudget /\ \A k \in 0 .. QueryBudget : k \in Nat
  <1>1. 0 \in Int /\ QueryBudget \in Int /\ ~(0 > QueryBudget)
    BY TurnNumbers, SMT
  <1>2. IsFiniteSet(0 .. QueryBudget) /\ Cardinality(0 .. QueryBudget) = QueryBudget - 0 + 1
    BY <1>1, FS_Interval
  <1> QED
    BY <1>2, TurnNumbers, SMT

\* The tokens can be counted.
LEMMA TokensFinite ==
    /\ Tokens \subseteq (Resolvers \X D!Legs) \X (0 .. QueryBudget)
    /\ IsFiniteSet(Tokens) /\ Cardinality(Tokens) \in Nat
  <1>1. Tokens \subseteq (Resolvers \X D!Legs) \X (0 .. QueryBudget)
    BY DEF Tokens
  <1>2. IsFiniteSet((Resolvers \X D!Legs) \X (0 .. QueryBudget))
    BY LegNumbers, TokenNumbers, FS_Product
  <1> QED
    BY <1>1, <1>2, FS_Subset, FS_CardinalityType

\* What is a token.
LEMMA TokenIn ==
    ASSUME NEW t \in Resolvers, NEW j \in D!Legs, NEW k \in 0 .. QueryBudget
    PROVE  /\ <<<<t, j>>, k>> \in Tokens <=> Token(t, j, k)
           /\ <<<<t, j>>, k>> \in Tokens' <=> Token(t, j, k)'
  BY DEF Tokens

\* Tokens are pairs of a leg and a number.
LEMMA TokenIs ==
    ASSUME NEW p \in (Resolvers \X D!Legs) \X (0 .. QueryBudget)
    PROVE  \E t \in Resolvers, j \in D!Legs, k \in 0 .. QueryBudget : p = <<<<t, j>>, k>>
  OBVIOUS

\* A leg that held its place keeps its tokens or loses some.
LegCalms(u, j) ==
    /\ legs'[u][j].held => legs[u][j].held
    /\ legs'[u][j].held /\ ~D!Waits(u, j)' => ~D!Waits(u, j) /\ legs'[u][j].age = legs[u][j].age

\* No tokens come while no leg takes a place or another turn.
LEMMA TokensStay ==
    ASSUME \A u \in Resolvers, j \in D!Legs : LegCalms(u, j)
    PROVE  /\ Tokens' \subseteq Tokens /\ IsFiniteSet(Tokens')
           /\ Cardinality(Tokens') \in Nat /\ Cardinality(Tokens') <= Cardinality(Tokens)
  <1>1. Tokens' \subseteq Tokens
    <2> SUFFICES ASSUME NEW t \in Resolvers, NEW j \in D!Legs, NEW k \in 0 .. QueryBudget,
                        <<<<t, j>>, k>> \in Tokens'
                 PROVE  <<<<t, j>>, k>> \in Tokens
      BY TokenIs DEF Tokens
    <2>1. Token(t, j, k)' /\ LegCalms(t, j)
      BY TokenIn
    <2>2. Token(t, j, k)
      BY <2>1 DEF Token, LegCalms
    <2> QED
      BY <2>2, TokenIn
  <1> QED
    BY <1>1, TokensFinite, FS_Subset, FS_CardinalityType

\* A leg that gives its place back gives a token back.
LEMMA TokensLeave ==
    ASSUME \A u \in Resolvers, j \in D!Legs : LegCalms(u, j),
           NEW t \in Resolvers, NEW i \in D!Legs, legs[t][i].held, ~legs'[t][i].held
    PROVE  Cardinality(Tokens') \in Nat /\ Cardinality(Tokens') + 1 <= Cardinality(Tokens)
  <1> DEFINE p == <<<<t, i>>, 0>>
  <1>1. p \in Tokens
    BY TokenIn, TokenNumbers DEF Token
  <1>2. p \notin Tokens'
    BY TokenIn, TokenNumbers DEF Token
  <1> HIDE DEF p
  <1>3. Tokens' \subseteq Tokens \ {p} /\ Cardinality(Tokens') \in Nat
    BY <1>2, TokensStay
  <1>4. IsFiniteSet(Tokens \ {p}) /\ Cardinality(Tokens \ {p}) = Cardinality(Tokens) - 1
    BY <1>1, TokensFinite, FS_RemoveElement
  <1>5. Cardinality(Tokens') <= Cardinality(Tokens \ {p})
    BY <1>3, <1>4, FS_Subset
  <1> QED
    BY <1>3, <1>4, <1>5, TokensFinite, SMT

\* A leg that is admitted comes with its tokens.
LEMMA TokensCome ==
    ASSUME NEW t \in Resolvers, NEW i \in D!Legs,
           \A u \in Resolvers, j \in D!Legs : u # t \/ j # i => LegCalms(u, j)
    PROVE  /\ Cardinality(Tokens') \in Nat
           /\ Cardinality(Tokens') <= Cardinality(Tokens) + QueryBudget + 1
  <1> DEFINE own == {<<t, i>>} \X (0 .. QueryBudget)
  <1>1. Tokens' \subseteq Tokens \union own
    <2> SUFFICES ASSUME NEW u \in Resolvers, NEW j \in D!Legs, NEW k \in 0 .. QueryBudget,
                        <<<<u, j>>, k>> \in Tokens', <<<<u, j>>, k>> \notin own
                 PROVE  <<<<u, j>>, k>> \in Tokens
      BY TokenIs DEF Tokens
    <2>1. u # t \/ j # i
      OBVIOUS
    <2>2. Token(u, j, k)' /\ LegCalms(u, j)
      BY <2>1, TokenIn
    <2>3. Token(u, j, k)
      BY <2>2 DEF Token, LegCalms
    <2> QED
      BY <2>3, TokenIn
  <1>2. IsFiniteSet(own) /\ Cardinality(own) = QueryBudget + 1
    <2>1. IsFiniteSet({<<t, i>>}) /\ Cardinality({<<t, i>>}) = 1
      BY FS_Singleton
    <2> DEFINE one == {<<t, i>>}  numbers == 0 .. QueryBudget
    <2>2. /\ IsFiniteSet(one) /\ Cardinality(one) = 1 /\ own = one \X numbers
          /\ IsFiniteSet(numbers) /\ Cardinality(numbers) = QueryBudget + 1
      BY <2>1, TokenNumbers
    <2> HIDE DEF one, numbers, own
    <2>3. IsFiniteSet(own) /\ Cardinality(own) = 1 * (QueryBudget + 1)
      BY <2>2, FS_Product
    <2> QED
      BY <2>3, TurnNumbers, SMT
  <1> HIDE DEF own
  <1>3. /\ IsFiniteSet(Tokens \union own) /\ Cardinality(Tokens \intersect own) \in Nat
        /\ Cardinality(Tokens \union own)
             = Cardinality(Tokens) + Cardinality(own) - Cardinality(Tokens \intersect own)
    <2>1. IsFiniteSet(Tokens \intersect own)
      BY TokensFinite, FS_Intersection
    <2> QED
      BY <1>2, <2>1, TokensFinite, FS_Union, FS_CardinalityType
  <1>4. /\ IsFiniteSet(Tokens') /\ Cardinality(Tokens') <= Cardinality(Tokens \union own)
        /\ Cardinality(Tokens') \in Nat
    BY <1>1, <1>3, FS_Subset, FS_CardinalityType
  <1> QED
    BY <1>2, <1>3, <1>4, TokensFinite, TurnNumbers, SMT

\* A tick takes a token of every leg that is on its way to a provider.
LEMMA TokensTick ==
    ASSUME DnsInv, Asked, D!Tick
    PROVE  Cardinality(Tokens') \in Nat /\ Cardinality(Tokens') + wire <= Cardinality(Tokens)
  <1> DEFINE last(q) == <<q, QueryBudget - legs[q[1]][q[2]].age>>
             spent == {last(q) : q \in Holding}
  <1>1. \A u \in Resolvers : lookup[u].at \in {"idle", "sleep"}
    BY DEF D!Tick, D!At
  <1>2. ASSUME NEW u \in Resolvers, NEW j \in D!Legs, legs[u][j].held
        PROVE  /\ legs[u][j].state = "active" /\ legs[u][j].started
               /\ legs[u][j].age \in Nat /\ legs[u][j].age < QueryBudget
               /\ ~D!Waits(u, j) /\ ~D!Waits(u, j)'
               /\ legs'[u][j].held /\ legs'[u][j].age = legs[u][j].age + 1
    <2>1. ThreadOK(u) /\ LegAsked(u, j) /\ legs[u][j] \in D!Leg
      BY ThisLegFacts DEF Asked
    <2>2. legs[u][j].state = "active" /\ lookup[u].at = "sleep"
      <3>1. lookup[u].at = "idle" => Gone(legs[u][j])
        BY <2>1 DEF ThreadOK
      <3> QED
        BY <1>1, <1>2, <2>1, <3>1 DEF ThreadOK, Gone
    <2>3. legs[u][j].started /\ legs[u][j].age < QueryBudget
      BY <1>2, <2>1, <2>2 DEF LegAsked, PolledNow
    <2>4. legs[u][j].age \in Nat
      <3>1. legs[u][j].age \in 0 .. QueryBudget
        BY <2>1, Zenon DEF D!Leg
      <3> QED
        BY <3>1, TokenNumbers
    <2>5. legs'[u][j] = [legs[u][j] EXCEPT
                           !.age = IF legs[u][j].started /\ legs[u][j].age < QueryBudget
                                   THEN legs[u][j].age + 1 ELSE legs[u][j].age,
                           !.wait = IF legs[u][j].wait > 0 THEN legs[u][j].wait - 1 ELSE 0]
      BY Zenon DEF D!Tick
    <2>6. legs'[u][j].held = legs[u][j].held /\ legs'[u][j].state = legs[u][j].state
          /\ legs'[u][j].age = legs[u][j].age + 1
      BY <2>1, <2>3, <2>5 DEF D!Leg
    <2> QED
      BY <1>2, <2>2, <2>3, <2>4, <2>6 DEF D!Waits
  <1>3. spent \subseteq Tokens
    <2> SUFFICES ASSUME NEW u \in Resolvers, NEW j \in D!Legs, legs[u][j].held
                 PROVE  <<<<u, j>>, QueryBudget - legs[u][j].age>> \in Tokens
      BY DEF Holding
    <2>1. /\ QueryBudget - legs[u][j].age \in 0 .. QueryBudget
          /\ QueryBudget - legs[u][j].age + legs[u][j].age <= QueryBudget
      BY <1>2, TurnNumbers, SMT
    <2>2. Token(u, j, QueryBudget - legs[u][j].age)
      BY <1>2, <2>1 DEF Token
    <2> QED
      BY <2>1, <2>2, TokenIn
  <1>4. Tokens' \subseteq Tokens \ spent
    <2> SUFFICES ASSUME NEW u \in Resolvers, NEW j \in D!Legs, NEW k \in 0 .. QueryBudget,
                        <<<<u, j>>, k>> \in Tokens'
                 PROVE  <<<<u, j>>, k>> \in Tokens /\ <<<<u, j>>, k>> \notin spent
      BY TokenIs DEF Tokens
    <2>1. Token(u, j, k)'
      BY TokenIn
    <2>2. legs[u][j].held
      <3>1. legs'[u][j] = [legs[u][j] EXCEPT
                           !.age = IF legs[u][j].started /\ legs[u][j].age < QueryBudget
                                   THEN legs[u][j].age + 1 ELSE legs[u][j].age,
                           !.wait = IF legs[u][j].wait > 0 THEN legs[u][j].wait - 1 ELSE 0]
        BY Zenon DEF D!Tick
      <3>2. legs[u][j] \in D!Leg
        BY ThisLegFacts
      <3>3. legs'[u][j].held = legs[u][j].held
        BY <3>1, <3>2 DEF D!Leg
      <3> QED
        BY <2>1, <3>3 DEF Token
    <2>3. k + (legs[u][j].age + 1) <= QueryBudget
      BY <1>2, <2>1, <2>2, TurnNumbers, TokenNumbers, SMT DEF Token
    <2>4. k + legs[u][j].age <= QueryBudget /\ k # QueryBudget - legs[u][j].age
      BY <1>2, <2>2, <2>3, TurnNumbers, TokenNumbers, SMT
    <2>5. Token(u, j, k)
      BY <1>2, <2>2, <2>4 DEF Token
    <2>6. ASSUME <<<<u, j>>, k>> \in spent PROVE FALSE
      <3>1. PICK q \in Holding : <<<<u, j>>, k>> = <<q, QueryBudget - legs[q[1]][q[2]].age>>
        BY <2>6
      <3>2. q = <<u, j>> /\ k = QueryBudget - legs[q[1]][q[2]].age
        BY <3>1
      <3> QED
        BY <2>4, <3>2
    <2> QED
      BY <2>5, <2>6, TokenIn
  <1>5. /\ IsFiniteSet(Holding) /\ IsFiniteSet(spent)
        /\ Cardinality(Holding) = wire /\ wire \in Nat
        /\ Cardinality(spent) \in Nat /\ Cardinality(Holding) <= Cardinality(spent)
    <2>1. Holding \subseteq Resolvers \X D!Legs
      BY DEF Holding
    <2>2. IsFiniteSet(Holding) /\ IsFiniteSet(spent)
      BY <1>3, <2>1, LegNumbers, TokensFinite, FS_Subset
    <2>3. [q \in Holding |-> last(q)] \in Injection(Holding, spent)
      <3>1. \A q, r \in Holding : last(q) = last(r) => q = r
        OBVIOUS
      <3> HIDE DEF last
      <3> QED
        BY <3>1 DEF Injection, IsInjective
    <2>4. Cardinality(Holding) = wire
      BY DEF DnsInv, WireCounted
    <2> HIDE DEF spent
    <2>5. Cardinality(Holding) <= Cardinality(spent)
      BY <2>2, <2>3, FS_Injection
    <2> QED
      BY <2>2, <2>4, <2>5, FS_CardinalityType
  <1> HIDE DEF spent
  <1>6. /\ IsFiniteSet(Tokens \ spent)
        /\ Cardinality(Tokens \ spent) = Cardinality(Tokens) - Cardinality(Tokens \intersect spent)
    BY TokensFinite, FS_Difference
  <1>7. Tokens \intersect spent = spent
    BY <1>3
  <1>8. Cardinality(Tokens') \in Nat /\ Cardinality(Tokens') <= Cardinality(Tokens \ spent)
    BY <1>4, <1>6, FS_Subset, FS_CardinalityType
  <1> QED
    BY <1>5, <1>6, <1>7, <1>8, TokensFinite, SMT

\* The legs that a thread without a scope has are gone.
LEMMA ScopedLegs ==
    ASSUME DnsInv, Scoped, NEW t \in Resolvers, NEW j \in D!Legs,
           Queued(t, j) \/ legs[t][j].held
    PROVE  ScopeOf(t)
  <1>1. ThreadOK(t)
    BY ThisLegFacts
  <1>2. Queued(t, j) => legs[t][j].state = "queued"
    BY <1>1 DEF ThreadOK, D!Waits
  <1>3. lookup[t].at # "idle"
    BY <1>1, <1>2 DEF ThreadOK, Gone
  <1> QED
    BY <1>3 DEF Scoped

\* The legs on their way to a provider and the legs in the queue are different legs
\* of the threads that have a scope.
LEMMA SolidAndQueued ==
    ASSUME DnsInv, Scoped
    PROVE  \E m \in Nat : /\ m + Len(queue) <= AllLegs
                          /\ Cardinality(Tokens) <= m * (QueryBudget + 1) + WireLimit
  <1> DEFINE solid == {q \in Holding : ~D!Waits(q[1], q[2])}
             entries == {queue[n] : n \in 1 .. Len(queue)}
             scoped == Scopes \X D!Legs
             m == Cardinality(solid)
  <1>1. /\ queue \in [1 .. Len(queue) -> Resolvers \X D!Legs] /\ Len(queue) \in Nat
        /\ DOMAIN queue = 1 .. Len(queue)
    BY SMT DEF DnsInv, DnsTypes
  <1>2. /\ IsFiniteSet(Holding) /\ Cardinality(Holding) = wire /\ wire <= WireLimit /\ wire \in Nat
        /\ IsFiniteSet(solid) /\ m \in Nat
    <2>1. Holding \subseteq Resolvers \X D!Legs /\ solid \subseteq Holding
      BY DEF Holding
    <2>2. wire = Cardinality(Holding) /\ wire \in 0 .. WireLimit
      BY DEF DnsInv, WireCounted
    <2>3. IsFiniteSet(Holding) /\ IsFiniteSet(solid)
      BY <2>1, LegNumbers, FS_Subset
    <2>4. wire <= WireLimit /\ wire \in Nat
      BY <2>2, TurnNumbers, SMT
    <2> HIDE DEF solid
    <2> QED
      BY <2>2, <2>3, <2>4, FS_CardinalityType
  <1>3. IsFiniteSet(scoped) /\ Cardinality(scoped) <= AllLegs /\ Cardinality(scoped) \in Nat
    <2>1. IsFiniteSet(Scopes) /\ Cardinality(Scopes) \in Nat
      BY DnsAssumption, FS_Subset, FS_CardinalityType DEF Scopes
    <2>2. IsFiniteSet(D!Legs) /\ Cardinality(D!Legs) = Servers
      <3>1. 1 \in Int /\ Servers \in Int /\ ~(1 > Servers) /\ Servers - 1 + 1 = Servers
        BY DnsAssumption, SMT
      <3> QED
        BY <3>1, LegNumbers, FS_Interval
    <2>3. IsFiniteSet(scoped) /\ Cardinality(scoped) = Cardinality(Scopes) * Servers
      BY <2>1, <2>2, FS_Product
    <2>4. Cardinality(Scopes) <= MaxScopes
      BY DEF Scoped
    <2>5. \A a, b, c \in Nat : a <= b => a * c <= b * c /\ a * c \in Nat
      BY SMT
    <2> QED
      BY <2>1, <2>3, <2>4, <2>5, TurnNumbers DEF AllLegs
  <1>4. entries \subseteq scoped /\ solid \subseteq scoped /\ entries \intersect solid = {}
    <2>1. ASSUME NEW n \in 1 .. Len(queue)
          PROVE  \E t \in Scopes, j \in D!Legs : queue[n] = <<t, j>> /\ D!Waits(t, j)
      <3>1. PICK t \in Resolvers, j \in D!Legs : queue[n] = <<t, j>>
        BY <1>1
      <3>2. Queued(t, j)
        BY <1>1, <3>1 DEF Queued
      <3>3. ScopeOf(t) /\ D!Waits(t, j)
        BY <3>2, ScopedLegs, ThisLegFacts DEF ThreadOK
      <3> QED
        BY <3>1, <3>3 DEF Scopes
    <2>2. ASSUME NEW t \in Resolvers, NEW j \in D!Legs, <<t, j>> \in solid
          PROVE  t \in Scopes /\ ~D!Waits(t, j)
      BY <2>2, ScopedLegs DEF Holding, Scopes
    <2>3. solid \subseteq Resolvers \X D!Legs
      BY DEF Holding
    <2> HIDE DEF solid
    <2>4. solid \subseteq scoped
      BY <2>2, <2>3
    <2>5. entries \subseteq scoped
      <3> SUFFICES ASSUME NEW n \in 1 .. Len(queue) PROVE queue[n] \in scoped
        OBVIOUS
      <3>1. PICK t \in Scopes, j \in D!Legs : queue[n] = <<t, j>>
        BY <2>1
      <3> QED
        BY <3>1
    <2>6. entries \intersect solid = {}
      <3> SUFFICES ASSUME NEW n \in 1 .. Len(queue), queue[n] \in solid PROVE FALSE
        OBVIOUS
      <3>1. PICK t \in Scopes, j \in D!Legs : queue[n] = <<t, j>> /\ D!Waits(t, j)
        BY <2>1
      <3> QED
        BY <2>2, <3>1 DEF Scopes
    <2> QED
      BY <2>4, <2>5, <2>6
  <1>5. Len(queue) <= Cardinality(entries) /\ IsFiniteSet(entries) /\ Cardinality(entries) \in Nat
    <2>1. queue \in Injection(1 .. Len(queue), entries)
      BY <1>1 DEF DnsInv, QueuedOnce, Injection, IsInjective
    <2>2. IsFiniteSet(entries) /\ Cardinality(entries) \in Nat
      BY <1>3, <1>4, FS_Subset, FS_CardinalityType
    <2>3. Cardinality(1 .. Len(queue)) = Len(queue)
      <3>1. ASSUME NEW n \in Nat PROVE Cardinality(1 .. n) = n
        <4>1. Cardinality(1 .. n) = IF 1 > n THEN 0 ELSE n - 1 + 1
          BY FS_Interval, SMT
        <4> QED
          BY <4>1, SMT
      <3> QED
        BY <1>1, <3>1
    <2> HIDE DEF entries
    <2> QED
      BY <2>1, <2>2, <2>3, FS_Injection
  <1>6. m + Len(queue) <= AllLegs
    <2> HIDE DEF solid, entries, scoped
    <2>1. Cardinality(entries \union solid) = Cardinality(entries) + m - Cardinality({})
      BY <1>2, <1>4, <1>5, FS_Union
    <2>2. Cardinality(entries \union solid) <= Cardinality(scoped)
          /\ Cardinality(entries \union solid) \in Nat
      BY <1>2, <1>3, <1>4, <1>5, FS_Union, FS_Subset, FS_CardinalityType
    <2>3. Cardinality({}) = 0
      BY FS_EmptySet
    <2> HIDE DEF m
    <2> QED
      BY <1>1, <1>2, <1>3, <1>5, <2>1, <2>2, <2>3, TurnNumbers, SMT
  <1>7. Cardinality(Tokens) <= m * (QueryBudget + 1) + WireLimit
    <2> DEFINE full == solid \X (0 .. QueryBudget)
               last == Holding \X {0}
    <2>1. Tokens \subseteq full \union last
      <3> SUFFICES ASSUME NEW t \in Resolvers, NEW j \in D!Legs, NEW k \in 0 .. QueryBudget,
                          <<<<t, j>>, k>> \in Tokens
                   PROVE  <<<<t, j>>, k>> \in full \union last
        BY TokenIs DEF Tokens
      <3>1. Token(t, j, k)
        BY TokenIn
      <3> QED
        BY <3>1 DEF Token, Holding
    <2> HIDE DEF solid
    <2>2. IsFiniteSet(full) /\ Cardinality(full) = m * (QueryBudget + 1)
      BY <1>2, TokenNumbers, FS_Product
    <2>3. IsFiniteSet(last) /\ Cardinality(last) = Cardinality(Holding) * 1
      <3>1. IsFiniteSet({0}) /\ Cardinality({0}) = 1
        BY FS_Singleton
      <3> QED
        BY <1>2, <3>1, FS_Product
    <2> HIDE DEF full, last
    <2>4. IsFiniteSet(full \intersect last) /\ Cardinality(full \intersect last) \in Nat
      BY <2>2, FS_Intersection, FS_CardinalityType
    <2>5. /\ IsFiniteSet(full \union last)
          /\ Cardinality(full \union last)
               = Cardinality(full) + Cardinality(last) - Cardinality(full \intersect last)
      BY <2>2, <2>3, FS_Union
    <2>6. Cardinality(Tokens) <= Cardinality(full \union last)
      BY <2>1, <2>5, FS_Subset
    <2>7. m * (QueryBudget + 1) \in Nat
      BY <1>2, TurnNumbers, SMT
    <2> QED
      BY <1>2, <2>2, <2>3, <2>4, <2>5, <2>6, <2>7, TurnNumbers, TokensFinite, SMT
  <1> QED
    BY <1>2, <1>6, <1>7

\* What is ahead of the first entry of the queue.
LEMMA AheadIs ==
    ASSUME DnsInv, Paced
    PROVE  /\ Slack \in 0 .. WireLimit - wire /\ wire \in 0 .. WireLimit
           /\ WireLimit * pause \in Nat /\ WireLimit * pause <= WireLimit * Pace
           /\ Ahead = Cardinality(Tokens) + WireLimit * pause + Slack /\ Ahead \in Nat
  <1>1. wire \in 0 .. WireLimit
    BY DEF DnsInv, WireCounted
  <1>2. Slack \in 0 .. WireLimit - wire
    BY <1>1, TurnNumbers, SMT DEF Slack
  <1>3. WireLimit * pause \in Nat /\ WireLimit * pause <= WireLimit * Pace
    <2>1. pause \in Nat /\ pause <= Pace
      BY TurnNumbers, SMT DEF Paced
    <2>2. \A a, b, c \in Nat : a <= b => c * a \in Nat /\ c * a <= c * b
      BY SMT
    <2> QED
      BY <2>1, <2>2, TurnNumbers
  <1> QED
    BY <1>1, <1>2, <1>3, TokensFinite, TurnNumbers, SMT DEF Ahead

\* Whoever is in the queue, all that is ahead of the last one fits into the limit.
LEMMA LastInTime ==
    ASSUME DnsInv, Scoped, Paced, queue # <<>>
    PROVE  WireLimit * Retry + Ahead + (Len(queue) - 1) * Turn <= StartLimit
  <1>1. PICK m \in Nat : /\ m + Len(queue) <= AllLegs
                         /\ Cardinality(Tokens) <= m * (QueryBudget + 1) + WireLimit
    BY SolidAndQueued
  <1>2. Len(queue) \in Nat
    BY SMT DEF DnsInv, DnsTypes
  <1>3. m * (QueryBudget + 1) <= m * Turn
    <2>1. \A a, b, c \in Nat : a <= b => c * a <= c * b
      BY SMT
    <2>2. QueryBudget + 1 \in Nat /\ QueryBudget + 1 <= Turn
      BY TurnNumbers, SMT
    <2> QED
      BY <2>1, <2>2, TurnNumbers
  <1>4. m * Turn + (Len(queue) - 1) * Turn <= (AllLegs - 1) * Turn
    <2>1. \A a, b, c, d \in Nat : a + b <= d => a * c + (b - 1) * c <= (d - 1) * c
      <3> SUFFICES ASSUME NEW a \in Nat, NEW b \in Nat, NEW c \in Nat, NEW d \in Nat, a + b <= d
                   PROVE  a * c + (b - 1) * c <= (d - 1) * c
        OBVIOUS
      <3>1. a * c + (b - 1) * c = (a + b) * c - c /\ (d - 1) * c = d * c - c
        BY SMT
      <3>2. (a + b) * c <= d * c
        BY SMT
      <3>3. (a + b) * c \in Int /\ d * c \in Int
        BY SMT
      <3> QED
        BY <3>1, <3>2, <3>3, SMT
    <2> QED
      BY <1>1, <1>2, <2>1, TurnNumbers
  <1>5. /\ m * Turn \in Int /\ (Len(queue) - 1) * Turn \in Int /\ (AllLegs - 1) * Turn \in Int
        /\ m * (QueryBudget + 1) \in Int
    BY <1>2, TurnNumbers, SMT
  <1> DEFINE a == m * Turn
             b == (Len(queue) - 1) * Turn
             c == (AllLegs - 1) * Turn
             d == m * (QueryBudget + 1)
             r == WireLimit * Retry
             s == WireLimit * Pace
             p == WireLimit * pause
             k == Cardinality(Tokens)
  <1>6. /\ a \in Int /\ b \in Int /\ c \in Int /\ d \in Int /\ d <= a /\ a + b <= c
        /\ r \in Nat /\ s \in Nat /\ p \in Nat /\ p <= s /\ k \in Nat /\ k <= d + WireLimit
    BY <1>1, <1>3, <1>4, <1>5, AheadIs, TokensFinite, TurnNumbers
  <1>7. StartLimit = r + c + s + WireLimit + WireLimit /\ Ahead = k + p + Slack
        /\ Slack \in 0 .. WireLimit - wire /\ wire \in 0 .. WireLimit /\ WireLimit \in Nat
    BY AheadIs, TurnNumbers DEF StartLimit
  <1>8. SUFFICES r + Ahead + b <= StartLimit
    OBVIOUS
  <1> HIDE DEF a, b, c, d, r, s, p, k
  <1> QED
    BY <1>6, <1>7, SMT

\* Entry m of the queue is entry n after the step, and nobody has come before it.
CameFrom(n, m) ==
    /\ m \in DOMAIN queue /\ n <= m /\ queue'[n] = queue[m]
    /\ \A a \in 1 .. n : \E b \in 1 .. m : queue'[a] = queue[b]

\* The first of the queue is the same.
HeadKept == queue # <<>> /\ queue' # <<>> /\ queue'[1] = queue[1]

\* The places of the queue.
LEMMA QueuePlaces ==
    ASSUME queue \in Seq(Resolvers \X D!Legs)
    PROVE  /\ Len(queue) \in Nat /\ DOMAIN queue = 1 .. Len(queue)
           /\ \A n \in DOMAIN queue :
                 /\ n \in Nat /\ 1 <= n /\ 1 \in DOMAIN queue
                 /\ queue[n] \in Resolvers \X D!Legs
           /\ queue # <<>> <=> 1 \in DOMAIN queue
  <1>1. /\ Len(queue) \in Nat /\ DOMAIN queue = 1 .. Len(queue)
        /\ \A n \in 1 .. Len(queue) : queue[n] \in Resolvers \X D!Legs
    BY SMT
  <1>2. \A n \in 1 .. Len(queue) : n \in Nat /\ 1 <= n /\ 1 \in 1 .. Len(queue)
    BY <1>1, SMT
  <1>3. queue # <<>> <=> 1 \in 1 .. Len(queue)
    <2>1. queue = <<>> <=> Len(queue) = 0
      BY EmptySeq, SMT
    <2>2. Len(queue) = 0 <=> 1 \notin 1 .. Len(queue)
      BY <1>1, SMT
    <2> QED
      BY <2>1, <2>2
  <1> QED
    BY <1>1, <1>2, <1>3

\* A queue that stays is in the same order.
LEMMA OrderStays ==
    ASSUME queue \in Seq(Resolvers \X D!Legs), UNCHANGED queue
    PROVE  /\ \A n \in DOMAIN queue' : CameFrom(n, n)
           /\ queue # <<>> => HeadKept
  <1>1. /\ \A n \in DOMAIN queue : n \in Nat /\ 1 <= n
        /\ DOMAIN queue' = DOMAIN queue
    BY QueuePlaces
  <1>2. \A n \in Nat : n <= n
    BY SMT
  <1> QED
    BY <1>1, <1>2 DEF CameFrom, HeadKept

\* Who joins is behind everybody else.
LEMMA OrderJoined ==
    ASSUME queue \in Seq(Resolvers \X D!Legs), NEW q \in Resolvers \X D!Legs,
           queue' = Append(queue, q)
    PROVE  /\ \A n \in DOMAIN queue' : \/ CameFrom(n, n)
                                       \/ n = Len(queue') /\ queue'[n] = q
           /\ queue # <<>> => HeadKept
  <1> DEFINE l == Len(queue)
  <1>1. /\ l \in Nat /\ DOMAIN queue = 1 .. l /\ DOMAIN queue' = 1 .. l + 1 /\ Len(queue') = l + 1
        /\ queue'[l + 1] = q /\ \A n \in 1 .. l : queue'[n] = queue[n]
    BY SMT
  <1> HIDE DEF l
  <1>2. ASSUME NEW n \in 1 .. l + 1, n # l + 1 PROVE CameFrom(n, n)
    <2>1. n \in 1 .. l /\ n <= n /\ \A a \in 1 .. n : a \in 1 .. l
      BY <1>1, <1>2, SMT
    <2> QED
      BY <1>1, <2>1 DEF CameFrom
  <1>3. queue # <<>> => HeadKept
    <2> SUFFICES ASSUME queue # <<>> PROVE HeadKept
      OBVIOUS
    <2>1. 1 \in 1 .. l
      BY <1>1, QueuePlaces
    <2>2. 1 \in 1 .. l + 1
      BY <1>1, SMT
    <2>3. queue' # <<>>
      <3>1. Len(queue') # 0
        BY <1>1, SMT
      <3> QED
        BY <3>1, EmptySeq, SMT
    <2> QED
      BY <1>1, <2>1, <2>3 DEF HeadKept
  <1> QED
    BY <1>1, <1>2, <1>3

\* Who stays when one entry leaves moves up if that was the first, and else keeps
\* behind the first.
LEMMA OrderUnlinked ==
    ASSUME queue \in Seq(Resolvers \X D!Legs), NEW p \in DOMAIN queue,
           queue' = [n \in 1 .. Len(queue) - 1 |-> queue[IF n < p THEN n ELSE n + 1]]
    PROVE  \A n \in DOMAIN queue' :
              /\ CameFrom(n, IF n < p THEN n ELSE n + 1)
              /\ HeadKept \/ p = 1
  <1> DEFINE l == Len(queue)  was(n) == IF n < p THEN n ELSE n + 1
  <1>1. /\ l \in Nat /\ DOMAIN queue = 1 .. l /\ p \in Nat /\ 1 <= p
        /\ DOMAIN queue' = 1 .. l - 1 /\ \A n \in 1 .. l - 1 : queue'[n] = queue[was(n)]
    BY QueuePlaces
  <1> HIDE DEF l
  <1> SUFFICES ASSUME NEW n \in 1 .. l - 1
               PROVE  CameFrom(n, was(n)) /\ (HeadKept \/ p = 1)
    BY <1>1
  <1>2. /\ was(n) \in 1 .. l /\ n <= was(n)
        /\ \A a \in 1 .. n : a \in 1 .. l - 1 /\ was(a) \in 1 .. was(n)
    <2>1. was(n) \in 1 .. l /\ n <= was(n)
      BY <1>1, SMT
    <2>2. \A a \in 1 .. n : a \in 1 .. l - 1 /\ was(a) \in 1 .. was(n)
      BY <1>1, SMT
    <2> QED
      BY <2>1, <2>2
  <1>3. CameFrom(n, was(n))
    <2> HIDE DEF was
    <2>1. \A a \in 1 .. n : queue'[a] = queue[was(a)]
      BY <1>1, <1>2
    <2> QED
      BY <1>1, <1>2, <2>1 DEF CameFrom
  <1>4. ASSUME p # 1 PROVE HeadKept
    <2>1. 1 \in 1 .. l - 1 /\ was(1) = 1 /\ 1 \in 1 .. l
      BY <1>1, <1>4, SMT
    <2>2. queue'[1] = queue[1]
      <3> HIDE DEF was
      <3> QED
        BY <1>1, <2>1
    <2>3. queue # <<>>
      BY <1>1, <2>1, QueuePlaces
    <2>4. queue' # <<>>
      <3>1. DOMAIN queue' # {}
        BY <1>1, <2>1
      <3>2. DOMAIN <<>> = {}
        BY SMT
      <3> QED
        BY <3>1, <3>2
    <2> QED
      BY <2>2, <2>3, <2>4 DEF HeadKept
  <1> QED
    BY <1>3, <1>4

\* Entry n is where it was, behind the same first, or has moved up.
Behind(n) ==
    \E m \in DOMAIN queue : CameFrom(n, m) /\ (HeadKept \/ n + 1 <= m)

\* The first leaves.
LEMMA OrderFirst ==
    ASSUME queue \in Seq(Resolvers \X D!Legs), queue # <<>>, queue' = Tail(queue)
    PROVE  \A n \in DOMAIN queue' : \E m \in DOMAIN queue : CameFrom(n, m) /\ n + 1 <= m
  <1>1. /\ Len(queue) \in Nat /\ DOMAIN queue = 1 .. Len(queue) /\ 1 \in DOMAIN queue
    BY QueuePlaces
  <1>2. /\ Tail(queue) \in Seq(Resolvers \X D!Legs) /\ Len(Tail(queue)) = Len(queue) - 1
        /\ \A n \in 1 .. Len(Tail(queue)) : Tail(queue)[n] = queue[n + 1]
    BY HeadTailProperties
  <1>3. DOMAIN queue' = 1 .. Len(queue) - 1
        /\ \A n \in 1 .. Len(queue) - 1 : queue'[n] = queue[n + 1]
    <2>1. \A s \in Seq(Resolvers \X D!Legs) : DOMAIN s = 1 .. Len(s)
      BY SMT
    <2> QED
      BY <1>2, <2>1
  <1> SUFFICES ASSUME NEW n \in 1 .. Len(queue) - 1
               PROVE  \E m \in DOMAIN queue : CameFrom(n, m) /\ n + 1 <= m
    BY <1>3
  <1>4. /\ n + 1 \in 1 .. Len(queue) /\ n <= n + 1 /\ n + 1 <= n + 1
        /\ \A a \in 1 .. n : a \in 1 .. Len(queue) - 1 /\ a + 1 \in 1 .. n + 1
    BY <1>1, SMT
  <1>5. CameFrom(n, n + 1)
    BY <1>1, <1>3, <1>4 DEF CameFrom
  <1> QED
    BY <1>1, <1>4, <1>5

\* One leg leaves.
LEMMA OrderWithout ==
    ASSUME DnsTypes, QueuedOnce, NEW t \in Resolvers, NEW i \in D!Legs,
           queue' = D!Without(t, i)
    PROVE  \A n \in DOMAIN queue' : Behind(n)
  <1> DEFINE places == {n \in DOMAIN queue : queue[n] = <<t, i>>}
             first == CHOOSE n \in places : \A m \in places : n <= m
  <1>0. queue \in Seq(Resolvers \X D!Legs)
    BY DEF DnsTypes
  <1>1. CASE places = {}
    <2>1. queue' = queue
      BY <1>1 DEF D!Without
    <2>2. \A n \in DOMAIN queue : queue # <<>>
      BY <1>0, QueuePlaces
    <2> QED
      BY <1>0, <2>1, <2>2, OrderStays DEF Behind
  <1>2. CASE places # {}
    <2>1. PICK p \in places : TRUE
      BY <1>2
    <2>2. places = {p} /\ p \in DOMAIN queue /\ queue[p] = <<t, i>>
      BY <2>1 DEF QueuedOnce
    <2>3. p <= p /\ p \in Nat
      BY <1>0, <2>2, QueuePlaces, SMT
    <2>4. first = p
      BY <2>2, <2>3
    <2>5. queue' = [n \in 1 .. Len(queue) - 1 |-> queue[IF n < first THEN n ELSE n + 1]]
      BY <1>2 DEF D!Without
    <2> HIDE DEF first, places
    <2>6. ASSUME NEW n \in DOMAIN queue' PROVE Behind(n)
      <3>1. CameFrom(n, IF n < p THEN n ELSE n + 1) /\ (HeadKept \/ p = 1)
        BY <1>0, <2>2, <2>4, <2>5, OrderUnlinked
      <3>2. p = 1 => ~(n < p) /\ n + 1 <= n + 1
        <4>1. DOMAIN queue' = 1 .. Len(queue) - 1 /\ Len(queue) \in Nat
          BY <1>0, <2>5, QueuePlaces
        <4>2. n \in 1 .. Len(queue) - 1
          BY <4>1
        <4> QED
          BY <4>1, <4>2, SMT
      <3> QED
        BY <3>1, <3>2 DEF Behind, CameFrom
    <2> QED
      BY <2>6
  <1> QED
    BY <1>1, <1>2

AheadFacts ==
    /\ Slack \in 0 .. WireLimit - wire /\ wire \in 0 .. WireLimit
    /\ WireLimit * pause \in Nat /\ WireLimit * pause <= WireLimit * Pace
    /\ Ahead = Cardinality(Tokens) + WireLimit * pause + Slack /\ Ahead \in Nat
    /\ Cardinality(Tokens) \in Nat

\* The same before and after a step.
LEMMA AheadFactsHold ==
    /\ DnsInv /\ Paced => AheadFacts
    /\ (DnsInv /\ Paced => AheadFacts)'
  <1>1. DnsInv /\ Paced => AheadFacts
    BY AheadIs, TokensFinite DEF AheadFacts
  <1> QED
    BY <1>1, PTL

\* The last of the queue is in time, before and after a step.
LEMMA LastFits ==
    (DnsInv /\ Scoped /\ Paced /\ queue # <<>>
       => WireLimit * Retry + Ahead + (Len(queue) - 1) * Turn <= StartLimit)'
  <1>1. DnsInv /\ Scoped /\ Paced /\ queue # <<>>
          => WireLimit * Retry + Ahead + (Len(queue) - 1) * Turn <= StartLimit
    BY LastInTime
  <1> QED
    BY <1>1, PTL

\* What a step that is no tick leaves alone of the legs that stay in the queue.
EntriesKept ==
    \A u \in Resolvers, j \in D!Legs : Queued(u, j) /\ Queued(u, j)' =>
       /\ legs'[u][j].wait = legs[u][j].wait /\ legs'[u][j].started = legs[u][j].started
       /\ elapsed'[u] = elapsed[u]

\* No more is ahead of an entry than before.
NoFarther(n, m) == Ahead' <= Ahead \/ (n + 1 <= m /\ Ahead' <= Ahead + Turn)

\* The entry of the queue is a leg in the queue.
LEMMA EntryIs ==
    ASSUME queue \in Seq(Resolvers \X D!Legs), NEW n \in DOMAIN queue
    PROVE  \E u \in Resolvers, j \in D!Legs :
              queue[n] = <<u, j>> /\ Queued(u, j)
  BY QueuePlaces DEF Queued

\* An entry that has no more ahead of it than before is still in time.
LEMMA StillInTime ==
    ASSUME DnsInv, DnsInv', Paced, Paced', Budgeted, EntriesKept,
           NEW n \in DOMAIN queue', NEW m, CameFrom(n, m), NoFarther(n, m),
           InTime(m)
    PROVE  InTime(n)'
  <1>1. /\ m \in DOMAIN queue /\ n <= m /\ queue'[n] = queue[m]
        /\ \A a \in 1 .. n : \E b \in 1 .. m : queue'[a] = queue[b]
    BY DEF CameFrom
  <1>2. queue \in Seq(Resolvers \X D!Legs) /\ queue' \in Seq(Resolvers \X D!Legs)
    BY DEF DnsInv, DnsTypes
  <1>3. /\ DOMAIN queue = 1 .. Len(queue) /\ Len(queue) \in Nat
        /\ DOMAIN queue' = 1 .. Len(queue') /\ Len(queue') \in Nat
    BY <1>2, SMT
  <1>4. n \in Nat /\ m \in Nat /\ 1 <= n /\ \A a \in 1 .. n : a \in DOMAIN queue'
        /\ \A b \in 1 .. m : b \in DOMAIN queue
    BY <1>1, <1>3, SMT
  <1>5. ASSUME NEW a \in DOMAIN queue', NEW b \in DOMAIN queue, queue'[a] = queue[b]
        PROVE  \E u \in Resolvers, j \in D!Legs :
                  /\ queue[b] = <<u, j>> /\ queue'[a] = <<u, j>>
                  /\ legs'[u][j].wait = legs[u][j].wait /\ elapsed'[u] = elapsed[u]
    <2>1. PICK u \in Resolvers, j \in D!Legs : queue[b] = <<u, j>> /\ Queued(u, j)
      BY <1>2, EntryIs
    <2>2. Queued(u, j)'
      BY <1>5, <2>1 DEF Queued
    <2> QED
      BY <1>5, <2>1, <2>2 DEF EntriesKept
  <1>6. elapsed'[queue'[n][1]] = elapsed[queue[m][1]] /\ elapsed[queue[m][1]] \in Nat
    <2>1. PICK u \in Resolvers, j \in D!Legs :
             queue[m] = <<u, j>> /\ queue'[n] = <<u, j>> /\ elapsed'[u] = elapsed[u]
      BY <1>1, <1>5
    <2>2. elapsed[u] \in 0 .. D!CollectionBudget
      BY DEF Budgeted
    <2>3. elapsed[u] \in Nat
      BY <2>2, BudgetIsNat, SMT
    <2> QED
      BY <2>1, <2>3
  <1>7. Ahead' + (n - 1) * Turn <= Ahead + (m - 1) * Turn
        /\ Ahead' + (n - 1) * Turn \in Int /\ Ahead + (m - 1) * Turn \in Int
    <2>1. Ahead \in Nat /\ Ahead' \in Nat /\ Turn \in Nat
      BY AheadFactsHold, TurnNumbers DEF AheadFacts
    <2>2. /\ (n - 1) * Turn \in Int /\ (m - 1) * Turn \in Int
          /\ (n - 1) * Turn <= (m - 1) * Turn
          /\ n + 1 <= m => (n - 1) * Turn + Turn <= (m - 1) * Turn
      <3>1. \A a, b, c \in Nat : a <= b => (a - 1) * c <= (b - 1) * c
        BY SMT
      <3>2. \A a, b, c \in Nat : a + 1 <= b => (a - 1) * c + c <= (b - 1) * c
        <4> SUFFICES ASSUME NEW a \in Nat, NEW b \in Nat, NEW c \in Nat, a + 1 <= b
                     PROVE  (a - 1) * c + c <= (b - 1) * c
          OBVIOUS
        <4>1. (a - 1) * c + c = a * c
          BY SMT
        <4>2. a * c <= (b - 1) * c
          BY SMT
        <4> QED
          BY <4>1, <4>2
      <3>3. \A a, c \in Nat : (a - 1) * c \in Int
        BY SMT
      <3> QED
        BY <1>1, <1>4, <2>1, <3>1, <3>2, <3>3
    <2> DEFINE x == (n - 1) * Turn  y == (m - 1) * Turn
    <2> HIDE DEF x, y
    <2>3. /\ x \in Int /\ y \in Int /\ x <= y /\ (n + 1 <= m => x + Turn <= y)
      BY <2>2 DEF x, y
    <2>4. ASSUME NEW a \in Nat, NEW b \in Nat, b <= a \/ (n + 1 <= m /\ b <= a + Turn)
          PROVE  b + x <= a + y /\ b + x \in Int /\ a + y \in Int
      BY <1>4, <2>1, <2>3, <2>4, SMT
    <2>5. Ahead' + x <= Ahead + y /\ Ahead' + x \in Int /\ Ahead + y \in Int
      BY <2>1, <2>4 DEF NoFarther
    <2> QED
      BY <2>5 DEF x, y
  <1>8. /\ WireLimit * elapsed'[queue'[n][1]] + Ahead' + (n - 1) * Turn <= StartLimit
        /\ WireLimit * Retry + Ahead' + (n - 1) * Turn <= StartLimit
    <2> DEFINE x == (n - 1) * Turn  y == (m - 1) * Turn
               e == WireLimit * elapsed[queue[m][1]]  r == WireLimit * Retry
    <2>1. e \in Int /\ r \in Int
      BY <1>6, TurnNumbers, SMT
    <2>2. e + Ahead + y <= StartLimit /\ r + Ahead + y <= StartLimit
      BY DEF InTime
    <2>3. Ahead \in Int /\ Ahead' \in Int /\ StartLimit \in Int /\ x \in Int /\ y \in Int
      <3>1. \A a, c \in Nat : (a - 1) * c \in Int
        BY SMT
      <3> QED
        BY <1>4, <3>1, AheadFactsHold, TurnNumbers, SMT DEF AheadFacts
    <2>4. Ahead' + x <= Ahead + y
      BY <1>7
    <2> SUFFICES e + Ahead' + x <= StartLimit /\ r + Ahead' + x <= StartLimit
      BY <1>6
    <2> HIDE DEF x, y, e, r
    <2>5. ASSUME NEW a \in Int, NEW b \in Int, NEW c \in Int, NEW u \in Int, NEW v \in Int,
                 NEW l \in Int, c + a + v <= l, b + u <= a + v
          PROVE  c + b + u <= l
      BY <2>5, SMT
    <2> QED
      BY <2>1, <2>2, <2>3, <2>4, <2>5
  <1>9. ASSUME NEW a \in 1 .. n
        PROVE  \/ legs'[queue'[a][1]][queue'[a][2]].wait = 0
               \/ legs'[queue'[a][1]][queue'[a][2]].wait + elapsed'[queue'[n][1]] <= Retry
    <2>1. PICK b \in 1 .. m : queue'[a] = queue[b]
      BY <1>1
    <2>2. PICK u \in Resolvers, j \in D!Legs :
             /\ queue[b] = <<u, j>> /\ queue'[a] = <<u, j>>
             /\ legs'[u][j].wait = legs[u][j].wait
      BY <1>4, <1>5, <2>1
    <2>3. legs[u][j].wait = 0 \/ legs[u][j].wait + elapsed[queue[m][1]] <= Retry
      BY <2>1, <2>2 DEF InTime
    <2> QED
      BY <1>6, <2>2, <2>3
  <1> QED
    BY <1>8, <1>9 DEF InTime

\* So all entries are in time after a step if those that have not started come from
\* such an entry or are in time themselves.
LEMMA StartsStay ==
    ASSUME DnsInv, DnsInv', Paced, Paced', Budgeted, StartsInTime, EntriesKept,
           \A n \in DOMAIN queue' :
              \/ legs'[queue'[n][1]][queue'[n][2]].started
              \/ InTime(n)'
              \/ \E m \in DOMAIN queue : CameFrom(n, m) /\ NoFarther(n, m)
    PROVE  StartsInTime'
  <1> SUFFICES ASSUME NEW n \in DOMAIN queue', ~legs'[queue'[n][1]][queue'[n][2]].started
               PROVE  InTime(n)'
    BY DEF StartsInTime
  <1> SUFFICES ASSUME NEW m \in DOMAIN queue, CameFrom(n, m), NoFarther(n, m) PROVE InTime(n)'
    OBVIOUS
  <1>1. queue \in Seq(Resolvers \X D!Legs)
    BY DEF DnsInv, DnsTypes
  <1>2. PICK u \in Resolvers, j \in D!Legs : queue[m] = <<u, j>> /\ Queued(u, j)
    BY <1>1, EntryIs
  <1>3. queue'[n] = <<u, j>> /\ Queued(u, j)'
    BY <1>2 DEF CameFrom, Queued
  <1>4. ~legs[u][j].started
    BY <1>2, <1>3 DEF EntriesKept
  <1>5. InTime(m)
    BY <1>2, <1>4 DEF StartsInTime
  <1> QED
    BY <1>5, StillInTime

\* What is ahead of the first grows with no step that neither admits a leg nor frees a
\* place, nor with one that frees a place.
LEMMA AheadStays ==
    ASSUME DnsInv, DnsInv', Paced, Paced', UNCHANGED pause,
           HeadReady' /\ wire' < WireLimit => HeadReady,
           \/ Cardinality(Tokens') <= Cardinality(Tokens) /\ wire' = wire
           \/ Cardinality(Tokens') + 1 <= Cardinality(Tokens) /\ wire' = wire - 1
    PROVE  Ahead' <= Ahead
  <1> DEFINE p == WireLimit * pause
  <1>1. /\ p \in Nat /\ Ahead = Cardinality(Tokens) + p + Slack
        /\ Ahead' = Cardinality(Tokens') + p + Slack'
        /\ Cardinality(Tokens) \in Nat /\ Cardinality(Tokens') \in Nat
        /\ wire \in 0 .. WireLimit
    BY AheadFactsHold DEF AheadFacts
  <1>2. /\ Slack = IF HeadReady THEN WireLimit - wire ELSE 0
        /\ Slack' = IF HeadReady' THEN WireLimit - wire' ELSE 0
    BY DEF Slack
  <1> HIDE DEF p
  <1> QED
    BY <1>1, <1>2, TurnNumbers, SMT

\* It grows by one turn at most when the first leaves.
LEMMA AheadMoves ==
    ASSUME DnsInv, DnsInv', Paced, Paced',
           \/ Cardinality(Tokens') <= Cardinality(Tokens) /\ UNCHANGED pause
           \/ /\ Cardinality(Tokens') <= Cardinality(Tokens) + QueryBudget + 1
              /\ pause = 0 /\ pause' = Pace
    PROVE  Ahead' <= Ahead + Turn
  <1> DEFINE p == WireLimit * pause  q == WireLimit * pause'  s == WireLimit * Pace
  <1>1. /\ p \in Nat /\ Ahead = Cardinality(Tokens) + p + Slack
        /\ q \in Nat /\ q <= s /\ Ahead' = Cardinality(Tokens') + q + Slack'
        /\ Cardinality(Tokens) \in Nat /\ Cardinality(Tokens') \in Nat
        /\ wire \in 0 .. WireLimit /\ wire' \in 0 .. WireLimit
        /\ Slack \in 0 .. WireLimit - wire /\ Slack' \in 0 .. WireLimit - wire'
    BY AheadFactsHold DEF AheadFacts
  <1>2. pause' = pause => q = p
    OBVIOUS
  <1>3. /\ Turn = QueryBudget + 1 + s + WireLimit /\ s \in Nat
        /\ QueryBudget \in Nat /\ WireLimit \in Nat
    BY TurnNumbers
  <1> DEFINE k == Cardinality(Tokens)  l == Cardinality(Tokens')
  <1>4. (l <= k /\ q = p) \/ l <= k + QueryBudget + 1
    BY <1>2
  <1>5. k \in Nat /\ l \in Nat /\ Ahead = k + p + Slack /\ Ahead' = l + q + Slack'
    BY <1>1
  <1>6. Slack \in Nat /\ Slack' \in Nat /\ Slack' <= WireLimit
    <2>1. \A w \in 0 .. WireLimit : \A a \in 0 .. WireLimit - w : a \in Nat /\ a <= WireLimit
      BY <1>3, SMT
    <2> QED
      BY <1>1, <2>1
  <1> HIDE DEF p, q, s, k, l
  <1>7. ASSUME NEW a \in Nat, NEW b \in Nat, b <= WireLimit
        PROVE  l + q + b <= k + p + a + Turn
    BY <1>1, <1>3, <1>4, <1>5, <1>7, SMT
  <1> QED
    BY <1>5, <1>6, <1>7

\* No lookup but the one that steps moves.
OthersStay(t) == \A u \in Resolvers : u # t => lookup'[u] = lookup[u]

\* A leg of the lookup that is ready at the head of the queue had been looked at before.
LooksAgain(t) ==
    \A j \in D!Legs :
       /\ Queued(t, j) /\ Queued(t, j)' /\ Looked(t, j)'
       /\ HeadReady' /\ queue'[1] = <<t, j>> /\ wire' < WireLimit
       => Looked(t, j)

\* The first in the queue was ready before, if its lookup had looked at it before.
LEMMA ReadyStays ==
    ASSUME DnsInv, HeadKept, EntriesKept, UNCHANGED pause, NEW t \in Resolvers, OthersStay(t),
           queue' \in Seq(Resolvers \X D!Legs),
           LooksAgain(t)
    PROVE  HeadReady' /\ wire' < WireLimit => HeadReady
  <1> SUFFICES ASSUME HeadReady', wire' < WireLimit PROVE HeadReady
    OBVIOUS
  <1>1. queue \in Seq(Resolvers \X D!Legs) /\ 1 \in DOMAIN queue /\ 1 \in DOMAIN queue'
    <2>1. queue \in Seq(Resolvers \X D!Legs) /\ queue # <<>> /\ queue' # <<>>
      BY DEF DnsInv, DnsTypes, HeadKept
    <2>2. \A s \in Seq(Resolvers \X D!Legs) : s # <<>> => 1 \in DOMAIN s
      <3> SUFFICES ASSUME NEW s \in Seq(Resolvers \X D!Legs), s # <<>> PROVE 1 \in DOMAIN s
        OBVIOUS
      <3>1. Len(s) \in Nat /\ DOMAIN s = 1 .. Len(s) /\ Len(s) # 0
        BY EmptySeq, SMT
      <3> QED
        BY <3>1, SMT
    <2> QED
      BY <2>1, <2>2
  <1>2. PICK u \in Resolvers, j \in D!Legs : queue[1] = <<u, j>> /\ Queued(u, j)
    BY <1>1, EntryIs
  <1>3. queue'[1] = <<u, j>> /\ Queued(u, j)'
    BY <1>1, <1>2 DEF HeadKept, Queued
  <1>4. legs'[u][j].wait = legs[u][j].wait
    BY <1>2, <1>3 DEF EntriesKept
  <1>5. Looked(u, j)'
    BY <1>3 DEF HeadReady
  <1>6. CASE u = t
    <2>1. Looked(u, j)
      BY <1>2, <1>3, <1>5, <1>6 DEF LooksAgain
    <2> QED
      BY <1>2, <1>3, <1>4, <2>1 DEF HeadReady, HeadKept
  <1>7. CASE u # t
    <2>1. Looked(u, j)
      BY <1>5, <1>7 DEF OthersStay, Looked
    <2> QED
      BY <1>2, <1>3, <1>4, <2>1 DEF HeadReady, HeadKept
  <1> QED
    BY <1>6, <1>7

\* Leg i of lookup t becomes x.
LegBecomes(t, i, x) == legs' = [legs EXCEPT ![t] = [legs[t] EXCEPT ![i] = x]]

\* Then leg i is x, and the others are as before.
LEMMA LegIs ==
    ASSUME DnsInv, NEW t \in Resolvers, NEW i \in D!Legs, NEW x, LegBecomes(t, i, x)
    PROVE  /\ legs'[t][i] = x
           /\ \A u \in Resolvers, j \in D!Legs : u # t \/ j # i => legs'[u][j] = legs[u][j]
  <1>1. legs \in [Resolvers -> [D!Legs -> D!Leg]]
    BY DEF DnsInv, DnsTypes
  <1>2. legs' = [legs EXCEPT ![t] = [legs[t] EXCEPT ![i] = x]]
    BY DEF LegBecomes
  <1> QED
    BY <1>1, <1>2, Zenon

\* One leg changes: the others that stay in the queue are as before.
LEMMA OneEntry ==
    ASSUME DnsInv, NEW t \in Resolvers, NEW i \in D!Legs, NEW x \in D!Leg,
           LegBecomes(t, i, x),
           \A u \in Resolvers, j \in D!Legs :
              Queued(u, j) /\ Queued(u, j)' => elapsed'[u] = elapsed[u],
           Queued(t, i) /\ Queued(t, i)'
             => x.wait = legs[t][i].wait /\ x.started = legs[t][i].started
    PROVE  EntriesKept
  <1>1. legs'[t][i] = x
        /\ \A u \in Resolvers, j \in D!Legs : u # t \/ j # i => legs'[u][j] = legs[u][j]
    BY LegIs
  <1> QED
    BY <1>1 DEF EntriesKept

\* One leg changes: the tokens of the others stay.
LEMMA OneCalms ==
    ASSUME DnsInv, NEW t \in Resolvers, NEW i \in D!Legs, NEW x \in D!Leg,
           LegBecomes(t, i, x), OthersStay(t),
           NEW k \in D!Legs,
           NEW w \in {"idle", "enqueue", "pass", "queue", "begin", "settle", "sleep", "cleanup"},
           D!Goes(t, w, k), w = "begin" => k = i
    PROVE  /\ legs'[t][i] = x
           /\ \A u \in Resolvers, j \in D!Legs : u # t \/ j # i => LegCalms(u, j)
  <1>0. DnsTypes
    BY DEF DnsInv
  <1>1. legs'[t][i] = x
        /\ \A u \in Resolvers, j \in D!Legs : u # t \/ j # i => legs'[u][j] = legs[u][j]
    BY LegIs
  <1>2. ASSUME NEW u \in Resolvers, NEW j \in D!Legs, u # t \/ j # i,
               ~D!Waits(u, j)'
        PROVE  ~D!Waits(u, j)
    <2>1. legs'[u][j] = legs[u][j]
      BY <1>1, <1>2
    <2>2. CASE u # t
      BY <1>2, <2>1, <2>2 DEF D!Waits, OthersStay
    <2>3. CASE u = t /\ j # i
      <3> SUFFICES ASSUME legs[t][j].state = "queued" PROVE ~D!Waits(t, j)
        BY <2>3 DEF D!Waits
      <3>1. lookup'[t] = [at |-> "begin", leg |-> j]
        BY <1>2, <2>1, <2>3 DEF D!Waits
      <3>2. w = "begin" /\ k = j
        BY <1>0, <3>1, Moves
      <3> QED
        BY <2>3, <3>2
    <2> QED
      BY <1>2, <2>2, <2>3
  <1> QED
    BY <1>1, <1>2 DEF LegCalms

\* What is known before and after a step.
Steady == /\ DnsInv /\ DnsInv' /\ Paced /\ Paced' /\ Budgeted
          /\ Asked /\ Scoped' /\ StartsInTime

\* A step of a lookup that admits no leg: it changes one leg, which gives its place
\* back or leaves the wire alone, and every entry of the queue is one that was there,
\* a leg that has started, or is in time by itself.
LEMMA QuietStep ==
    ASSUME Steady, NEW t \in Resolvers, NEW i \in D!Legs, NEW x \in D!Leg, NEW k \in D!Legs,
           NEW w \in {"idle", "enqueue", "pass", "queue", "begin", "settle", "sleep", "cleanup"},
           D!Goes(t, w, k), w = "begin" => k = i,
           LegBecomes(t, i, x),
           UNCHANGED pause,
           LegCalms(t, i),
           \/ x.held = legs[t][i].held /\ wire' = wire
           \/ legs[t][i].held /\ ~x.held /\ wire' = wire - 1,
           EntriesKept,
           LooksAgain(t),
           \A n \in DOMAIN queue' : \/ Behind(n)
                                    \/ legs'[queue'[n][1]][queue'[n][2]].started
                                    \/ InTime(n)'
    PROVE  StartsInTime'
  <1>0. /\ DnsInv /\ DnsInv' /\ Paced /\ Paced' /\ Budgeted /\ StartsInTime /\ DnsTypes
        /\ queue' \in Seq(Resolvers \X D!Legs)
    BY DEF Steady, DnsInv, DnsTypes
  <1>1. OthersStay(t)
    BY <1>0, Moves DEF OthersStay
  <1>2. legs'[t][i] = x /\ \A u \in Resolvers, j \in D!Legs : u # t \/ j # i => LegCalms(u, j)
    BY <1>0, <1>1, OneCalms
  <1>3. \A u \in Resolvers, j \in D!Legs : LegCalms(u, j)
    BY <1>2
  <1>4. /\ Cardinality(Tokens') \in Nat /\ Cardinality(Tokens') <= Cardinality(Tokens)
        /\ legs[t][i].held /\ ~x.held => Cardinality(Tokens') + 1 <= Cardinality(Tokens)
    BY <1>2, <1>3, TokensStay, TokensLeave
  <1>5. HeadKept => Ahead' <= Ahead
    <2> SUFFICES ASSUME HeadKept PROVE Ahead' <= Ahead
      OBVIOUS
    <2>1. HeadReady' /\ wire' < WireLimit => HeadReady
      BY <1>0, <1>1, ReadyStays
    <2> QED
      BY <1>0, <1>4, <2>1, AheadStays
  <1>6. Ahead' <= Ahead + Turn
    BY <1>0, <1>4, AheadMoves
  <1>7. ASSUME NEW n \in DOMAIN queue', Behind(n)
        PROVE  \E m \in DOMAIN queue : CameFrom(n, m) /\ NoFarther(n, m)
    BY <1>5, <1>6, <1>7 DEF Behind, NoFarther
  <1> QED
    BY <1>0, <1>7, StartsStay

\* Where a lookup goes after a leg: it has looked at no leg behind that one.
LEMMA NextLegTo ==
    ASSUME DnsInv, NEW t \in Resolvers, NEW p, D!NextLeg(t, p)
    PROVE  \E w \in {"queue", "sleep", "cleanup"}, k \in D!Legs :
              /\ D!Goes(t, w, k) /\ (w = "cleanup" => k = 1)
              /\ \A j \in D!Legs : w = "sleep" \/ (w = "queue" /\ j < k) => j <= lookup[t].leg
              /\ w = "queue" => k = lookup[t].leg + 1
              /\ w = "sleep" => lookup[t].leg = Servers
  <1>1. lookup[t].leg \in D!Legs
    BY ThisLegFacts
  <1>2. CASE lookup[t].leg < Servers
    <2>1. lookup[t].leg + 1 \in D!Legs /\ lookup[t].leg # Servers
      BY <1>1, <1>2, LegNumbers, DnsAssumption, SMT
    <2>2. D!Goes(t, "queue", lookup[t].leg + 1)
      BY <1>2, <2>1 DEF D!NextLeg
    <2>3. \A j \in D!Legs : j < lookup[t].leg + 1 => j <= lookup[t].leg
      BY <1>1, LegNumbers, SMT
    <2> QED
      BY <2>1, <2>2, <2>3
  <1>3. CASE ~(lookup[t].leg < Servers)
    <2>1. lookup[t].leg = Servers /\ \A j \in D!Legs : j <= lookup[t].leg
      BY <1>1, <1>3, LegNumbers, DnsAssumption, SMT
    <2>2. D!Goes(t, "sleep", 1) \/ D!Goes(t, "cleanup", 1)
      BY <1>3 DEF D!NextLeg
    <2> QED
      BY <2>1, <2>2, LegNumbers
  <1> QED
    BY <1>2, <1>3

\* After it, no other leg has been looked at that had not been before.
LEMMA LooksOn ==
    ASSUME DnsInv, NEW t \in Resolvers, lookup[t].at \in {"queue", "settle"},
           NEW w \in {"queue", "sleep", "cleanup"}, NEW k \in D!Legs, D!Goes(t, w, k),
           \A j \in D!Legs : w = "sleep" \/ (w = "queue" /\ j < k) => j <= lookup[t].leg,
           NEW j \in D!Legs, Looked(t, j)'
    PROVE  lookup[t].at = "settle" \/ j # lookup[t].leg => Looked(t, j)
  <1>1. lookup'[t].at = w /\ lookup'[t].leg = k
    BY Moves DEF DnsInv
  <1>2. j <= lookup[t].leg
    BY <1>1 DEF Looked
  <1>3. lookup[t].leg \in D!Legs
    BY ThisLegFacts
  <1>4. j # lookup[t].leg => j < lookup[t].leg
    BY <1>2, <1>3, LegNumbers, SMT
  <1> QED
    BY <1>2, <1>4 DEF Looked

\* A leg that stays as it is.
LEMMA SameLeg ==
    ASSUME DnsInv, NEW t \in Resolvers, NEW i \in D!Legs, UNCHANGED legs
    PROVE  /\ legs[t][i] \in D!Leg
           /\ LegBecomes(t, i, legs[t][i])
  BY DEF DnsInv, DnsTypes, LegBecomes

\* A queue that stays has nobody new.
LEMMA SameOrder ==
    ASSUME DnsInv, UNCHANGED queue
    PROVE  \A n \in DOMAIN queue' : Behind(n)
  <1>1. queue \in Seq(Resolvers \X D!Legs)
    BY DEF DnsInv, DnsTypes
  <1>2. \A n \in DOMAIN queue' : n \in DOMAIN queue /\ queue # <<>>
    BY <1>1, QueuePlaces
  <1> QED
    BY <1>1, <1>2, OrderStays DEF Behind

\* A leg that stays as it is keeps its tokens, if it is not on its way to be asked.
LEMMA SameTokens ==
    ASSUME DnsInv, NEW t \in Resolvers, NEW i \in D!Legs, legs'[t][i] = legs[t][i],
           lookup'[t].at # "begin"
    PROVE  LegCalms(t, i)
  <1>1. lookup'[t] # [at |-> "begin", leg |-> i]
    <2>1. [at |-> "begin", leg |-> i].at = "begin"
      OBVIOUS
    <2> QED
      BY <2>1
  <1> QED
    BY <1>1 DEF LegCalms, D!Waits

\* A lookup that starts, gives up, or begins a pass, is at no leg yet.
LEMMA StartsWander ==
    ASSUME Steady, NEW t \in Resolvers,
           D!StartLookup(t) \/ D!NotConfigured(t) \/ D!Pass(t)
    PROVE  StartsInTime'
  <1> PICK i \in D!Legs : i = lookup[t].leg
    BY ThisLegFacts DEF Steady
  <1>0. DnsInv /\ i \in D!Legs /\ 1 \in D!Legs
    BY ThisLegFacts, LegNumbers DEF Steady
  <1>1. /\ UNCHANGED <<legs, queue, wire, pause>>
        /\ \E w \in {"enqueue", "cleanup", "queue"} : D!Goes(t, w, 1)
    BY DEF D!StartLookup, D!NotConfigured, D!Pass
  <1>2. PICK w \in {"enqueue", "cleanup", "queue"} : D!Goes(t, w, 1)
    BY <1>1
  <1>3. lookup'[t].at = w /\ lookup'[t].leg = 1
    BY <1>0, <1>2, Moves DEF DnsInv
  <1>4. PICK x \in D!Leg : x = legs[t][i] /\ LegBecomes(t, i, x)
    BY <1>0, <1>1, SameLeg
  <1>5. LegCalms(t, i)
    BY <1>0, <1>1, <1>3, SameTokens
  <1>6. EntriesKept
    <2>1. CASE UNCHANGED elapsed
      BY <1>1, <2>1 DEF EntriesKept
    <2>2. CASE D!StartLookup(t)
      <3>1. lookup[t].at = "idle" /\ elapsed' = [elapsed EXCEPT ![t] = 0]
        BY <2>2 DEF D!StartLookup, D!At
      <3>2. \A u \in Resolvers : u # t => elapsed'[u] = elapsed[u]
        BY <3>1 DEF Steady, Budgeted
      <3>3. \A j \in D!Legs : ~Queued(t, j)
        BY <1>0, <3>1, ThisLegFacts DEF ThreadOK, Gone, D!Waits
      <3> QED
        BY <1>1, <3>2, <3>3 DEF EntriesKept
    <2> QED
      BY <2>1, <2>2 DEF D!NotConfigured, D!Pass
  <1>7. LooksAgain(t)
    <2>1. \A j \in D!Legs : ~(j < 1)
      BY LegNumbers, SMT
    <2>2. \A j \in D!Legs : ~Looked(t, j)'
      BY <1>3, <2>1 DEF Looked
    <2> QED
      BY <2>2 DEF LooksAgain
  <1>8. \A n \in DOMAIN queue' : Behind(n)
    BY <1>0, <1>1, SameOrder
  <1> QED
    BY <1>0, <1>1, <1>2, <1>4, <1>5, <1>6, <1>7, <1>8, QuietStep

\* The first of a queue.
LEMMA FirstIsHead ==
    ASSUME queue \in Seq(Resolvers \X D!Legs), queue # <<>>
    PROVE  Head(queue) = queue[1]
  <1>1. Len(queue) \in Nat /\ Len(queue) # 0
    BY EmptySeq, SMT
  <1> QED
    BY <1>1, SMT

\* A leg that is passed over could not be admitted, or is not the first.
LEMMA StartsSkip == ASSUME Steady, NEW t \in Resolvers, D!Skip(t) PROVE StartsInTime'
  <1> PICK i \in D!Legs : i = lookup[t].leg
    BY ThisLegFacts DEF Steady
  <1>0. DnsInv /\ i \in D!Legs /\ ThreadOK(t)
    BY ThisLegFacts DEF Steady
  <1>1. lookup[t].at = "queue" /\ UNCHANGED <<legs, queue, wire, pause, elapsed>>
    BY DEF D!Skip, D!At
  <1>2. \E p \in BOOLEAN : D!NextLeg(t, p)
    BY DEF D!Skip, D!Pending
  <1>3. PICK w \in {"queue", "sleep", "cleanup"}, k \in D!Legs :
           /\ D!Goes(t, w, k)
           /\ \A j \in D!Legs : w = "sleep" \/ (w = "queue" /\ j < k) => j <= lookup[t].leg
    BY <1>0, <1>2, NextLegTo
  <1>4. lookup'[t].at = w
    BY <1>0, <1>3, Moves DEF DnsInv
  <1>5. PICK x \in D!Leg : x = legs[t][i] /\ LegBecomes(t, i, x) /\ LegCalms(t, i)
    BY <1>0, <1>1, <1>4, SameLeg, SameTokens
  <1>6. EntriesKept /\ \A n \in DOMAIN queue' : Behind(n)
    BY <1>0, <1>1, SameOrder DEF EntriesKept
  <1>7. LooksAgain(t)
    <2> SUFFICES ASSUME NEW j \in D!Legs, Queued(t, j), Looked(t, j)', HeadReady',
                        queue'[1] = <<t, j>>, wire' < WireLimit
                 PROVE  Looked(t, j)
      BY DEF LooksAgain
    <2>1. CASE j # i
      BY <1>0, <1>1, <1>3, <2>1, LooksOn
    <2>2. CASE j = i
      <3>1. legs[t][i].state = "queued"
        BY <1>0, <2>2 DEF ThreadOK, D!Waits
      <3>2. legs[t][i].wait = 0 /\ pause = 0 /\ queue # <<>> /\ wire < WireLimit
        BY <1>1, <2>2 DEF HeadReady
      <3>3. Head(queue) = <<t, i>>
        <4>1. Head(queue) = queue[1]
          BY <1>0, <3>2, FirstIsHead DEF DnsInv, DnsTypes
        <4> QED
          BY <1>1, <2>2, <4>1
      <3>4. D!Ready(t) /\ D!Admissible(t)
        BY <3>1, <3>2, <3>3 DEF D!Skip, D!Ready, D!Admissible, D!ThisLeg
      <3>5. legs[t][i].state # "active" /\ ~(D!Ready(t) /\ D!Admissible(t))
        BY <3>1, SMTT(60) DEF D!Skip, D!ThisLeg
      <3> QED
        BY <3>4, <3>5
    <2> QED
      BY <2>1, <2>2
  <1> QED
    BY <1>0, <1>1, <1>3, <1>5, <1>6, <1>7, QuietStep

\* A leg whose budget is used up leaves the queue.
LEMMA StartsExpire == ASSUME Steady, NEW t \in Resolvers, D!Expire(t) PROVE StartsInTime'
  <1> PICK i \in D!Legs : i = lookup[t].leg
    BY ThisLegFacts DEF Steady
  <1>0. DnsInv /\ i \in D!Legs /\ ThreadOK(t) /\ legs[t][i] \in D!Leg
    BY ThisLegFacts DEF Steady
  <1>1. /\ lookup[t].at = "queue" /\ UNCHANGED <<wire, pause, elapsed>>
        /\ legs[t][i].state = "queued" /\ queue' = D!Without(t, i)
    BY DEF D!Expire, D!At, D!ThisLeg
  <1>2. PICK x \in D!Leg : x.held = legs[t][i].held /\ x.state = "failed" /\ LegBecomes(t, i, x)
    <2> DEFINE y == [legs[t][i] EXCEPT !.state = "failed"]
    <2>1. y \in D!Leg /\ y.held = legs[t][i].held /\ y.state = "failed"
      BY <1>0, Zenon DEF D!Leg
    <2>2. LegBecomes(t, i, y)
      BY DEF D!Expire, LegBecomes
    <2> HIDE DEF y
    <2> QED
      BY <2>1, <2>2
  <1>3. \E p \in BOOLEAN : D!NextLeg(t, p)
    BY DEF D!Expire
  <1>4. PICK w \in {"queue", "sleep", "cleanup"}, k \in D!Legs :
           /\ D!Goes(t, w, k)
           /\ \A j \in D!Legs : w = "sleep" \/ (w = "queue" /\ j < k) => j <= lookup[t].leg
    BY <1>0, <1>3, NextLegTo
  <1>5. ~Queued(t, i)' /\ \A n \in DOMAIN queue' : Behind(n)
    BY <1>0, <1>1, QueueSteps, OrderWithout DEF DnsInv
  <1>6. EntriesKept
    BY <1>0, <1>1, <1>2, <1>5, OneEntry
  <1>7. LegCalms(t, i)
    <2>1. ~legs[t][i].held
      BY <1>0, <1>1 DEF ThreadOK
    <2>2. legs'[t][i] = x
      BY <1>0, <1>2, LegIs
    <2> QED
      BY <1>2, <2>1, <2>2 DEF LegCalms
  <1>8. LooksAgain(t)
    <2> SUFFICES ASSUME NEW j \in D!Legs, Queued(t, j)', Looked(t, j)' PROVE Looked(t, j)
      BY DEF LooksAgain
    <2>1. j # i
      BY <1>5, SMTT(60)
    <2> QED
      BY <1>0, <1>1, <1>4, <2>1, LooksOn
  <1> QED
    BY <1>0, <1>1, <1>2, <1>4, <1>5, <1>6, <1>7, <1>8, QuietStep, Zenon

\* A leg that is on its way gets its answer, or another chance behind everybody else.
LEMMA StartsBegin == ASSUME Steady, NEW t \in Resolvers, D!BeginQuery(t) PROVE StartsInTime'
  <1> PICK i \in D!Legs : i = lookup[t].leg
    BY ThisLegFacts DEF Steady
  <1>0. DnsInv /\ i \in D!Legs /\ ThreadOK(t) /\ legs[t][i] \in D!Leg /\ LegAsked(t, i)
    BY ThisLegFacts DEF Steady, Asked
  <1>1. /\ lookup[t].at = "begin" /\ UNCHANGED <<wire, pause, elapsed>>
        /\ D!Goes(t, "settle", i)
    BY DEF D!BeginQuery, D!At
  <1>2. /\ legs[t][i].state = "queued" /\ legs[t][i].held /\ legs[t][i].started
        /\ lookup[t] = [at |-> "begin", leg |-> i]
    <2>1. lookup[t] = [at |-> "begin", leg |-> i]
      BY <1>1, ThisLegFacts, <1>0, WaitsMeans DEF AtBegin
    <2> QED
      BY <1>0, <1>1, <2>1 DEF ThreadOK, LegAsked
  <1>3. ~Queued(t, i) /\ ~D!Waits(t, i)
    BY <1>0, <1>2 DEF ThreadOK, D!Waits
  <1>4. lookup'[t].at = "settle" /\ lookup'[t].leg = i
    BY <1>0, <1>1, Moves, SMTT(60) DEF DnsInv
  <1>5. \E y \in D!Leg : /\ y.held /\ y.started /\ y.age = legs[t][i].age /\ LegBecomes(t, i, y)
                         /\ UNCHANGED queue \/ queue' = Append(queue, <<t, i>>)
    <2>1. CASE \E s \in {"active", "failed"} :
                  legs' = [legs EXCEPT ![t][i].state = s] /\ UNCHANGED queue
      <3>1. PICK s \in {"active", "failed"} :
               legs' = [legs EXCEPT ![t][i].state = s] /\ UNCHANGED queue
        BY <2>1
      <3> DEFINE y == [legs[t][i] EXCEPT !.state = s]
      <3>2. y \in D!Leg /\ y.held /\ y.started /\ y.age = legs[t][i].age
        BY <1>0, <1>2, Zenon DEF D!Leg
      <3>3. LegBecomes(t, i, y)
        BY <3>1 DEF LegBecomes
      <3> HIDE DEF y
      <3> QED
        BY <3>1, <3>2, <3>3
    <2>2. CASE legs' = [legs EXCEPT ![t][i].wait = Retry] /\ queue' = Append(queue, <<t, i>>)
      <3> DEFINE y == [legs[t][i] EXCEPT !.wait = Retry]
      <3>2. y \in D!Leg /\ y.held /\ y.started /\ y.age = legs[t][i].age
        <4>1. Retry \in 0 .. Retry
          BY TurnNumbers, SMT
        <4> QED
          BY <1>0, <1>2, <4>1, Zenon DEF D!Leg
      <3>3. LegBecomes(t, i, y)
        BY <2>2 DEF LegBecomes
      <3> HIDE DEF y
      <3> QED
        BY <2>2, <3>2, <3>3
    <2> QED
      BY <2>1, <2>2 DEF D!BeginQuery
  <1>6. PICK y \in D!Leg : /\ y.held /\ y.started /\ y.age = legs[t][i].age /\ LegBecomes(t, i, y)
                           /\ UNCHANGED queue \/ queue' = Append(queue, <<t, i>>)
    BY <1>5
  <1>7. legs'[t][i] = y
    BY <1>0, <1>6, LegIs
  <1>8. EntriesKept
    BY <1>0, <1>1, <1>3, <1>6, OneEntry
  <1>9. LegCalms(t, i)
    BY <1>2, <1>3, <1>6, <1>7 DEF LegCalms
  <1>10. LooksAgain(t)
    <2> SUFFICES ASSUME NEW j \in D!Legs, Queued(t, j), Looked(t, j)' PROVE Looked(t, j)
      BY DEF LooksAgain
    <2>1. j # i /\ j <= i
      BY <1>3, <1>4 DEF Looked
    <2>2. j < i
      BY <1>0, <2>1, LegNumbers, SMT
    <2> QED
      BY <1>1, <2>2 DEF Looked
  <1>11. \A n \in DOMAIN queue' : Behind(n) \/ legs'[queue'[n][1]][queue'[n][2]].started
    <2>1. CASE UNCHANGED queue
      BY <1>0, <2>1, SameOrder
    <2>2. CASE queue' = Append(queue, <<t, i>>)
      <3>1. queue \in Seq(Resolvers \X D!Legs) /\ <<t, i>> \in Resolvers \X D!Legs
        BY <1>0 DEF DnsInv, DnsTypes
      <3>2. ASSUME NEW n \in DOMAIN queue', CameFrom(n, n) PROVE Behind(n)
        <4>1. n \in DOMAIN queue
          BY <3>2 DEF CameFrom
        <4>2. HeadKept
          BY <2>2, <3>1, <4>1, QueuePlaces, OrderJoined
        <4> QED
          BY <3>2, <4>1, <4>2 DEF Behind
      <3> QED
        BY <1>6, <1>7, <2>2, <3>1, <3>2, OrderJoined
    <2> QED
      BY <1>6, <2>1, <2>2
  <1>12. y.held = legs[t][i].held
    BY <1>0, <1>2, <1>6, SMTT(60) DEF D!Leg
  <1> QED
    BY <1>0, <1>1, <1>6, <1>8, <1>9, <1>10, <1>11, <1>12, QuietStep

\* A leg that was polled, or settles, may give its place back.
LEMMA StartsSettle == ASSUME Steady, NEW t \in Resolvers, D!Settle(t) PROVE StartsInTime'
  <1> PICK i \in D!Legs : i = lookup[t].leg
    BY ThisLegFacts DEF Steady
  <1>0. DnsInv /\ i \in D!Legs /\ ThreadOK(t) /\ legs[t][i] \in D!Leg
    BY ThisLegFacts DEF Steady
  <1>1. /\ lookup[t].at = "settle" \/ (lookup[t].at = "queue" /\ legs[t][i].state = "active")
        /\ UNCHANGED <<queue, pause, elapsed>>
    BY SMTT(60) DEF D!Settle, D!At, D!ThisLeg
  <1>2. PICK s \in D!Polled(legs[t][i]) :
           LET frees == legs[t][i].held /\ s # "active" IN
           /\ legs' = [legs EXCEPT ![t][i].state = s, ![t][i].held = @ /\ ~frees]
           /\ wire' = IF frees THEN wire - 1 ELSE wire
           /\ \E p \in BOOLEAN : D!NextLeg(t, p)
    BY Zenon DEF D!Settle, D!ThisLeg
  <1>3. /\ s \in {"none", "queued", "active", "success", "failed"}
        /\ s = "active" => legs[t][i].state = "active"
        /\ s = "queued" => legs[t][i].state = "queued"
    BY <1>0, ThisLegFacts DEF D!Polled
  <1>4. \E x \in D!Leg : /\ x.state = s /\ x.held = (legs[t][i].held /\ s = "active")
                         /\ x.started = legs[t][i].started
                         /\ x.wait = legs[t][i].wait /\ x.age = legs[t][i].age
                         /\ LegBecomes(t, i, x)
    <2> DEFINE frees == legs[t][i].held /\ s # "active"
               y == [legs[t][i] EXCEPT !.state = s, !.held = legs[t][i].held /\ ~frees]
    <2>1. legs[t][i].held \in BOOLEAN
      BY <1>0, ThisLegFacts
    <2>2. y \in D!Leg /\ y.state = s /\ y.held = (legs[t][i].held /\ s = "active")
          /\ y.started = legs[t][i].started /\ y.wait = legs[t][i].wait /\ y.age = legs[t][i].age
      BY <1>0, <1>3, <2>1, Zenon DEF D!Leg
    <2>3. LegBecomes(t, i, y)
      BY <1>0, <1>2, ZenonT(60) DEF LegBecomes, DnsInv, DnsTypes
    <2> HIDE DEF y
    <2> QED
      BY <2>2, <2>3
  <1>5. PICK x \in D!Leg : /\ x.state = s /\ x.held = (legs[t][i].held /\ s = "active")
                           /\ x.started = legs[t][i].started
                           /\ x.wait = legs[t][i].wait /\ x.age = legs[t][i].age
                           /\ LegBecomes(t, i, x)
    BY <1>4
  <1>6. legs'[t][i] = x
    BY <1>0, <1>5, LegIs
  <1>7. PICK w \in {"queue", "sleep", "cleanup"}, k \in D!Legs :
           /\ D!Goes(t, w, k)
           /\ \A j \in D!Legs : w = "sleep" \/ (w = "queue" /\ j < k) => j <= lookup[t].leg
    BY <1>0, <1>2, NextLegTo
  <1>8. EntriesKept
    BY <1>0, <1>1, <1>5, OneEntry
  <1>9. LegCalms(t, i)
    <2> SUFFICES ASSUME x.held
                 PROVE  legs[t][i].held /\ (~D!Waits(t, i)' => ~D!Waits(t, i)
                                               /\ legs'[t][i].age = legs[t][i].age)
      BY <1>6 DEF LegCalms
    <2>1. legs[t][i].held /\ s = "active" /\ legs[t][i].state = "active"
      BY <1>3, <1>5
    <2> QED
      BY <1>5, <1>6, <2>1 DEF D!Waits
  <1>10. LooksAgain(t)
    <2> SUFFICES ASSUME NEW j \in D!Legs, Queued(t, j), Looked(t, j)' PROVE Looked(t, j)
      BY DEF LooksAgain
    <2>1. lookup[t].at = "settle" \/ j # i
      <3>1. legs[t][j].state = "queued"
        BY <1>0 DEF ThreadOK, D!Waits
      <3> QED
        BY <1>1, <3>1
    <2> QED
      BY <1>0, <1>1, <1>7, <2>1, LooksOn
  <1>11. \A n \in DOMAIN queue' : Behind(n)
    BY <1>0, <1>1, SameOrder
  <1>12. \/ x.held = legs[t][i].held /\ wire' = wire
         \/ legs[t][i].held /\ ~x.held /\ wire' = wire - 1
    <2>1. legs[t][i].held \in BOOLEAN
      BY <1>0, ThisLegFacts
    <2> QED
      BY <1>2, <1>5, <2>1
  <1> QED
    BY <1>0, <1>1, <1>5, <1>7, <1>8, <1>9, <1>10, <1>11, <1>12, QuietStep, ZenonT(60)

\* After the loop the legs leave one after the other.
LEMMA StartsCleanup == ASSUME Steady, NEW t \in Resolvers, D!Cleanup(t) PROVE StartsInTime'
  <1> PICK i \in D!Legs : i = lookup[t].leg
    BY ThisLegFacts DEF Steady
  <1>0. DnsInv /\ ThreadOK(t) /\ legs[t][i] \in D!Leg /\ legs[t][i].held \in BOOLEAN
    BY ThisLegFacts DEF Steady
  <1>1. /\ lookup[t].at = "cleanup" /\ queue' = D!Without(t, i)
        /\ wire' = IF legs[t][i].held THEN wire - 1 ELSE wire
        /\ LegBecomes(t, i, D!NoLeg) /\ UNCHANGED pause
    BY DEF D!Cleanup, D!At, LegBecomes
  <1>2. PICK x \in D!Leg : x = D!NoLeg
    BY NoLegIsLeg
  <1>3. ~x.held /\ LegBecomes(t, i, x)
    BY <1>1, <1>2, NoLegIsLeg DEF Gone
  <1>4. legs'[t][i] = x
    BY <1>0, <1>3, LegIs
  <1>5. ~Queued(t, i)' /\ \A n \in DOMAIN queue' : Behind(n)
    BY <1>0, <1>1, QueueSteps, OrderWithout DEF DnsInv
  <1>6. PICK w \in {"cleanup", "idle"}, k \in D!Legs :
           D!Goes(t, w, k) /\ (w = "idle" => i = Servers)
                           /\ (w = "cleanup" => UNCHANGED elapsed)
    <2>1. i \in Nat /\ Servers \in Nat /\ i <= Servers
      BY LegNumbers, DnsAssumption, SMT
    <2>2. CASE i < Servers
      <3>1. i + 1 \in D!Legs
        BY <2>1, <2>2, LegNumbers, SMT
      <3> QED
        BY <2>2, <3>1 DEF D!Cleanup
    <2>3. CASE ~(i < Servers)
      <3>1. i = Servers
        BY <2>1, <2>3, SMT
      <3> QED
        BY <2>3, <3>1, LegNumbers DEF D!Cleanup
    <2> QED
      BY <2>2, <2>3
  <1>7. lookup'[t].at = w
    BY <1>0, <1>6, Moves DEF DnsInv
  <1>8. \A u \in Resolvers, j \in D!Legs :
           Queued(u, j) /\ Queued(u, j)' => elapsed'[u] = elapsed[u]
    <2>1. CASE w = "cleanup"
      BY <1>6, <2>1
    <2>2. CASE w = "idle"
      <3>1. ASSUME NEW j \in D!Legs, Queued(t, j)' PROVE FALSE
        <4>1. j # i
          BY <1>5, <3>1
        <4>2. j < i
          BY <1>6, <2>2, <4>1, LegNumbers, DnsAssumption, SMT
        <4>3. Gone(legs[t][j]) /\ legs'[t][j] = legs[t][j]
          BY <1>0, <1>1, <1>3, <4>1, <4>2, LegIs DEF ThreadOK
        <4>4. ThreadOK(t)'
          BY DEF Steady, DnsInv
        <4>5. legs'[t][j].state = "queued"
          BY <3>1, <4>4 DEF ThreadOK, D!Waits
        <4> QED
          BY <4>3, <4>5 DEF Gone
      <3>2. \A u \in Resolvers : u # t => elapsed'[u] = elapsed[u]
        <4>1. UNCHANGED elapsed \/ elapsed' = [elapsed EXCEPT ![t] = 0]
          BY DEF D!Cleanup
        <4> QED
          BY <4>1 DEF Steady, Budgeted
      <3> QED
        BY <3>1, <3>2
    <2> QED
      BY <2>1, <2>2
  <1>9. EntriesKept
    BY <1>0, <1>3, <1>5, <1>8, OneEntry
  <1>10. LegCalms(t, i)
    BY <1>3, <1>4 DEF LegCalms
  <1>11. LooksAgain(t)
    BY <1>7 DEF LooksAgain, Looked
  <1>12. \/ x.held = legs[t][i].held /\ wire' = wire
         \/ legs[t][i].held /\ ~x.held /\ wire' = wire - 1
    <2>1. x.held = FALSE
      BY <1>2, Zenon DEF D!NoLeg
    <2> QED
      BY <1>0, <1>1, <2>1, Zenon
  <1> QED
    BY <1>0, <1>1, <1>3, <1>5, <1>6, <1>9, <1>10, <1>11, <1>12, QuietStep, Zenon

\* A leg that joins the queue is in time, since all that can be ahead of it fits.
LEMMA StartsEnqueue == ASSUME Steady, NEW t \in Resolvers, D!Enqueue(t) PROVE StartsInTime'
  <1> PICK i \in D!Legs : i = lookup[t].leg
    BY ThisLegFacts DEF Steady
  <1>0. DnsInv /\ ThreadOK(t) /\ legs[t][i] \in D!Leg /\ legs[t][i].held \in BOOLEAN
    BY ThisLegFacts DEF Steady
  <1>1. /\ lookup[t].at = "enqueue" /\ queue' = Append(queue, <<t, i>>)
        /\ LegBecomes(t, i, [D!NoLeg EXCEPT !.state = "queued"])
        /\ UNCHANGED <<wire, pause, elapsed>>
    BY DEF D!Enqueue, D!At, LegBecomes
  <1>2. \E x \in D!Leg : ~x.held /\ x.held = FALSE /\ LegBecomes(t, i, x)
    <2> DEFINE y == [D!NoLeg EXCEPT !.state = "queued"]
    <2>1. D!NoLeg \in D!Leg /\ D!NoLeg.held = FALSE
      BY NoLegIsLeg, Zenon DEF D!NoLeg
    <2>2. y \in D!Leg /\ y.held = FALSE
      BY <2>1, Zenon DEF D!Leg
    <2>3. LegBecomes(t, i, y)
      BY <1>1
    <2> HIDE DEF y
    <2> QED
      BY <2>2, <2>3
  <1>3. PICK x \in D!Leg : ~x.held /\ x.held = FALSE /\ LegBecomes(t, i, x)
    BY <1>2
  <1>4. legs'[t][i] = x
    BY <1>0, <1>3, LegIs
  <1>5. Gone(legs[t][i]) /\ elapsed[t] = 0
    <2>1. i >= lookup[t].leg
      BY LegNumbers, SMT
    <2> QED
      BY <1>0, <1>1, <2>1 DEF ThreadOK, Steady, Asked
  <1>6. ~Queued(t, i)
    BY <1>0, <1>5 DEF ThreadOK, Gone, D!Waits
  <1>7. PICK w \in {"enqueue", "pass"}, k \in D!Legs : D!Goes(t, w, k)
    <2>1. CASE i < Servers
      <3>1. i + 1 \in D!Legs
        BY <2>1, LegNumbers, DnsAssumption, SMT
      <3> QED
        BY <2>1, <3>1 DEF D!Enqueue
    <2>2. CASE ~(i < Servers)
      BY <2>2, LegNumbers DEF D!Enqueue
    <2> QED
      BY <2>1, <2>2
  <1>8. lookup'[t].at = w
    BY <1>0, <1>7, Moves DEF DnsInv
  <1>9. EntriesKept
    BY <1>0, <1>1, <1>3, <1>6, OneEntry
  <1>10. LegCalms(t, i)
    BY <1>3, <1>4 DEF LegCalms
  <1>11. LooksAgain(t)
    BY <1>8 DEF LooksAgain, Looked
  <1>12. x.held = legs[t][i].held /\ wire' = wire
    BY <1>0, <1>1, <1>3, <1>5 DEF Gone
  <1>13. \A n \in DOMAIN queue' : Behind(n) \/ InTime(n)'
    <2>1. queue \in Seq(Resolvers \X D!Legs) /\ <<t, i>> \in Resolvers \X D!Legs
          /\ queue' \in Seq(Resolvers \X D!Legs)
      BY <1>0 DEF Steady, DnsInv, DnsTypes
    <2> SUFFICES ASSUME NEW n \in DOMAIN queue' PROVE Behind(n) \/ InTime(n)'
      OBVIOUS
    <2>2. CASE CameFrom(n, n)
      <3>1. n \in DOMAIN queue
        BY <2>2 DEF CameFrom
      <3>2. HeadKept
        BY <1>1, <2>1, <3>1, QueuePlaces, OrderJoined
      <3> QED
        BY <2>2, <3>1, <3>2 DEF Behind
    <2>3. CASE n = Len(queue') /\ queue'[n] = <<t, i>>
      <3>1. elapsed'[queue'[n][1]] = 0
        BY <1>1, <1>5, <2>3
      <3>2. WireLimit * 0 = 0 /\ WireLimit * Retry \in Nat
        BY TurnNumbers, SMT
      <3>3. WireLimit * Retry + Ahead' + (n - 1) * Turn <= StartLimit
        <4>1. queue' # <<>>
          BY <2>1, SMT
        <4> QED
          BY <2>3, <4>1, LastFits DEF Steady
      <3>4. 0 + Ahead' + (n - 1) * Turn <= StartLimit
        <4> DEFINE y == (n - 1) * Turn
        <4>1. y \in Int /\ StartLimit \in Int /\ Ahead' \in Nat
          <5>1. n \in Nat
            BY <2>1, <2>3, SMT
          <5>2. \A a, c \in Nat : (a - 1) * c \in Int
            BY SMT
          <5> QED
            BY <5>1, <5>2, TurnNumbers, AheadFactsHold DEF AheadFacts, Steady
        <4> HIDE DEF y
        <4>2. \A r, a \in Nat : r + a + y <= StartLimit => 0 + a + y <= StartLimit
          BY <4>1, SMT
        <4> QED
          BY <3>2, <3>3, <4>1, <4>2 DEF y
      <3>5. ASSUME NEW m \in 1 .. n
            PROVE  \/ legs'[queue'[m][1]][queue'[m][2]].wait = 0
                   \/ legs'[queue'[m][1]][queue'[m][2]].wait + elapsed'[queue'[n][1]] <= Retry
        <4>1. m \in DOMAIN queue'
          BY <2>1, <2>3, SMT
        <4>2. PICK u \in Resolvers, j \in D!Legs : queue'[m] = <<u, j>>
          BY <2>1, <4>1
        <4>3. legs'[u][j].wait \in 0 .. Retry
          <5>1. legs'[u][j] \in D!Leg
            BY DEF Steady, DnsInv, DnsTypes
          <5> QED
            BY <5>1, Zenon DEF D!Leg
        <4>4. legs'[u][j].wait + 0 <= Retry
          BY <4>3, TurnNumbers, SMT
        <4> QED
          BY <3>1, <4>2, <4>4
      <3> QED
        BY <3>1, <3>2, <3>3, <3>4, <3>5 DEF InTime
    <2> QED
      BY <1>1, <2>1, <2>2, <2>3, OrderJoined
  <1> QED
    BY <1>0, <1>1, <1>3, <1>7, <1>9, <1>10, <1>11, <1>12, <1>13, QuietStep, Zenon

\* The first leaves the queue for the wire: the others move up by one turn.
LEMMA StartsAdmit == ASSUME Steady, NEW t \in Resolvers, D!Admit(t) PROVE StartsInTime'
  <1> PICK i \in D!Legs : i = lookup[t].leg
    BY ThisLegFacts DEF Steady
  <1>0. /\ DnsInv /\ DnsInv' /\ Paced /\ Paced' /\ Budgeted /\ StartsInTime /\ DnsTypes
        /\ ThreadOK(t) /\ legs[t][i] \in D!Leg
        /\ queue \in Seq(Resolvers \X D!Legs)
    BY ThisLegFacts DEF Steady, DnsInv, DnsTypes
  <1>1. /\ lookup[t].at = "queue" /\ pause = 0 /\ pause' = Pace /\ UNCHANGED elapsed
        /\ queue # <<>> /\ queue' = Tail(queue) /\ Head(queue) = <<t, i>>
        /\ D!Goes(t, "begin", i)
    BY DEF D!Admit, D!At, D!Admissible
  <1>2. PICK x \in D!Leg : LegBecomes(t, i, x) /\ x.started
    <2> DEFINE y == [legs[t][i] EXCEPT !.held = TRUE, !.started = TRUE]
    <2>1. y \in D!Leg /\ y.started
      BY <1>0, Zenon DEF D!Leg
    <2>2. LegBecomes(t, i, y)
      <3>1. legs' = [legs EXCEPT ![t][i].held = TRUE, ![t][i].started = TRUE]
        BY DEF D!Admit
      <3> QED
        BY <1>0, <3>1 DEF LegBecomes, DnsTypes
    <2> HIDE DEF y
    <2> QED
      BY <2>1, <2>2
  <1>3. legs'[t][i] = x
    BY <1>0, <1>2, LegIs
  <1>4. OthersStay(t)
    BY <1>0, <1>1, Moves DEF OthersStay
  <1>5. \A u \in Resolvers, j \in D!Legs : u # t \/ j # i => LegCalms(u, j)
    BY <1>0, <1>1, <1>2, <1>4, OneCalms
  <1>6. Cardinality(Tokens') <= Cardinality(Tokens) + QueryBudget + 1
    BY <1>5, TokensCome
  <1>7. Ahead' <= Ahead + Turn
    BY <1>0, <1>1, <1>6, AheadMoves
  <1>8. \A u \in Resolvers, j \in D!Legs :
           Queued(u, j) /\ Queued(u, j)' /\ (u # t \/ j # i) => legs'[u][j] = legs[u][j]
    BY <1>0, <1>2, LegIs
  <1>9. ~Queued(t, i)'
    <2>1. ~D!Waits(t, i)'
      <3>1. lookup'[t] = [at |-> "begin", leg |-> i]
        BY <1>0, <1>1, Zenon DEF D!Goes, DnsTypes
      <3> QED
        BY <3>1 DEF D!Waits
    <2> QED
      BY <1>0, <2>1 DEF DnsInv, ThreadOK
  <1>10. EntriesKept
    BY <1>0, <1>1, <1>2, <1>9, OneEntry
  <1>11. ASSUME NEW n \in DOMAIN queue'
         PROVE  \E m \in DOMAIN queue : CameFrom(n, m) /\ NoFarther(n, m)
    BY <1>0, <1>1, <1>7, OrderFirst DEF NoFarther
  <1> QED
    BY <1>0, <1>10, <1>11, StartsStay

\* What a tick does to the lookups and to the legs.
LEMMA TickMoves ==
    ASSUME DnsInv, Budgeted, D!Tick
    PROVE  /\ \A u \in Resolvers : /\ lookup[u].at \in {"idle", "sleep"}
                                   /\ lookup'[u].at \in {"idle", "pass"}
                                   /\ lookup[u].at = "idle" => lookup'[u].at = "idle"
                                   /\ lookup[u].at = "sleep" => elapsed'[u] = elapsed[u] + 1
           /\ \A u \in Resolvers, j \in D!Legs :
                 /\ legs'[u][j].state = legs[u][j].state
                 /\ legs'[u][j].held = legs[u][j].held
                 /\ legs'[u][j].started = legs[u][j].started
                 /\ legs[u][j].wait \in Nat
                 /\ legs'[u][j].wait = IF legs[u][j].wait > 0 THEN legs[u][j].wait - 1 ELSE 0
           /\ UNCHANGED <<queue, wire>>
           /\ pause' = IF pause > 0 THEN pause - 1 ELSE 0
  <1>1. \A u \in Resolvers : lookup[u].at \in {"idle", "sleep"}
    BY DEF D!Tick, D!At
  <1>2. /\ elapsed' = [u \in Resolvers |-> IF lookup[u].at = "sleep" THEN elapsed[u] + 1 ELSE 0]
        /\ lookup' = [u \in Resolvers |-> IF lookup[u].at = "sleep"
                                           THEN [at |-> "pass", leg |-> 1] ELSE lookup[u]]
    BY DEF D!Tick, D!At
  <1>3. ASSUME NEW u \in Resolvers, NEW j \in D!Legs
        PROVE  /\ legs'[u][j].state = legs[u][j].state
               /\ legs'[u][j].held = legs[u][j].held
               /\ legs'[u][j].started = legs[u][j].started
               /\ legs[u][j].wait \in Nat
               /\ legs'[u][j].wait = IF legs[u][j].wait > 0 THEN legs[u][j].wait - 1 ELSE 0
    <2>1. legs'[u][j] = [legs[u][j] EXCEPT
                           !.age = IF legs[u][j].started /\ legs[u][j].age < QueryBudget
                                   THEN legs[u][j].age + 1 ELSE legs[u][j].age,
                           !.wait = IF legs[u][j].wait > 0 THEN legs[u][j].wait - 1 ELSE 0]
      BY Zenon DEF D!Tick
    <2>2. legs[u][j] \in D!Leg
      BY ThisLegFacts
    <2>3. legs[u][j].wait \in 0 .. Retry
      BY <2>2, Zenon DEF D!Leg
    <2>4. legs[u][j].wait \in Nat
      BY <2>3, TurnNumbers, SMT
    <2> QED
      BY <2>1, <2>2, <2>4 DEF D!Leg
  <1>4. UNCHANGED <<queue, wire>> /\ pause' = IF pause > 0 THEN pause - 1 ELSE 0
    BY DEF D!Tick
  <1> QED
    BY <1>1, <1>2, <1>3, <1>4

\* A tick serves what is ahead of the first: it takes a tick from every leg on the
\* wire, from the pause, or the wire was full.
LEMMA AheadTick ==
    ASSUME Steady, D!Tick
    PROVE  /\ Ahead' <= Ahead
           /\ pause > 0 => Ahead' + WireLimit <= Ahead
           /\ HeadReady => Ahead' + WireLimit <= Ahead
  <1>1. DnsInv /\ DnsInv' /\ Paced /\ Paced' /\ Budgeted /\ Asked
    BY DEF Steady
  <1>2. Slack' = 0
    <2> SUFFICES ASSUME HeadReady' PROVE FALSE
      BY DEF Slack
    <2>1. queue' \in Seq(Resolvers \X D!Legs) /\ queue' # <<>>
      BY <1>1 DEF HeadReady, DnsInv, DnsTypes
    <2>2. 1 \in DOMAIN queue'
      <3> SUFFICES \A s \in Seq(Resolvers \X D!Legs) : s # <<>> => 1 \in DOMAIN s
        BY <2>1
      <3> SUFFICES ASSUME NEW s \in Seq(Resolvers \X D!Legs), s # <<>> PROVE 1 \in DOMAIN s
        OBVIOUS
      <3>1. Len(s) \in Nat /\ DOMAIN s = 1 .. Len(s) /\ Len(s) # 0
        BY EmptySeq, SMT
      <3> QED
        BY <3>1, SMT
    <2>3. queue'[1][1] \in Resolvers
      BY <2>1, <2>2
    <2>4. lookup'[queue'[1][1]].at \in {"idle", "pass"}
      BY <1>1, <2>3, TickMoves
    <2> QED
      BY <2>4 DEF HeadReady, Looked
  <1>3. Cardinality(Tokens') \in Nat /\ Cardinality(Tokens') + wire <= Cardinality(Tokens)
    BY <1>1, TokensTick
  <1>4. /\ Slack \in 0 .. WireLimit - wire /\ wire \in 0 .. WireLimit
        /\ WireLimit * pause \in Nat
        /\ Ahead = Cardinality(Tokens) + WireLimit * pause + Slack
        /\ Ahead' = Cardinality(Tokens') + WireLimit * pause' + Slack'
        /\ Cardinality(Tokens) \in Nat /\ WireLimit * pause' \in Nat
    BY <1>1, AheadFactsHold DEF AheadFacts
  <1>5. /\ pause = 0 => WireLimit * pause' = 0 /\ WireLimit * pause = 0
        /\ pause > 0 => WireLimit * pause' + WireLimit = WireLimit * pause
        /\ pause = 0 \/ pause > 0
    <2>1. pause \in Nat /\ WireLimit \in Nat
      BY <1>1, TurnNumbers, SMT DEF Paced
    <2>2. pause' = IF pause > 0 THEN pause - 1 ELSE 0
      BY <1>1, TickMoves
    <2>3. \A w, p \in Nat : p > 0 => w * (p - 1) + w = w * p
      BY SMT
    <2>4. \A w \in Nat : w * 0 = 0
      BY SMT
    <2> QED
      BY <2>1, <2>2, <2>3, <2>4
  <1>6. /\ HeadReady => pause = 0 /\ Slack = WireLimit - wire
        /\ WireLimit \in Nat
    BY TurnNumbers DEF HeadReady, Slack
  <1> DEFINE p == WireLimit * pause  q == WireLimit * pause'
             k == Cardinality(Tokens)  l == Cardinality(Tokens')
  <1>7. /\ p \in Nat /\ q \in Nat /\ k \in Nat /\ l \in Nat /\ l + wire <= k
        /\ Ahead = k + p + Slack /\ Ahead' = l + q + 0
        /\ (pause = 0 => q = 0 /\ p = 0) /\ (pause > 0 => q + WireLimit = p)
        /\ (pause = 0 \/ pause > 0)
    BY <1>2, <1>3, <1>4, <1>5
  <1> HIDE DEF p, q, k, l
  <1>8. wire \in Nat /\ Slack \in Nat
    BY <1>4, <1>6, SMT
  <1>9. ASSUME pause > 0 PROVE Ahead' + WireLimit <= Ahead /\ Ahead' <= Ahead
    BY <1>6, <1>7, <1>8, <1>9, SMT
  <1>10. ASSUME pause = 0 PROVE Ahead' <= Ahead
    BY <1>6, <1>7, <1>8, <1>10, SMT
  <1>11. ASSUME HeadReady PROVE Ahead' + WireLimit <= Ahead
    BY <1>6, <1>7, <1>8, <1>11, SMT
  <1> QED
    BY <1>7, <1>9, <1>10, <1>11

\* A tick costs every lookup a tick of its time, and the wire serves as much.
LEMMA StartsTick == ASSUME Steady, D!Tick PROVE StartsInTime'
  <1>1. /\ DnsInv /\ DnsInv' /\ Paced /\ Paced' /\ Budgeted /\ StartsInTime
        /\ queue \in Seq(Resolvers \X D!Legs) /\ UNCHANGED queue
    BY TickMoves DEF Steady, DnsInv, DnsTypes
  <1> SUFFICES ASSUME NEW n \in DOMAIN queue, ~legs'[queue[n][1]][queue[n][2]].started
               PROVE  InTime(n)'
    BY <1>1 DEF StartsInTime
  <1>2. ASSUME NEW m \in DOMAIN queue
        PROVE  /\ queue[m][1] \in Resolvers /\ queue[m][2] \in D!Legs
               /\ lookup[queue[m][1]].at = "sleep"
               /\ elapsed'[queue[m][1]] = elapsed[queue[m][1]] + 1
    <2>1. PICK u \in Resolvers, j \in D!Legs : queue[m] = <<u, j>> /\ Queued(u, j)
      BY <1>1, EntryIs
    <2>2. ThreadOK(u)
      BY <1>1, ThisLegFacts
    <2>3. legs[u][j].state = "queued"
      BY <2>1, <2>2 DEF ThreadOK, D!Waits
    <2>4. lookup[u].at = "sleep"
      BY <1>1, <2>2, <2>3, TickMoves DEF ThreadOK, Gone
    <2> QED
      BY <1>1, <2>1, <2>4, TickMoves
  <1> DEFINE e == elapsed[queue[n][1]]
  <1>3. e \in Nat /\ elapsed'[queue[n][1]] = e + 1
    <2>1. e \in 0 .. D!CollectionBudget
      BY <1>1, <1>2 DEF Budgeted
    <2> QED
      BY <1>2, <2>1, BudgetIsNat, SMT
  <1>4. InTime(n)
    <2>1. ~legs[queue[n][1]][queue[n][2]].started
      BY <1>1, <1>2, TickMoves
    <2> QED
      BY <1>1, <2>1 DEF StartsInTime
  <1> DEFINE w(m) == legs[queue[m][1]][queue[m][2]].wait
  <1>5. ASSUME NEW m \in 1 .. n
        PROVE  /\ w(m) \in Nat /\ m \in DOMAIN queue
               /\ w(m) = 0 \/ w(m) + e <= Retry
               /\ w(m)' = 0 \/ w(m)' + (e + 1) <= Retry
    <2>1. m \in DOMAIN queue
      BY <1>1, SMT
    <2>2. w(m) \in Nat /\ w(m)' = IF w(m) > 0 THEN w(m) - 1 ELSE 0
      BY <1>1, <1>2, <2>1, TickMoves
    <2>3. w(m) = 0 \/ w(m) + e <= Retry
      BY <1>4 DEF InTime
    <2> HIDE DEF w, e
    <2> QED
      BY <1>3, <2>1, <2>2, <2>3, TurnNumbers, SMT
  <1>6. e < Retry \/ pause > 0 \/ HeadReady
    <2> SUFFICES ASSUME ~(e < Retry), ~(pause > 0) PROVE HeadReady
      OBVIOUS
    <2>1. n \in Nat /\ 1 \in 1 .. n /\ queue # <<>> /\ pause = 0
      <3>1. n \in Nat /\ 1 <= n
        BY <1>1, QueuePlaces
      <3>2. 1 \in 1 .. n /\ pause = 0
        BY <1>1, <3>1, TurnNumbers, SMT DEF Paced
      <3>3. queue # <<>>
        BY <1>1, QueuePlaces
      <3> QED
        BY <3>1, <3>2, <3>3
    <2>2. w(1) = 0
      <3>1. w(1) \in Nat /\ (w(1) = 0 \/ w(1) + e <= Retry)
        BY <1>5, <2>1
      <3> HIDE DEF w, e
      <3> QED
        BY <1>3, <3>1, TurnNumbers, SMT
    <2>3. lookup[queue[1][1]].at = "sleep"
      BY <1>2, <1>5, <2>1
    <2> QED
      BY <2>1, <2>2, <2>3 DEF HeadReady, Looked
  <1>7. /\ WireLimit * (e + 1) + Ahead' + (n - 1) * Turn <= StartLimit
        /\ WireLimit * Retry + Ahead' + (n - 1) * Turn <= StartLimit
    <2> DEFINE y == (n - 1) * Turn  c == WireLimit * e  d == WireLimit * (e + 1)
               r == WireLimit * Retry
    <2>1. c \in Nat /\ r \in Nat /\ d = c + WireLimit /\ (e < Retry => d <= r)
      <3>1. \A a, b \in Nat : a * b \in Nat /\ a * (b + 1) = a * b + a
        BY SMT
      <3>2. \A a, b, f \in Nat : b < f => a * (b + 1) <= a * f
        BY SMT
      <3> HIDE DEF e
      <3> QED
        BY <1>3, <3>1, <3>2, TurnNumbers
    <2>2. y \in Int /\ StartLimit \in Int /\ Ahead \in Nat /\ Ahead' \in Nat
      <3>1. \A a, b \in Nat : (a - 1) * b \in Int
        BY SMT
      <3>2. n \in Nat
        BY <1>1, QueuePlaces
      <3> QED
        BY <1>1, <3>1, <3>2, AheadFactsHold, TurnNumbers DEF AheadFacts
    <2>3. c + Ahead + y <= StartLimit /\ r + Ahead + y <= StartLimit
      BY <1>4 DEF InTime
    <2>4. Ahead' <= Ahead /\ (e < Retry \/ Ahead' + WireLimit <= Ahead)
      BY <1>6, AheadTick
    <2> SUFFICES d + Ahead' + y <= StartLimit /\ r + Ahead' + y <= StartLimit
      OBVIOUS
    <2> HIDE DEF y, c, d, r, e
    <2>5. ASSUME NEW a \in Nat, NEW b \in Nat, NEW s \in Int, NEW o \in Nat,
                 c + a + y <= s, r + a + y <= s, b <= a, d = c + o,
                 d <= r \/ b + o <= a
          PROVE  d + b + y <= s /\ r + b + y <= s
      BY <2>1, <2>2, <2>5, SMT
    <2> QED
      BY <2>1, <2>2, <2>3, <2>4, <2>5, TurnNumbers
  <1> QED
    BY <1>1, <1>3, <1>5, <1>7 DEF InTime

\* The entries are as much in time as before when nothing that they rest on changes.
LEMMA SameTimes ==
    ASSUME UNCHANGED <<lookup, elapsed, legs, queue, wire, pause>>, StartsInTime
    PROVE  StartsInTime'
  <1>1. \A t \in Resolvers, j \in D!Legs, k \in 0 .. QueryBudget :
           Token(t, j, k)' <=> Token(t, j, k)
    BY DEF Token, D!Waits
  <1>2. Tokens' = Tokens
    BY <1>1 DEF Tokens
  <1>3. HeadReady' <=> HeadReady
    BY DEF HeadReady, Looked
  <1>4. Ahead' = Ahead
    BY <1>2, <1>3 DEF Ahead, Slack
  <1>5. \A n : InTime(n)' <=> InTime(n)
    BY <1>4 DEF InTime
  <1> QED
    BY <1>5 DEF StartsInTime

\* The scopes come and go without the lookups.
LEMMA StartsScopes ==
    ASSUME Steady, UNCHANGED <<lookup, elapsed, legs, queue, wire, pause>>
    PROVE  StartsInTime'
  BY SameTimes DEF Steady

\* No step of the resolver makes an entry of the queue late.
LEMMA StartsNext == ASSUME Steady, D!Next PROVE StartsInTime'
  <1>1. ASSUME NEW t \in Resolvers, D!LookupStep(t) PROVE StartsInTime'
    BY <1>1, StartsEnqueue, StartsWander, StartsExpire, StartsAdmit, StartsSkip, StartsBegin,
       StartsSettle, StartsCleanup DEF D!LookupStep
  <1>2. ASSUME NEW t \in Resolvers, D!Begin(t) \/ D!End(t) \/ D!Cancel(t) PROVE StartsInTime'
    BY <1>2, StartsScopes DEF D!Begin, D!End, D!Cancel
  <1>3. CASE D!StopAll
    BY <1>3, StartsScopes DEF D!StopAll
  <1> QED
    BY <1>1, <1>2, <1>3, StartsWander, StartsTick DEF D!Next

\* A step of one lookup that changes one leg, and looks at no other.
LEMMA AskedStep ==
    ASSUME DnsInv, Asked, NEW t \in Resolvers, NEW i \in D!Legs, NEW x \in D!Leg, NEW k \in D!Legs,
           NEW w \in {"idle", "enqueue", "pass", "queue", "begin", "settle", "sleep", "cleanup"},
           D!Goes(t, w, k), LegBecomes(t, i, x),
           \A u \in Resolvers : u # t => elapsed'[u] = elapsed[u],
           w = "enqueue" => elapsed'[t] = 0,
           x.held => x.started,
           PutInQueue(t, i)' => x.started \/ x.state = "queued",
           PolledNow(t, i)' /\ x.state = "active" => x.age < QueryBudget,
           \A j \in D!Legs : j # i => /\ PutInQueue(t, j)' => PutInQueue(t, j)
                                      /\ PolledNow(t, j)' => PolledNow(t, j)
    PROVE  Asked'
  <1>1. /\ lookup'[t].at = w
        /\ \A u \in Resolvers : u # t => lookup'[u] = lookup[u]
    BY Moves DEF DnsInv
  <1>2. legs'[t][i] = x
        /\ \A u \in Resolvers, j \in D!Legs : u # t \/ j # i => legs'[u][j] = legs[u][j]
    BY LegIs
  <1> SUFFICES ASSUME NEW u \in Resolvers
               PROVE  /\ lookup'[u].at = "enqueue" => elapsed'[u] = 0
                      /\ \A j \in D!Legs : LegAsked(u, j)'
    BY DEF Asked
  <1>3. CASE u # t
    <2>1. lookup'[u] = lookup[u] /\ \A j \in D!Legs : legs'[u][j] = legs[u][j]
      BY <1>1, <1>2, <1>3
    <2>2. \A j \in D!Legs : LegAsked(u, j)'
      BY <2>1 DEF Asked, LegAsked, PutInQueue, PolledNow
    <2> QED
      BY <1>3, <2>1, <2>2 DEF Asked
  <1>4. CASE u = t
    <2>1. LegAsked(t, i)'
      BY <1>2 DEF LegAsked
    <2>2. ASSUME NEW j \in D!Legs, j # i PROVE LegAsked(t, j)'
      <3>1. LegAsked(t, j) /\ legs'[t][j] = legs[t][j]
        BY <1>2, <2>2 DEF Asked
      <3>2. (PutInQueue(t, j)' => PutInQueue(t, j)) /\ (PolledNow(t, j)' => PolledNow(t, j))
        BY <2>2
      <3> HIDE DEF PutInQueue, PolledNow
      <3> QED
        BY <3>1, <3>2 DEF LegAsked
    <2> QED
      BY <1>1, <1>4, <2>1, <2>2
  <1> QED
    BY <1>3, <1>4

\* On to the next leg: the legs it has polled by then.
LEMMA PolledOn ==
    ASSUME DnsInv, NEW t \in Resolvers, lookup[t].at \in {"queue", "settle"},
           NEW w \in {"queue", "sleep", "cleanup"}, NEW k \in D!Legs, D!Goes(t, w, k),
           \A j \in D!Legs : w = "sleep" \/ (w = "queue" /\ j < k) => j <= lookup[t].leg,
           NEW j \in D!Legs, j # lookup[t].leg
    PROVE  /\ PutInQueue(t, j)' => PutInQueue(t, j)
           /\ PolledNow(t, j)' => PolledNow(t, j)
  <1>1. lookup'[t].at = w /\ lookup'[t].leg = k
    BY Moves DEF DnsInv
  <1>2. lookup[t].leg \in D!Legs
    BY ThisLegFacts
  <1>3. ASSUME PolledNow(t, j)' PROVE j < lookup[t].leg
    <2>1. j <= lookup[t].leg
      BY <1>1, <1>3 DEF PolledNow
    <2> QED
      BY <1>2, <2>1, LegNumbers, SMT
  <1> QED
    BY <1>3 DEF PolledNow, PutInQueue

\* A lookup that begins, is not configured, or begins a pass.
LEMMA AskedWander ==
    ASSUME DnsInv, Asked, Budgeted, NEW t \in Resolvers,
           D!StartLookup(t) \/ D!NotConfigured(t) \/ D!Pass(t)
    PROVE  Asked'
  <1> PICK x \in D!Leg : x = legs[t][1]
    BY ThisLegFacts, LegNumbers
  <1>1. UNCHANGED legs /\ LegAsked(t, 1) /\ LegBecomes(t, 1, x)
    BY LegNumbers, SameLeg DEF D!StartLookup, D!NotConfigured, D!Pass, Asked
  <1>2. \E w \in {"enqueue", "cleanup", "queue"} :
           /\ D!Goes(t, w, 1) /\ (w = "queue" => lookup[t].at = "pass")
           /\ w = "enqueue" => elapsed'[t] = 0
    BY DEF D!StartLookup, D!NotConfigured, D!Pass, D!At, Budgeted
  <1>3. PICK w \in {"enqueue", "cleanup", "queue"} :
           /\ D!Goes(t, w, 1) /\ (w = "queue" => lookup[t].at = "pass")
           /\ w = "enqueue" => elapsed'[t] = 0
    BY <1>2
  <1>4. lookup'[t].at = w /\ lookup'[t].leg = 1
    BY <1>3, LegNumbers, Moves DEF DnsInv
  <1>5. \A j \in D!Legs : ~(j < 1)
    BY LegNumbers, SMT
  <1>6. \A u \in Resolvers : u # t => elapsed'[u] = elapsed[u]
    BY DEF D!StartLookup, D!NotConfigured, D!Pass, Budgeted
  <1>7. \A j \in D!Legs : (PutInQueue(t, j)' => PutInQueue(t, j)) /\ ~PolledNow(t, j)'
    BY <1>3, <1>4, <1>5 DEF PutInQueue, PolledNow
  <1> QED
    BY <1>1, <1>3, <1>6, <1>7, LegNumbers, AskedStep DEF LegAsked

\* A leg that joins the queue is one of those that were put in it.
LEMMA AskedEnqueue ==
    ASSUME DnsInv, Asked, NEW t \in Resolvers, D!Enqueue(t)
    PROVE  Asked'
  <1> PICK i \in D!Legs : i = lookup[t].leg
    BY ThisLegFacts
  <1>1. /\ lookup[t].at = "enqueue" /\ UNCHANGED elapsed /\ elapsed[t] = 0
        /\ LegBecomes(t, i, [D!NoLeg EXCEPT !.state = "queued"])
    BY DEF D!Enqueue, D!At, LegBecomes, Asked
  <1>2. \E x \in D!Leg : ~x.held /\ x.state = "queued" /\ LegBecomes(t, i, x)
    <2> DEFINE y == [D!NoLeg EXCEPT !.state = "queued"]
    <2>1. D!NoLeg \in D!Leg /\ D!NoLeg.held = FALSE
      BY NoLegIsLeg, Zenon DEF D!NoLeg
    <2>2. y \in D!Leg /\ y.held = FALSE /\ y.state = "queued"
      BY <2>1, Zenon DEF D!Leg
    <2>3. LegBecomes(t, i, y)
      BY <1>1
    <2> HIDE DEF y
    <2> QED
      BY <2>2, <2>3
  <1>3. PICK x \in D!Leg : ~x.held /\ x.state = "queued" /\ LegBecomes(t, i, x)
    BY <1>2
  <1>4. \E w \in {"enqueue", "pass"}, k \in D!Legs :
           D!Goes(t, w, k) /\ \A j \in D!Legs : j # i /\ (w = "pass" \/ j < k) => j < i
    <2>1. CASE i < Servers
      <3>1. i + 1 \in D!Legs /\ \A j \in D!Legs : j # i /\ j < i + 1 => j < i
        BY <2>1, LegNumbers, DnsAssumption, SMT
      <3>2. D!Goes(t, "enqueue", i + 1)
        BY <2>1 DEF D!Enqueue
      <3> QED
        BY <3>1, <3>2
    <2>2. CASE ~(i < Servers)
      <3>1. \A j \in D!Legs : j # i => j < i
        BY <2>2, LegNumbers, DnsAssumption, SMT
      <3>2. D!Goes(t, "pass", 1)
        BY <2>2 DEF D!Enqueue
      <3> QED
        BY <3>1, <3>2, LegNumbers
    <2> QED
      BY <2>1, <2>2
  <1>5. PICK w \in {"enqueue", "pass"}, k \in D!Legs :
           D!Goes(t, w, k) /\ \A j \in D!Legs : j # i /\ (w = "pass" \/ j < k) => j < i
    BY <1>4
  <1>6. lookup'[t].at = w /\ lookup'[t].leg = k
    BY <1>5, Moves DEF DnsInv
  <1>7. ASSUME NEW j \in D!Legs
        PROVE  ~PolledNow(t, j)' /\ (j # i /\ PutInQueue(t, j)' => PutInQueue(t, j))
    BY <1>1, <1>5, <1>6 DEF PutInQueue, PolledNow
  <1> QED
    BY <1>1, <1>3, <1>5, <1>7, AskedStep

\* A leg that is passed over, expires or settles: its lookup goes on to the next.
LEMMA AskedGoesOn ==
    ASSUME DnsInv, Asked, NEW t \in Resolvers, D!Expire(t) \/ D!Skip(t) \/ D!Settle(t)
    PROVE  Asked'
  <1> PICK i \in D!Legs : i = lookup[t].leg
    BY ThisLegFacts
  <1>0. /\ legs[t][i] \in D!Leg /\ LegAsked(t, i) /\ legs[t][i].held \in BOOLEAN
        /\ legs[t][i].state \in {"none", "queued", "active", "success", "failed"}
    BY ThisLegFacts, SMTT(60) DEF Asked
  <1>1. UNCHANGED elapsed /\ lookup[t].at \in {"queue", "settle"}
    BY DEF D!Expire, D!Skip, D!Settle, D!At
  <1>2. \E p \in BOOLEAN : D!NextLeg(t, p)
    BY DEF D!Expire, D!Skip, D!Settle, D!Pending
  <1>3. PICK w \in {"queue", "sleep", "cleanup"}, k \in D!Legs :
           /\ D!Goes(t, w, k)
           /\ \A j \in D!Legs : w = "sleep" \/ (w = "queue" /\ j < k) => j <= lookup[t].leg
    BY <1>2, NextLegTo
  <1>4. legs[t][i].started \/ legs[t][i].state = "queued"
    BY <1>0, <1>1 DEF LegAsked, PutInQueue
  <1>5. \E x \in D!Leg : /\ LegBecomes(t, i, x)
                         /\ x.held => legs[t][i].held
                         /\ x.started = legs[t][i].started
                         /\ x.started \/ x.state = "queued"
                         /\ x.state = "active" => x.age < QueryBudget
    <2>1. CASE D!Expire(t)
      <3> DEFINE y == [legs[t][i] EXCEPT !.state = "failed"]
      <3>1. y \in D!Leg /\ y.held = legs[t][i].held /\ y.started = legs[t][i].started
            /\ y.state = "failed"
        BY <1>0, Zenon DEF D!Leg
      <3>2. LegBecomes(t, i, y) /\ legs[t][i].started
        BY <2>1 DEF D!Expire, LegBecomes, D!ThisLeg
      <3> HIDE DEF y
      <3> QED
        BY <3>1, <3>2
    <2>2. CASE D!Skip(t)
      <3>1. legs[t][i].state # "active" /\ LegBecomes(t, i, legs[t][i])
        BY <2>2, SameLeg DEF D!Skip, D!ThisLeg
      <3> QED
        BY <1>0, <1>4, <3>1
    <2>3. CASE D!Settle(t)
      <3>1. PICK s \in D!Polled(legs[t][i]) :
               LET frees == legs[t][i].held /\ s # "active" IN
               legs' = [legs EXCEPT ![t][i].state = s, ![t][i].held = @ /\ ~frees]
        BY <2>3, Zenon DEF D!Settle, D!ThisLeg
      <3>2. /\ s \in {"none", "queued", "active", "success", "failed"}
            /\ s = "active" => legs[t][i].age < QueryBudget
            /\ legs[t][i].state = "queued" => s = "queued"
        BY <1>0 DEF D!Polled
      <3> DEFINE frees == legs[t][i].held /\ s # "active"
                 y == [legs[t][i] EXCEPT !.state = s, !.held = legs[t][i].held /\ ~frees]
      <3>3. /\ y \in D!Leg /\ y.state = s /\ y.held = (legs[t][i].held /\ ~frees)
            /\ y.started = legs[t][i].started /\ y.age = legs[t][i].age
        BY <1>0, <3>2, Zenon DEF D!Leg
      <3>4. LegBecomes(t, i, y)
        BY <1>0, <3>1, Zenon DEF LegBecomes, DnsInv, DnsTypes
      <3> HIDE DEF y
      <3> QED
        BY <1>4, <3>2, <3>3, <3>4, Zenon
    <2> QED
      BY <2>1, <2>2, <2>3
  <1>6. PICK x \in D!Leg : /\ LegBecomes(t, i, x)
                           /\ x.held => legs[t][i].held
                           /\ x.started = legs[t][i].started
                           /\ x.started \/ x.state = "queued"
                           /\ x.state = "active" => x.age < QueryBudget
    BY <1>5
  <1>7. x.held => x.started
    BY <1>0, <1>6 DEF LegAsked
  <1>8. \A j \in D!Legs : j # i => /\ PutInQueue(t, j)' => PutInQueue(t, j)
                                   /\ PolledNow(t, j)' => PolledNow(t, j)
    BY <1>1, <1>3, PolledOn
  <1> QED
    BY <1>1, <1>3, <1>6, <1>7, <1>8, AskedStep

\* A leg that is admitted has started, and then it is begun.
LEMMA AskedBegins ==
    ASSUME DnsInv, Asked, NEW t \in Resolvers, D!Admit(t) \/ D!BeginQuery(t)
    PROVE  Asked'
  <1> PICK i \in D!Legs : i = lookup[t].leg
    BY ThisLegFacts
  <1>0. /\ legs[t][i] \in D!Leg /\ LegAsked(t, i) /\ ThreadOK(t)
        /\ i \in Nat /\ \A j \in D!Legs : j \in Nat
    BY ThisLegFacts, LegNumbers, SMTT(60) DEF Asked
  <1>1. UNCHANGED elapsed /\ lookup[t].at \in {"queue", "begin"}
    BY SMTT(60) DEF D!Admit, D!BeginQuery, D!At
  <1>2. PICK w \in {"begin", "settle"} : D!Goes(t, w, i)
    BY DEF D!Admit, D!BeginQuery
  <1>3. lookup'[t].at = w /\ lookup'[t].leg = i
    BY <1>2, Moves DEF DnsInv
  <1>4. \E x \in D!Leg : LegBecomes(t, i, x) /\ x.started
    <2>1. CASE D!Admit(t)
      <3> DEFINE y == [legs[t][i] EXCEPT !.held = TRUE, !.started = TRUE]
      <3>1. y \in D!Leg /\ y.started
        BY <1>0, Zenon DEF D!Leg
      <3>2. legs' = [legs EXCEPT ![t][i].held = TRUE, ![t][i].started = TRUE]
        BY <2>1 DEF D!Admit
      <3>3. LegBecomes(t, i, y)
        BY <3>2 DEF LegBecomes, DnsInv, DnsTypes
      <3> HIDE DEF y
      <3> QED
        BY <3>1, <3>3
    <2>2. CASE D!BeginQuery(t)
      <3>1. legs[t][i].started
        BY <1>0, <2>2 DEF LegAsked, ThreadOK, D!BeginQuery, D!At
      <3>2. CASE \E s \in {"active", "failed"} : legs' = [legs EXCEPT ![t][i].state = s]
        <4>1. PICK s \in {"active", "failed"} : legs' = [legs EXCEPT ![t][i].state = s]
          BY <3>2
        <4> DEFINE y == [legs[t][i] EXCEPT !.state = s]
        <4>2. y \in D!Leg /\ y.started
          BY <1>0, <3>1, Zenon DEF D!Leg
        <4>3. LegBecomes(t, i, y)
          BY <4>1 DEF LegBecomes
        <4> HIDE DEF y
        <4> QED
          BY <4>2, <4>3
      <3>3. CASE legs' = [legs EXCEPT ![t][i].wait = Retry]
        <4> DEFINE y == [legs[t][i] EXCEPT !.wait = Retry]
        <4>1. Retry \in 0 .. Retry
          BY TurnNumbers, SMT
        <4>2. y \in D!Leg /\ y.started
          BY <1>0, <3>1, <4>1, Zenon DEF D!Leg
        <4>3. LegBecomes(t, i, y)
          BY <3>3 DEF LegBecomes
        <4> HIDE DEF y
        <4> QED
          BY <4>2, <4>3
      <3> QED
        BY <2>2, <3>2, <3>3 DEF D!BeginQuery
    <2> QED
      BY <2>1, <2>2
  <1>5. PICK x \in D!Leg : LegBecomes(t, i, x) /\ x.started
    BY <1>4
  <1>6. ~(i < i)
    BY <1>0, SMT
  <1>7. ~PolledNow(t, i)'
    BY <1>3, <1>6 DEF PolledNow
  <1>8. \A j \in D!Legs : j # i => /\ PutInQueue(t, j)' => PutInQueue(t, j)
                                   /\ PolledNow(t, j)' => PolledNow(t, j)
    BY <1>1, <1>3 DEF PutInQueue, PolledNow
  <1> QED
    BY <1>1, <1>2, <1>5, <1>7, <1>8, AskedStep

\* A leg that is cleaned up is not asked any more.
LEMMA AskedCleanup ==
    ASSUME DnsInv, Asked, Budgeted, NEW t \in Resolvers, D!Cleanup(t)
    PROVE  Asked'
  <1> PICK i \in D!Legs : i = lookup[t].leg
    BY ThisLegFacts
  <1>1. PICK x \in D!Leg : LegBecomes(t, i, x) /\ ~x.held
    BY NoLegIsLeg DEF D!Cleanup, LegBecomes, Gone
  <1>2. PICK w \in {"cleanup", "idle"}, k \in D!Legs : D!Goes(t, w, k)
    <2>1. i < Servers => i + 1 \in D!Legs
      BY LegNumbers, DnsAssumption, SMT
    <2> QED
      BY <2>1, LegNumbers DEF D!Cleanup
  <1>3. lookup'[t].at = w
    BY <1>2, Moves DEF DnsInv
  <1>4. \A u \in Resolvers : u # t => elapsed'[u] = elapsed[u]
    <2>1. UNCHANGED elapsed \/ elapsed' = [elapsed EXCEPT ![t] = 0]
      BY DEF D!Cleanup
    <2> QED
      BY <2>1 DEF Budgeted
  <1>5. \A j \in D!Legs : ~PutInQueue(t, j)' /\ ~PolledNow(t, j)'
    BY <1>3 DEF PutInQueue, PolledNow
  <1> QED
    BY <1>1, <1>2, <1>4, <1>5, AskedStep

\* A tick begins a new pass, in which no leg has been polled.
LEMMA AskedTick == ASSUME DnsInv, Asked, Budgeted, D!Tick PROVE Asked'
  <1> SUFFICES ASSUME NEW t \in Resolvers
               PROVE  /\ lookup'[t].at # "enqueue"
                      /\ \A j \in D!Legs : LegAsked(t, j)'
    BY DEF Asked
  <1>1. /\ lookup'[t].at \in {"idle", "pass"} /\ lookup[t].at \in {"idle", "sleep"}
        /\ lookup[t].at = "idle" => lookup'[t].at = "idle"
    BY TickMoves
  <1>2. ASSUME NEW j \in D!Legs PROVE LegAsked(t, j)'
    <2>1. LegAsked(t, j)
      BY DEF Asked
    <2>2. ~PolledNow(t, j)' /\ (PutInQueue(t, j)' => PutInQueue(t, j))
      BY <1>1 DEF PolledNow, PutInQueue
    <2>3. /\ legs'[t][j].state = legs[t][j].state
          /\ legs'[t][j].held = legs[t][j].held
          /\ legs'[t][j].started = legs[t][j].started
      BY TickMoves
    <2> QED
      BY <2>1, <2>2, <2>3 DEF LegAsked
  <1> QED
    BY <1>1, <1>2

\* Nothing is asked of a leg by a step that leaves the lookups alone.
LEMMA AskedStays == ASSUME Asked, UNCHANGED <<lookup, elapsed, legs>> PROVE Asked'
  BY DEF Asked, LegAsked, PutInQueue, PolledNow

\* Every step of the resolver.
LEMMA AskedNext == ASSUME DnsInv, Asked, Budgeted, D!Next PROVE Asked'
  <1>1. ASSUME NEW t \in Resolvers, D!LookupStep(t) PROVE Asked'
    BY <1>1, AskedEnqueue, AskedWander, AskedGoesOn, AskedBegins, AskedCleanup DEF D!LookupStep
  <1>2. ASSUME NEW t \in Resolvers, D!Begin(t) \/ D!End(t) \/ D!Cancel(t) PROVE Asked'
    BY <1>2, AskedStays DEF D!Begin, D!End, D!Cancel
  <1>3. CASE D!StopAll
    BY <1>3, AskedStays DEF D!StopAll
  <1> QED
    BY <1>1, <1>2, <1>3, AskedWander, AskedTick DEF D!Next

\* A thread takes a scope only while there is one left.
LEMMA ScopeTaken ==
    ASSUME DnsTypes, Scoped, NEW t \in Resolvers, D!ScopeFree,
           \A u \in Resolvers : u # t => ScopeOf(u)' = ScopeOf(u)
    PROVE  Cardinality(Scopes') <= MaxScopes
  <1>1. IsFiniteSet(Scopes) /\ Cardinality(Scopes) \in Nat
    BY DnsAssumption, FS_Subset, FS_CardinalityType DEF Scopes
  <1>2. Cardinality(Scopes) < MaxScopes
    <2>1. \A X : D!Cardinality(X) = Cardinality(X)
      BY Zenon DEF D!Cardinality, Cardinality
    <2> QED
      BY <2>1 DEF D!ScopeFree, D!ScopeCount, Scopes, ScopeOf
  <1>3. IsFiniteSet(Scopes \union {t})
        /\ Cardinality(Scopes \union {t}) <= Cardinality(Scopes) + 1
    <2>1. CASE t \in Scopes
      <3>1. Scopes \union {t} = Scopes
        BY <2>1
      <3> QED
        BY <1>1, <3>1, SMT
    <2>2. CASE t \notin Scopes
      <3>1. IsFiniteSet(Scopes \union {t})
            /\ Cardinality(Scopes \union {t}) = Cardinality(Scopes) + 1
        BY <1>1, <2>2, FS_AddElement
      <3> QED
        BY <1>1, <3>1, SMT
    <2> QED
      BY <2>1, <2>2
  <1>4. Scopes' \subseteq Scopes \union {t}
    BY DEF Scopes
  <1>5. Cardinality(Scopes') <= Cardinality(Scopes \union {t}) /\ Cardinality(Scopes') \in Nat
        /\ Cardinality(Scopes \union {t}) \in Nat
    BY <1>3, <1>4, FS_Subset, FS_CardinalityType
  <1> QED
    BY <1>1, <1>2, <1>3, <1>5, TurnNumbers, SMT

\* No thread takes a scope.
LEMMA ScopesStay ==
    ASSUME Scoped, \A u \in Resolvers : ScopeOf(u)' => ScopeOf(u)
    PROVE  Cardinality(Scopes') <= MaxScopes
  <1>1. IsFiniteSet(Scopes) /\ Cardinality(Scopes) \in Nat /\ Cardinality(Scopes) <= MaxScopes
    BY DnsAssumption, FS_Subset, FS_CardinalityType DEF Scopes, Scoped
  <1>2. Scopes' \subseteq Scopes
    BY DEF Scopes
  <1>3. Cardinality(Scopes') <= Cardinality(Scopes) /\ Cardinality(Scopes') \in Nat
    BY <1>1, <1>2, FS_Subset, FS_CardinalityType
  <1> QED
    BY <1>1, <1>3, TurnNumbers, SMT

\* A thread begins, ends or cancels a scope.
LEMMA ScopedScopes ==
    ASSUME DnsInv, Scoped, NEW t \in Resolvers, D!Begin(t) \/ D!End(t) \/ D!Cancel(t)
    PROVE  Scoped'
  <1>0. DnsTypes /\ DnsTypes'
    <2>1. DnsInv'
      BY DnsScopes
    <2> QED
      BY <2>1 DEF DnsInv
  <1>1. \A u \in Resolvers : u # t => dnsScope'[u] = dnsScope[u]
    BY <1>0 DEF DnsTypes, D!Begin, D!End, D!Cancel
  <1>2. UNCHANGED lookup
    BY DEF D!Begin, D!End, D!Cancel
  <1>3. CASE D!Begin(t)
    <2>1. Cardinality(Scopes') <= MaxScopes
      BY <1>0, <1>1, <1>3, ScopeTaken DEF D!Begin, ScopeOf
    <2>2. ScopeOf(t)'
      BY <1>0, <1>3 DEF D!Begin, ScopeOf, DnsTypes
    <2> QED
      BY <1>1, <1>2, <2>1, <2>2 DEF Scoped, ScopeOf
  <1>4. CASE D!End(t)
    <2>1. ~ScopeOf(t)' /\ lookup[t].at = "idle"
      BY <1>0, <1>4 DEF D!End, D!At, D!NoScope, ScopeOf, DnsTypes
    <2>2. Cardinality(Scopes') <= MaxScopes
      BY <1>1, <2>1, ScopesStay DEF ScopeOf
    <2> QED
      BY <1>1, <1>2, <2>1, <2>2 DEF Scoped, ScopeOf
  <1>5. CASE D!Cancel(t)
    <2>1. dnsScope'[t].kind = dnsScope[t].kind
      BY <1>0, <1>5 DEF D!Cancel, DnsTypes
    <2>2. \A u \in Resolvers : ScopeOf(u)' <=> ScopeOf(u)
      BY <1>1, <2>1 DEF ScopeOf
    <2>3. Cardinality(Scopes') <= MaxScopes
      BY <2>2, ScopesStay
    <2> QED
      BY <1>2, <2>2, <2>3 DEF Scoped
  <1> QED
    BY <1>3, <1>4, <1>5

\* The scopes stay and so do the lookups that have one, or a lookup ends.
LEMMA ScopedStep ==
    ASSUME DnsInv, Scoped, NEW t \in Resolvers, NEW k \in D!Legs,
           NEW w \in {"idle", "enqueue", "pass", "queue", "begin", "settle", "sleep", "cleanup"},
           D!Goes(t, w, k), UNCHANGED dnsScope, lookup[t].at # "idle" \/ w = "idle"
    PROVE  Scoped'
  <1>1. /\ lookup'[t].at = w
        /\ \A u \in Resolvers : u # t => lookup'[u] = lookup[u]
    BY Moves DEF DnsInv
  <1>2. \A u \in Resolvers : ScopeOf(u)' <=> ScopeOf(u)
    BY DEF ScopeOf
  <1>3. Cardinality(Scopes') <= MaxScopes
    BY <1>2, ScopesStay
  <1> QED
    BY <1>1, <1>2, <1>3 DEF Scoped

\* A lookup that has no scope takes one, and gives it back at its end.
LEMMA ScopedLookup ==
    ASSUME DnsInv, Scoped, NEW t \in Resolvers, D!StartLookup(t) \/ D!Cleanup(t)
    PROVE  Scoped'
  <1>0. DnsTypes
    BY DEF DnsInv
  <1>1. CASE D!StartLookup(t)
    <2>1. /\ lookup'[t].at = "enqueue"
          /\ \A u \in Resolvers : u # t => lookup'[u] = lookup[u]
      BY <1>0, <1>1, LegNumbers, Moves DEF D!StartLookup
    <2>2. CASE dnsScope[t].kind = "token"
      <3>1. UNCHANGED dnsScope /\ ScopeOf(t)
        BY <1>1, <2>2 DEF D!StartLookup, ScopeOf
      <3>2. \A u \in Resolvers : ScopeOf(u)' <=> ScopeOf(u)
        BY <3>1 DEF ScopeOf
      <3>3. Cardinality(Scopes') <= MaxScopes
        BY <3>2, ScopesStay
      <3> QED
        BY <2>1, <3>1, <3>2, <3>3 DEF Scoped
    <2>3. CASE dnsScope[t].kind # "token"
      <3>1. /\ D!ScopeFree
            /\ dnsScope' = [dnsScope EXCEPT ![t] = [kind |-> "temporary", cancelled |-> FALSE]]
        BY <1>1, <2>3 DEF D!StartLookup
      <3>2. ScopeOf(t)' /\ \A u \in Resolvers : u # t => ScopeOf(u)' = ScopeOf(u)
        BY <1>0, <3>1 DEF ScopeOf, DnsTypes
      <3>3. Cardinality(Scopes') <= MaxScopes
        BY <1>0, <3>1, <3>2, ScopeTaken
      <3> QED
        BY <2>1, <3>2, <3>3 DEF Scoped
    <2> QED
      BY <2>2, <2>3
  <1>2. CASE D!Cleanup(t)
    <2>0. lookup[t].leg \in D!Legs /\ lookup[t].at = "cleanup"
      BY <1>2, ThisLegFacts DEF D!Cleanup, D!At
    <2>1. CASE lookup[t].leg < Servers
      <3>1. lookup[t].leg + 1 \in D!Legs
        BY <2>0, <2>1, LegNumbers, DnsAssumption, SMT
      <3>2. D!Goes(t, "cleanup", lookup[t].leg + 1) /\ UNCHANGED dnsScope
        BY <1>2, <2>1 DEF D!Cleanup
      <3> QED
        BY <2>0, <3>1, <3>2, ScopedStep
    <2>2. CASE ~(lookup[t].leg < Servers)
      <3>1. /\ lookup'[t].at = "idle"
            /\ \A u \in Resolvers : u # t => lookup'[u] = lookup[u]
        BY <1>0, <1>2, <2>2, LegNumbers, Moves DEF D!Cleanup
      <3>2. dnsScope' = IF dnsScope[t].kind = "temporary"
                        THEN [dnsScope EXCEPT ![t] = D!NoScope] ELSE dnsScope
        BY <1>2, <2>2 DEF D!Cleanup
      <3>3. /\ \A u \in Resolvers : u # t => ScopeOf(u)' = ScopeOf(u)
            /\ ScopeOf(t)' => ScopeOf(t)
        BY <1>0, <3>2 DEF ScopeOf, DnsTypes, D!NoScope
      <3>4. Cardinality(Scopes') <= MaxScopes
        BY <3>3, ScopesStay
      <3> QED
        BY <3>1, <3>3, <3>4 DEF Scoped
    <2> QED
      BY <2>1, <2>2
  <1> QED
    BY <1>1, <1>2

\* The steps of a lookup that leave the scopes alone.
LEMMA ScopedSteps ==
    ASSUME DnsInv, Scoped, NEW t \in Resolvers, D!LookupStep(t)
    PROVE  Scoped'
  <1> PICK i \in D!Legs : i = lookup[t].leg
    BY ThisLegFacts
  <1>1. CASE D!NotConfigured(t) \/ D!Pass(t)
    <2>1. \E w \in {"cleanup", "queue"} : D!Goes(t, w, 1)
      BY <1>1 DEF D!NotConfigured, D!Pass
    <2>2. UNCHANGED dnsScope /\ lookup[t].at # "idle"
      BY <1>1 DEF D!NotConfigured, D!Pass, D!At
    <2> QED
      BY <2>1, <2>2, LegNumbers, ScopedStep
  <1>2. CASE D!Enqueue(t)
    <2>1. i < Servers => i + 1 \in D!Legs
      BY LegNumbers, DnsAssumption, SMT
    <2>2. \E w \in {"enqueue", "pass"}, k \in D!Legs : D!Goes(t, w, k)
      BY <1>2, <2>1, LegNumbers DEF D!Enqueue
    <2>3. UNCHANGED dnsScope /\ lookup[t].at # "idle"
      BY <1>2 DEF D!Enqueue, D!At
    <2> QED
      BY <2>2, <2>3, ScopedStep
  <1>3. CASE D!Expire(t) \/ D!Skip(t) \/ D!Settle(t)
    <2>1. \E p \in BOOLEAN : D!NextLeg(t, p)
      BY <1>3 DEF D!Expire, D!Skip, D!Settle, D!Pending
    <2>2. \E w \in {"queue", "sleep", "cleanup"}, k \in D!Legs : D!Goes(t, w, k)
      BY <2>1, NextLegTo
    <2>3. UNCHANGED dnsScope /\ lookup[t].at # "idle"
      BY <1>3, Zenon DEF D!Expire, D!Skip, D!Settle, D!At
    <2> QED
      BY <2>2, <2>3, ScopedStep, SMTT(60)
  <1>4. CASE D!Admit(t) \/ D!BeginQuery(t)
    <2>1. \E w \in {"begin", "settle"} : D!Goes(t, w, i)
      BY <1>4, SMTT(60) DEF D!Admit, D!BeginQuery
    <2>2. UNCHANGED dnsScope /\ lookup[t].at # "idle"
      BY <1>4 DEF D!Admit, D!BeginQuery, D!At
    <2> QED
      BY <2>1, <2>2, ScopedStep, SMTT(60)
  <1> QED
    BY <1>1, <1>2, <1>3, <1>4, ScopedLookup DEF D!LookupStep

\* Every step of the resolver keeps to the scopes there are.
LEMMA ScopedNext == ASSUME DnsInv, Scoped, Budgeted, D!Next PROVE Scoped'
  <1>1. CASE D!StopAll
    <2>1. UNCHANGED lookup /\ \A u \in Resolvers : dnsScope'[u].kind = dnsScope[u].kind
      BY <1>1 DEF D!StopAll, DnsInv, DnsTypes
    <2>2. \A u \in Resolvers : ScopeOf(u)' <=> ScopeOf(u)
      BY <2>1 DEF ScopeOf
    <2>3. Cardinality(Scopes') <= MaxScopes
      BY <2>2, ScopesStay
    <2> QED
      BY <2>1, <2>2, <2>3 DEF Scoped
  <1>2. CASE D!Tick
    <2>1. UNCHANGED dnsScope
      BY <1>2 DEF D!Tick
    <2>2. \A u \in Resolvers : lookup[u].at = "idle" => lookup'[u].at = "idle"
      BY <1>2, TickMoves
    <2>3. \A u \in Resolvers : ScopeOf(u)' <=> ScopeOf(u)
      BY <2>1 DEF ScopeOf
    <2>4. Cardinality(Scopes') <= MaxScopes
      BY <2>3, ScopesStay
    <2> QED
      BY <2>2, <2>3, <2>4 DEF Scoped
  <1> QED
    BY <1>1, <1>2, ScopedScopes, ScopedLookup, ScopedSteps DEF D!Next

\* At first no thread has a scope, a lookup or a leg in the queue.
LEMMA StartsInit == D!Init => Asked /\ Scoped /\ StartsInTime
  <1> SUFFICES ASSUME D!Init PROVE Asked /\ Scoped /\ StartsInTime
    OBVIOUS
  <1>1. \A t \in Resolvers : lookup[t].at = "idle" /\ ~ScopeOf(t)
    BY DEF D!Init, D!NoScope, ScopeOf
  <1>2. \A t \in Resolvers, j \in D!Legs : legs[t][j].held = FALSE
    BY Zenon DEF D!Init, D!NoLeg
  <1>3. Asked
    BY <1>1, <1>2 DEF Asked, LegAsked, PutInQueue, PolledNow
  <1>4. Scopes = {}
    BY <1>1 DEF Scopes
  <1>5. Scoped
    BY <1>1, <1>4, FS_EmptySet, TurnNumbers, SMT DEF Scoped
  <1>6. DOMAIN queue = {}
    BY DEF D!Init
  <1> QED
    BY <1>3, <1>5, <1>6 DEF StartsInTime

\* The constants are in proportion: the budget of s legs, w of them at a time and for
\* q ticks each, covers the pauses p between them, the pause r of a leg that is short
\* of a local resource, and the ticks in between.
DnsProportions(s, w, q, p, r) == w * (r + 1 + (p + 1) * s) + s <= (w + 1) * q

\* The numbers of the code, in ticks of one and of five milliseconds (dns_policy.c:22-27,
\* dns_refresh.h:9-10) are: a pass with its pause of 1 ms may take up to five.
LEMMA CodeProportions ==
    /\ DnsProportions(16 * 7, 5, 3000, 25, 50)
    /\ DnsProportions(16 * 7, 5, 600, 5, 10)
  BY SMT DEF DnsProportions

\* The collection budget is enough for every leg with what it may have ahead of it.
LEMMA BudgetCovers ==
    ASSUME DnsProportions(MaxScopes * Servers, WireLimit, QueryBudget, Pace, Retry)
    PROVE  StartLimit < WireLimit * D!CollectionBudget
  <1> DEFINE s == AllLegs  w == WireLimit  q == QueryBudget  v == Pace + 1
             d == (s + w - 1) \div w
  <1>1. /\ s \in Nat /\ w \in Nat /\ w > 0 /\ q \in Nat /\ v \in Nat /\ Retry \in Nat
        /\ Turn \in Nat /\ Turn = q + 1 + w * v /\ w * Pace + w = w * v
        /\ w * Retry \in Nat /\ w * Pace \in Nat /\ w * v \in Nat
    <2>1. \A a, b \in Nat : a * b + a = a * (b + 1) /\ a * (b + 1) \in Nat
      BY SMT
    <2> QED
      BY <2>1, TurnNumbers, SMT DEF Turn
  <1>2. D!CollectionBudget = (d + 1) * q
    BY DEF D!CollectionBudget, AllLegs
  <1>3. w * (Retry + 1 + v * s) + s <= (w + 1) * q
    BY DEF DnsProportions, AllLegs
  <1>4. StartLimit = w * Retry + (s - 1) * Turn + w * Pace + w + w
    BY DEF StartLimit
  <1>5. d \in Nat /\ s <= w * d
    <2> SUFFICES ASSUME NEW a \in Nat, NEW b \in Nat, b > 0
                 PROVE  (a + b - 1) \div b \in Nat /\ a <= b * ((a + b - 1) \div b)
      BY <1>1
    <2> QED
      BY SMT
  <1> HIDE DEF s, w, q, v, d
  <1>6. w * ((d + 1) * q) >= s * q + w * q
    <2>1. w * d \in Nat /\ w * ((d + 1) * q) = (w * d) * q + w * q
      BY <1>1, <1>5, SMT
    <2>2. \A a, b, c \in Nat : a <= b => a * c <= b * c
      BY SMT
    <2> DEFINE z == w * d
    <2>3. s * q <= z * q
      BY <1>1, <1>5, <2>1, <2>2
    <2>4. z * q \in Nat /\ s * q \in Nat /\ w * q \in Nat
      BY <1>1, <2>1, SMT
    <2>5. w * ((d + 1) * q) = z * q + w * q
      BY <2>1
    <2> HIDE DEF z
    <2> QED
      BY <2>3, <2>4, <2>5, SMT
  <1>7. (s - 1) * Turn = s * q + s + s * (w * v) - q - 1 - w * v
    <2>1. ASSUME NEW a \in Nat, NEW b \in Nat, NEW c \in Nat
          PROVE  (a - 1) * (b + 1 + c) = a * b + a + a * c - b - 1 - c
      BY SMT
    <2> QED
      BY <1>1, <2>1
  <1>8. w * (Retry + 1 + v * s) = w * Retry + w + s * (w * v) /\ (w + 1) * q = w * q + q
    <2>1. ASSUME NEW a \in Nat, NEW b \in Nat, NEW c \in Nat, NEW e \in Nat
          PROVE  a * (b + 1 + c * e) = a * b + a + e * (a * c)
      BY SMT
    <2>2. ASSUME NEW a \in Nat, NEW b \in Nat PROVE (a + 1) * b = a * b + b
      BY SMT
    <2> QED
      BY <1>1, <2>1, <2>2
  <1> DEFINE H == s * q  B == w * q  C == s * (w * v)  E == w * v  R == w * Retry
             P == w * Pace  all == w * ((d + 1) * q)
  <1>9. H \in Nat /\ B \in Nat /\ C \in Nat /\ E \in Nat /\ R \in Nat /\ P \in Nat /\ all \in Nat
    BY <1>1, <1>5, SMT
  <1>10. /\ StartLimit = R + (H + s + C - q - 1 - E) + P + w + w /\ all >= H + B
         /\ R + w + C + s <= B + q /\ P + w = E
    BY <1>1, <1>3, <1>4, <1>6, <1>7, <1>8
  <1> SUFFICES StartLimit < all
    BY <1>2 DEF w
  <1> HIDE DEF H, B, C, E, R, P, all
  <1> QED
    BY <1>1, <1>9, <1>10, SMT

\* An entry that is in time leaves before its lookup has used up its budget.
LEMMA InTimeEnds ==
    ASSUME DnsInv, Paced, Budgeted, StartsInTime,
           DnsProportions(MaxScopes * Servers, WireLimit, QueryBudget, Pace, Retry),
           NEW t \in Resolvers, NEW j \in D!Legs, Queued(t, j), ~legs[t][j].started
    PROVE  elapsed[t] < D!CollectionBudget
  <1>1. queue \in Seq(Resolvers \X D!Legs)
    BY DEF DnsInv, DnsTypes
  <1>2. PICK n \in DOMAIN queue : queue[n] = <<t, j>>
    BY DEF Queued
  <1>3. InTime(n)
    BY <1>2 DEF StartsInTime
  <1> DEFINE e == elapsed[t]  b == D!CollectionBudget  y == (n - 1) * Turn
  <1>4. WireLimit * e + Ahead + y <= StartLimit
    BY <1>2, <1>3 DEF InTime
  <1>5. e \in Nat /\ b \in Nat
    <2>1. e \in 0 .. b
      BY DEF Budgeted
    <2> HIDE DEF e, b
    <2>2. b \in Nat
      BY BudgetIsNat DEF b
    <2> QED
      BY <2>1, <2>2, SMT
  <1>6. y \in Nat
    <2>1. n \in Nat /\ 1 <= n
      BY <1>1, QueuePlaces
    <2>2. \A a, c \in Nat : 1 <= a => (a - 1) * c \in Nat
      BY SMT
    <2> QED
      BY <2>1, <2>2, TurnNumbers
  <1>7. Ahead \in Nat /\ StartLimit < WireLimit * b /\ StartLimit \in Int
    BY AheadFactsHold, BudgetCovers, TurnNumbers DEF AheadFacts
  <1> HIDE DEF e, b, y
  <1>8. b <= e => WireLimit * b <= WireLimit * e
    <2>1. \A a, c, f \in Nat : c <= f => a * c <= a * f
      BY SMT
    <2> QED
      BY <1>5, <2>1, TurnNumbers
  <1>9. WireLimit * b \in Nat /\ WireLimit * e \in Nat
    BY <1>5, TurnNumbers, SMT
  <1>10. ~(b <= e)
    <2> DEFINE x == WireLimit * b  z == WireLimit * e
    <2>1. x \in Nat /\ z \in Nat /\ z + Ahead + y <= StartLimit /\ StartLimit < x
          /\ (b <= e => x <= z)
      BY <1>4, <1>7, <1>8, <1>9
    <2> HIDE DEF x, z
    <2> QED
      BY <1>6, <1>7, <2>1, SMT
  <1> QED
    BY <1>5, <1>10, SMT DEF e, b

\* So no lookup comes to the end of its budget with a leg that has not started.
LEMMA LegsHaveStarted ==
    ASSUME DnsInv, Paced, Budgeted, Asked, StartsInTime,
           DnsProportions(MaxScopes * Servers, WireLimit, QueryBudget, Pace, Retry)
    PROVE  D!EveryLegStarts
  <1> SUFFICES ASSUME NEW t \in Resolvers, lookup[t].at = "pass",
                      elapsed[t] >= D!CollectionBudget, NEW j \in D!Legs, ~legs[t][j].started
               PROVE  FALSE
    BY DEF D!EveryLegStarts, D!At
  <1>1. legs[t][j].state = "queued"
    BY DEF Asked, LegAsked, PutInQueue
  <1>2. D!Waits(t, j)
    BY <1>1 DEF D!Waits
  <1>3. Queued(t, j)
    BY <1>2 DEF DnsInv, ThreadOK
  <1>4. elapsed[t] < D!CollectionBudget
    BY <1>3, InTimeEnds
  <1>5. elapsed[t] \in Nat /\ D!CollectionBudget \in Nat
    <2>1. elapsed[t] \in 0 .. D!CollectionBudget
      BY DEF Budgeted
    <2> DEFINE b == D!CollectionBudget
    <2>2. elapsed[t] \in 0 .. b /\ b \in Nat
      BY <2>1, BudgetIsNat
    <2> HIDE DEF b
    <2>3. elapsed[t] \in Nat
      BY <2>2, SMT
    <2> QED
      BY <2>3, BudgetIsNat
  <1> DEFINE b == D!CollectionBudget
  <1>6. b \in Nat /\ elapsed[t] \in Nat /\ elapsed[t] < b /\ elapsed[t] >= b
    BY <1>4, <1>5
  <1> HIDE DEF b
  <1> QED
    BY <1>6, SMT

-----------------------------------------------------------------------------
\* The services together: a step of one of them leaves the variables of the other
\* four alone, and a stuttering step leaves all of them alone.

\* What the player found rests on the closing of the connection only.
LEMMA PlayerStutter == ASSUME PlayerFoundNothing, UNCHANGED linkVars PROVE PlayerFoundNothing'
  BY SMT DEF linkVars, PlayerFoundNothing

\* The order rests on a part of the variables of the link.
LEMMA OrderLinkStutter == ASSUME OrderInv, UNCHANGED linkVars PROVE OrderInv'
  BY OrderStutter DEF linkVars, orderVars

\* The counts rest on a part of the variables of the watch.
LEMMA WatchHostStutter == ASSUME WatchInv, UNCHANGED watchVars PROVE WatchInv'
  BY WatchStutter DEF watchVars, watchParts

\* The accounts rest on a part of the variables of the resolver.
LEMMA DnsVarsStutter == ASSUME DnsInv, UNCHANGED dnsVars PROVE DnsInv'
  <1>1. UNCHANGED <<dnsScope, lookup, legs, queue, wire>>
    BY DEF dnsVars
  <1>2. ScopeTypes'
    BY <1>1 DEF DnsInv, DnsTypes, ScopeTypes
  <1> QED
    BY <1>1, <1>2, DnsStutter

\* What the types of the services rest on, besides their invariants.
Flags == WorkTypes /\ ArtFlags /\ LinkFlags /\ Budgeted /\ Paced

\* The types of a service that does not act.
LEMMA FlagsStutter ==
    /\ ArtFlags /\ UNCHANGED artVars => ArtFlags'
    /\ LinkFlags /\ UNCHANGED linkVars => LinkFlags'
    /\ Budgeted /\ UNCHANGED dnsVars => Budgeted'
    /\ Paced /\ UNCHANGED dnsVars => Paced'
  <1>1. ArtFlags /\ UNCHANGED artVars => ArtFlags'
    BY DEF artVars, ArtFlags
  <1>2. LinkFlags /\ UNCHANGED linkVars => LinkFlags'
    BY DEF linkVars, LinkFlags, WorkerTypes, NetTypes, OwnerTypes
  <1>3. Budgeted /\ UNCHANGED dnsVars => Budgeted'
    <2> SUFFICES ASSUME Budgeted, UNCHANGED <<elapsed, lookup>> PROVE Budgeted'
      BY DEF dnsVars
    <2> QED
      BY Zenon DEF Budgeted, D!CollectionBudget
  <1>4. Paced /\ UNCHANGED dnsVars => Paced'
    BY DEF dnsVars, Paced
  <1> QED
    BY <1>1, <1>2, <1>3, <1>4

\* A step of the services is a step of the one that acts, or leaves it alone.
LEMMA ServiceSteps ==
    ASSUME [ServicesNext]_servicesVars
    PROVE  /\ [Next]_updaterVars
           /\ A!Next \/ UNCHANGED artVars
           /\ S!Next \/ UNCHANGED linkVars
           /\ W!Next \/ UNCHANGED watchVars
           /\ D!Next \/ UNCHANGED dnsVars
  BY Zenon DEF ServicesNext, servicesVars

\* For all values of the constants, a slot of the artwork only shows what was loaded
\* for the id it has, although the worker loads without the lock and the slots change
\* hands meanwhile, and no two slots of a table have one id (PictureIsOwn).
THEOREM PicturesAreOwn == ServicesSpec => []PictureIsOwn
  <1>1. ServicesInit => ArtInv
    BY ArtInit DEF ServicesInit
  <1>2. ArtInv /\ [ServicesNext]_servicesVars => ArtInv'
    BY ServiceSteps, ArtNext, ArtStutter
  <1>3. ArtInv => PictureIsOwn
    BY DEF ArtInv, PictureIsOwn
  <1> QED
    BY <1>1, <1>2, <1>3, PTL DEF ServicesSpec

\* For all values of the constants, the artwork worker sleeps with something to load
\* only while the main thread has paused it or is on its way to wake it; and a player
\* that sleeps has no datagram to take and a connection that has not ended, or a
\* close is under way that will wake it (NoWakeUpLost).
THEOREM WakeUpsArrive == ServicesSpec => []NoWakeUpLost
  <1>1. ServicesInit => ArtInv /\ PlayerFoundNothing
    BY ArtInit, PlayerHolds DEF ServicesInit
  <1>2. /\ ArtInv /\ PlayerFoundNothing /\ [ServicesNext]_servicesVars
        => (ArtInv /\ PlayerFoundNothing)'
    BY ServiceSteps, ArtNext, ArtStutter, PlayerNext, PlayerStutter
  <1>3. ArtInv /\ PlayerFoundNothing => NoWakeUpLost
    BY PlayerHolds DEF ArtInv, NoWakeUpLost
  <1> QED
    BY <1>1, <1>2, <1>3, PTL DEF ServicesSpec

\* For all values of the constants, rendezvous signals leave in the SDK's order and
\* none leaves twice, although frames are lost with their session and the cloud
\* session is replaced (SignalsInOrder).
THEOREM SignalsKeepOrder == ServicesSpec => []SignalsInOrder
  <1>1. ServicesInit => OrderInv
    BY OrderInit DEF ServicesInit
  <1>2. OrderInv /\ [ServicesNext]_servicesVars => OrderInv'
    BY ServiceSteps, OrderNext, OrderLinkStutter
  <1>3. OrderInv => SignalsInOrder
    BY LineOrdered DEF SignalsInOrder
  <1> QED
    BY <1>1, <1>2, <1>3, PTL DEF ServicesSpec

\* For all values of the constants, a launch is only reported as over after two
\* moments without a game that follow one with a game; an ended game only after the
\* host's own stop, or two such moments that are newer than what was known when
\* END_GAME was sent, however late, often or out of order the statuses arrive; and
\* never a failure when the host has asked for the stop before the session was joined
\* (CompletionIsReal).
THEOREM CompletionNeedsMoments == ServicesSpec => []CompletionIsReal
  <1>1. ServicesInit => WatchInv
    BY WatchInit DEF ServicesInit
  <1>2. WatchInv /\ [ServicesNext]_servicesVars => WatchInv'
    BY ServiceSteps, WatchNext, WatchHostStutter
  <1>3. WatchInv => CompletionIsReal
    BY DEF WatchInv, CompletionIsReal
  <1> QED
    BY <1>1, <1>2, <1>3, PTL DEF ServicesSpec

\* For all values of the constants, the sockets in use are exactly the legs that hold
\* one, and the queue holds every waiting leg once and nothing else (QueueAccounted).
THEOREM QueueIsAccounted == ServicesSpec => []QueueAccounted
  <1>1. ServicesInit => DnsInv
    BY DnsInit DEF ServicesInit
  <1>2. DnsInv /\ [ServicesNext]_servicesVars => DnsInv'
    BY ServiceSteps, DnsNext, DnsVarsStutter
  <1>3. DnsInv => QueueAccounted
    BY OnceIsCounted DEF QueueAccounted
  <1> QED
    BY <1>1, <1>2, <1>3, PTL DEF ServicesSpec

\* The same argument bounds the sockets of all lookups: they never exceed the limit
\* of the policy (dns_policy.c, SL_DNS_WIRE_LIMIT).
THEOREM WireWithinLimit == ServicesSpec => [](wire \in 0 .. WireLimit)
  <1>1. ServicesInit => DnsInv
    BY DnsInit DEF ServicesInit
  <1>2. DnsInv /\ [ServicesNext]_servicesVars => DnsInv'
    BY ServiceSteps, DnsNext, DnsVarsStutter
  <1>3. DnsInv => wire \in 0 .. WireLimit
    BY DEF DnsInv, WireCounted
  <1> QED
    BY <1>1, <1>2, <1>3, PTL DEF ServicesSpec

\* A step of another service leaves the lookups alone.
LEMMA StartsStutter ==
    ASSUME UNCHANGED dnsVars
    PROVE  /\ Asked => Asked'
           /\ Scoped => Scoped'
           /\ StartsInTime => StartsInTime'
  <1>1. UNCHANGED <<dnsScope, lookup, elapsed, legs, queue, wire, pause>>
    BY DEF dnsVars
  <1>2. Asked => Asked'
    BY <1>1, AskedStays
  <1>3. Scopes' = Scopes
    BY <1>1 DEF Scopes, ScopeOf
  <1>4. Scoped => Scoped'
    BY <1>1, <1>3 DEF Scoped, ScopeOf
  <1>5. StartsInTime => StartsInTime'
    BY <1>1, SameTimes
  <1> QED
    BY <1>2, <1>4, <1>5

\* For all values of the constants that are in proportion, as those of the code are
\* (CodeProportions), every leg has been on the wire when its lookup gives up, however
\* many scopes compete (EveryLegStarts).
THEOREM LegsStart ==
    ASSUME DnsProportions(MaxScopes * Servers, WireLimit, QueryBudget, Pace, Retry)
    PROVE  ServicesSpec => []EveryLegStarts
  <1> DEFINE Inv == /\ DnsInv /\ Budgeted /\ Paced
                    /\ Asked /\ Scoped /\ StartsInTime
  <1>1. ServicesInit => Inv
    BY DnsInit, BudgetInit, StartsInit DEF ServicesInit
  <1>2. Inv /\ [ServicesNext]_servicesVars => Inv'
    <2> SUFFICES ASSUME Inv, [ServicesNext]_servicesVars PROVE Inv'
      OBVIOUS
    <2>1. CASE UNCHANGED dnsVars
      <3>1. DnsInv' /\ Budgeted' /\ Paced'
        BY <2>1, DnsVarsStutter, FlagsStutter
      <3>2. Asked' /\ Scoped' /\ StartsInTime'
        BY <2>1, StartsStutter
      <3> QED
        BY <3>1, <3>2
    <2>2. CASE D!Next
      <3>1. DnsInv' /\ Budgeted' /\ Paced' /\ Asked' /\ Scoped'
        BY <2>2, DnsNext, BudgetNext, PacedNext, AskedNext, ScopedNext
      <3>2. Steady
        BY <3>1 DEF Steady
      <3> QED
        BY <2>2, <3>1, <3>2, StartsNext
    <2> QED
      BY <2>1, <2>2, ServiceSteps
  <1>3. Inv => EveryLegStarts
    BY LegsHaveStarted DEF EveryLegStarts
  <1> QED
    BY <1>1, <1>2, <1>3, PTL DEF ServicesSpec

\* For all values of the constants, the five services keep to their types (TypeOK):
\* among them, no lookup collects for longer than its budget, the queue is not longer
\* than there are legs, and the lists of the link stay within their limits.
THEOREM ServiceTypes == ServicesSpec => []TypeOK
  <1> DEFINE Inv == /\ FileInv /\ ArtInv /\ OrderInv /\ WatchInv /\ DnsInv
                    /\ Flags
  <1>1. ServicesInit => Inv
    <2> SUFFICES ASSUME ServicesInit PROVE Inv
      OBVIOUS
    <2>1. Init /\ D!Init /\ A!Init /\ S!Init /\ W!Init
      BY DEF ServicesInit
    <2>2. FileInv /\ ArtInv /\ OrderInv /\ WatchInv /\ DnsInv
      BY <2>1, InitFiles, ArtInit, OrderInit, WatchInit, DnsInit
    <2>3. Flags
      BY <2>1, InitWork, FlagsInit, LinkFlagsInit, BudgetInit DEF Flags
    <2> QED
      BY <2>2, <2>3
  <1>2. Inv /\ [ServicesNext]_servicesVars => Inv'
    <2> SUFFICES ASSUME Inv, [ServicesNext]_servicesVars PROVE Inv'
      OBVIOUS
    <2>1. FileInv' /\ WorkTypes'
      BY ServiceSteps, StepFiles, StepWork DEF Flags
    <2>2. ArtInv' /\ OrderInv' /\ WatchInv' /\ DnsInv'
      BY ServiceSteps, ArtNext, ArtStutter, OrderNext, OrderLinkStutter, WatchNext,
         WatchHostStutter, DnsNext, DnsVarsStutter
    <2>3. ArtFlags'
      BY ServiceSteps, FlagsNext, FlagsStutter DEF Flags
    <2>4. LinkFlags'
      BY ServiceSteps, WorkerNext, NetNext, OwnerNext, FlagsStutter DEF Flags, LinkFlags
    <2>5. Budgeted' /\ Paced'
      BY ServiceSteps, BudgetNext, PacedNext, FlagsStutter DEF Flags
    <2> QED
      BY <2>1, <2>2, <2>3, <2>4, <2>5 DEF Flags
  <1>3. Inv => TypeOK
    <2> SUFFICES ASSUME Inv PROVE TypeOK
      OBVIOUS
    <2>1. UpdaterTypeOK /\ A!ArtTypeOK /\ S!LinkTypeOK /\ D!DnsTypeOK
      BY UpdaterTypes, ArtTypesOK, LinkTypesOK, DnsTypesOK DEF Flags, ArtInv
    <2>2. W!WatchTypeOK
      BY DEF WatchInv
    <2> QED
      BY <2>1, <2>2 DEF TypeOK
  <1> QED
    BY <1>1, <1>2, <1>3, PTL DEF ServicesSpec
=============================================================================
