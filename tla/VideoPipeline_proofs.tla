------------------------ MODULE VideoPipeline_proofs ------------------------
(***************************************************************************)
(* The safety of VideoPipeline, for any number of envelopes, domains, groups, *)
(* batches, epochs and submissions: one section per part of the inductive  *)
(* invariant of VideoPipeline_steps, then the theorems.                    *)
(*                                                                         *)
(* The parts lean on each other.  A frame lives while somebody holds it    *)
(* (ReferencesCounted), because a thread that empties the mailbox had nothing *)
(* to let go before, and the envelope about to be published is nobody's    *)
(* (OwnEnvelope).  A domain is freed only when its frames and its groups are *)
(* gone: the reaper looks at the one and then at the other, and what it has *)
(* seen stays true (ReapInv), because nobody reaps while a frame is published *)
(* (ThreadsInv), and a group is only imported from a frame that lives.  Then a *)
(* domain outlives its use (DomainOutlivesUse), which needs that no two    *)
(* domains have the same key (DomainsInv), and so that the epochs are opened *)
(* in their order (EpochInv).                                              *)
(* A freeze leaves the mailbox to whoever closes the epoch (MailboxInv); that *)
(* makes the numbers of the pending frames start anew only when none is left *)
(* (PicturesInv), and every ticket somebody's (TicketsInv).                *)
(* At the end the pipeline is shown to implement VideoLoan.                *)
(***************************************************************************)
EXTENDS VideoPipeline_steps

USE DEF SessionAt, SessionTo, RenderAt, RenderTo, OnlyRender, WorkerAt, ReapBegins, ReapDone,
        Reaper, Look, Reaping, Freeze, Close, ClosedBox, decoderVars, frameVars, drawVars

-----------------------------------------------------------------------------
(* Every reference that is counted keeps exactly one holder.               *)

\* What stays the same.
SamePlaces == box'.pending = box.pending /\ box'.image = box.image
SameHands == render'.sel.frame = render.sel.frame /\ render'.current = render.current
SameRecords == \A b \in Batches : batches'[b].frames = batches[b].frames

\* Who writes the places of the mailbox.
LEMMA PlacesSteps ==
    ASSUME TypeOK, Steps
    PROVE  SamePlaces \/ EvictOldest \/ PublishQueued \/ FlushActive \/ StopActive
           \/ MainClosesActive \/ Select \/ CloseFailedActive \/ WorkerClosesActive
<1>1. CASE OpenBare
  BY <1>1, Types DEF OpenBare, BoxType, SamePlaces
<1>2. CASE OpenDomain
  BY <1>2, Types DEF OpenDomain, BoxType, SamePlaces
<1>3. CASE OpenedAccepted
  BY <1>3, Types DEF OpenedAccepted, BoxType, SamePlaces
<1>4. CASE OpenedInVain
  BY <1>4, Types DEF OpenedInVain, BoxType, SamePlaces
<1>5. CASE QueueAccepted
  BY <1>5, Types DEF QueueAccepted, BoxType, SamePlaces
<1>6. CASE MainFreezes
  BY <1>6, Types DEF MainFreezes, BoxType, SamePlaces
<1>7. CASE Thaw
  BY <1>7, Types DEF Thaw, BoxType, SamePlaces
<1>8. CASE WorkerFreezes
  BY <1>8, Types DEF WorkerFreezes, BoxType, SamePlaces
<1>9. CASE EvictOldest \/ PublishQueued \/ FlushActive \/ StopActive \/ MainClosesActive
          \/ Select \/ CloseFailedActive \/ WorkerClosesActive
  BY <1>9
<1>10. CASE UNCHANGED box
  BY <1>10 DEF SamePlaces
<1> QED
  BY <1>1, <1>2, <1>3, <1>4, <1>5, <1>6, <1>7, <1>8, <1>9, <1>10, BoxSteps

\* Who writes the selection and the shown frame.
LEMMA HandsSteps ==
    ASSUME TypeOK, Steps
    PROVE  SameHands \/ DropStale \/ Select \/ CheckVoid \/ PresentShown \/ PresentHeld
<1>1. CASE Collected
  BY <1>1, Types DEF Collected, RenderType, SameHands
<1>2. CASE KeepShown
  BY <1>2, Types DEF KeepShown, RenderType, SameHands
<1>3. CASE ForgetNothing
  BY <1>3, Types DEF ForgetNothing, RenderType, SameHands
<1>4. CASE ForgetAll
  BY <1>4, Types DEF ForgetAll, RenderType, SameHands
<1>5. CASE Skip
  BY <1>5, Types DEF Skip, RenderType, SameHands
<1>6. CASE MainFreezes
  BY <1>6, Types DEF MainFreezes, RenderType, SameHands
<1>7. CASE MainClosesActive
  BY <1>7, Types DEF MainClosesActive, RenderType, SameHands
<1>8. CASE MainClosesStale
  BY <1>8, Types DEF MainClosesStale, RenderType, SameHands
<1>9. CASE Repaint
  BY <1>9, Types DEF Repaint, RenderType, SameHands
<1>10. CASE CheckKept
  BY <1>10, Types DEF CheckKept, RenderType, SameHands
<1>11. CASE DrawNothing
  BY <1>11, Types DEF DrawNothing, RenderType, SameHands
<1>12. CASE Draw
  BY <1>12, Types DEF Draw, RenderType, SameHands
<1>13. CASE ImportFails
  BY <1>13, Types DEF ImportFails, RenderType, SameHands
<1>14. CASE DrawFails
  BY <1>14, Types DEF DrawFails, RenderType, SameHands
<1>15. CASE CloseFailedActive
  BY <1>15, Types DEF CloseFailedActive, RenderType, SameHands
<1>16. CASE CloseFailedStale
  BY <1>16, Types DEF CloseFailedStale, RenderType, SameHands
<1>17. CASE DropStale \/ Select \/ CheckVoid \/ PresentShown \/ PresentHeld
  BY <1>17
<1>18. CASE UNCHANGED render
  BY <1>18 DEF SameHands
<1> QED
  BY <1>1, <1>2, <1>3, <1>4, <1>5, <1>6, <1>7, <1>8, <1>9, <1>10, <1>11, <1>12, <1>13, <1>14,
     <1>15, <1>16, <1>17, <1>18, RenderSteps

\* A batch that only changes its state keeps what it has recorded.
LEMMA StateOnly ==
    ASSUME TypeOK, NEW b \in Batches, NEW st, batches' = [batches EXCEPT ![b].state = st]
    PROVE  /\ SameRecords
           /\ \A c \in Batches : batches'[c].groups = batches[c].groups
           /\ \A c \in Batches : batches'[c].state = IF c = b THEN st ELSE batches[c].state
<1>1. batches \in [Batches -> BatchType] /\ batches[b] \in BatchType
  BY Types
<1> QED
  BY <1>1 DEF BatchType, SameRecords

\* Who writes the records of the batches.
LEMMA RecordSteps ==
    ASSUME TypeOK, BatchInv, Steps
    PROVE  SameRecords \/ (\E b \in Batches : Completed(b)) \/ Draw \/ DrawFails
<1>1. CASE Repaint
  <2>1. PICK b \in Batches : batches' = [batches EXCEPT ![b].state = "recording"]
    BY <1>1 DEF Repaint, Begin, FreeBatches
  <2> QED
    BY <2>1, StateOnly
<1>2. CASE Select
  <2>1. PICK b \in Batches : batches' = [batches EXCEPT ![b].state = "recording"]
    BY <1>2, SelectParts DEF Selects, FreeBatches
  <2> QED
    BY <2>1, StateOnly
<1>3. CASE PresentShown
  <2>1. batches' = [batches EXCEPT ![Recording].state = "submitted"]
    BY <1>3 DEF PresentShown
  <2>2. Recording \in Batches
    BY <1>3, RecordingExists DEF PresentShown
  <2> QED
    BY <2>1, <2>2, StateOnly
<1>4. CASE PresentHeld
  <2>1. batches' = [batches EXCEPT ![Recording].state = "submitted"]
    BY <1>4 DEF PresentHeld
  <2>2. Recording \in Batches
    BY <1>4, RecordingExists DEF PresentHeld
  <2> QED
    BY <2>1, <2>2, StateOnly
<1>5. CASE (\E b \in Batches : Completed(b)) \/ Draw \/ DrawFails
  BY <1>5
<1>6. CASE UNCHANGED batches
  BY <1>6 DEF SameRecords
<1> QED
  BY <1>1, <1>2, <1>3, <1>4, <1>5, <1>6, BatchSteps

\* The holders in the next state, by kind; without a change of the batches their
\* part is the same.
LEMMA HoldersNext ==
    ASSUME NEW l \in Leases
    PROVE  /\ Holders(l)' = Count(box'.pending, l) + Count(drop'["session"], l)
                            + Count(drop'["main"], l) + Count(drop'["worker"], l)
                            + Cardinality({b \in Batches : l \in batches'[b].frames})
                            + One(box'.image = l) + One(render'.sel.frame = l)
                            + One(render'.current = l)
           /\ SameRecords => {b \in Batches : l \in batches'[b].frames} = Recorders(l)
<1>1. SameRecords => {b \in Batches : l \in batches'[b].frames} = Recorders(l)
  BY DEF Recorders, SameRecords
<1> QED
  BY <1>1 DEF Holders, One

\* What a thread lets go is counted as before, if another thread's is the same.
LEMMA LettingNext ==
    ASSUME TypeOK, NEW t \in Threads, NEW s, drop' = [drop EXCEPT ![t] = s], NEW l \in Leases
    PROVE  /\ t = "session" => Count(drop'["session"], l) = Count(s, l)
                               /\ Count(drop'["main"], l) = Letting("main", l)
                               /\ Count(drop'["worker"], l) = Letting("worker", l)
           /\ t = "main" => Count(drop'["main"], l) = Count(s, l)
                            /\ Count(drop'["session"], l) = Letting("session", l)
                            /\ Count(drop'["worker"], l) = Letting("worker", l)
           /\ t = "worker" => Count(drop'["worker"], l) = Count(s, l)
                              /\ Count(drop'["session"], l) = Letting("session", l)
                              /\ Count(drop'["main"], l) = Letting("main", l)
<1>1. drop \in [Threads -> Seq(Leases)]
  BY Types
<1>2. /\ t = "session" => drop'["session"] = s /\ drop'["main"] = drop["main"]
                          /\ drop'["worker"] = drop["worker"]
      /\ t = "main" => drop'["main"] = s /\ drop'["session"] = drop["session"]
                          /\ drop'["worker"] = drop["worker"]
      /\ t = "worker" => drop'["worker"] = s /\ drop'["session"] = drop["session"]
                          /\ drop'["main"] = drop["main"]
  BY <1>1 DEF Threads
<1> QED
  BY <1>2 DEF Letting

\* Nothing that was let go is left.
LEMMA NothingLet ==
    ASSUME NEW t, drop[t] = <<>>, NEW l
    PROVE  Letting(t, l) = 0
  BY CountShort DEF Letting

\* What a close takes: the pending frames and the image.
LEMMA QueuedCounted ==
    ASSUME TypeOK, NEW l \in Leases
    PROVE  /\ Count(Queued, l) = Count(box.pending, l) + One(box.image = l)
           /\ Count(Shown, l) = One(box.image = l)
<1>1. box.pending \in Seq(Leases) /\ Shown \in Seq(Leases)
  BY BoxFields, QueuedTyped
<1>2. Count(Shown, l) = One(box.image = l)
  <2>1. CASE box.image = 0
    BY <2>1, CountShort, Bounds DEF Shown, One
  <2>2. CASE box.image # 0
    BY <2>2, CountShort, BoxFields DEF Shown, One, Frames
  <2> QED
    BY <2>1, <2>2
<1> QED
  BY <1>1, <1>2, CountConcat DEF Queued

\* When nobody's hands change and no frame is written, every frame has the holders
\* it had.
LEMMA QuietCounted ==
    ASSUME TypeOK, ReferencesCounted, SamePlaces, SameHands, SameRecords,
           UNCHANGED drop, UNCHANGED lease
    PROVE  ReferencesCounted'
<1>1. ASSUME NEW l \in Leases
      PROVE  lease'[l].refs = Holders(l)'
  <2>1. Cardinality({b \in Batches : l \in batches'[b].frames}) = Cardinality(Recorders(l))
    BY HoldersNext
  <2>2. Count(box'.pending, l) = Count(box.pending, l)
    BY DEF SamePlaces
  <2>3. /\ Count(drop'["session"], l) = Letting("session", l)
        /\ Count(drop'["main"], l) = Letting("main", l)
        /\ Count(drop'["worker"], l) = Letting("worker", l)
    BY DEF Letting
  <2>4. /\ One(box'.image = l) = One(box.image = l)
        /\ One(render'.sel.frame = l) = One(render.sel.frame = l)
        /\ One(render'.current = l) = One(render.current = l)
    BY DEF SamePlaces, SameHands
  <2>5. Holders(l)' = Count(box.pending, l) + Letting("session", l) + Letting("main", l)
                      + Letting("worker", l) + Cardinality(Recorders(l))
                      + One(box.image = l) + One(render.sel.frame = l)
                      + One(render.current = l)
    BY <2>1, <2>2, <2>3, <2>4, HoldersNext
  <2>6. Holders(l)' = Holders(l)
    BY <2>5, HoldersByKind
  <2> QED
    BY <2>6 DEF ReferencesCounted
<1> QED
  BY <1>1 DEF ReferencesCounted

\* A close moves the places of the mailbox into the hands of its thread.
LEMMA CloseCounted ==
    ASSUME TypeOK, ReferencesCounted, NEW t \in Threads, drop[t] = <<>>,
           box' = ClosedBox, drop' = [drop EXCEPT ![t] = Queued],
           SameHands, SameRecords, UNCHANGED lease
    PROVE  ReferencesCounted'
<1>1. box'.pending = <<>> /\ box'.image = 0
  BY Types DEF BoxType, ClosedBox
<1>2. ASSUME NEW l \in Leases
      PROVE  lease'[l].refs = Holders(l)'
  <2>1. Count(box'.pending, l) = 0 /\ One(box'.image = l) = 0
    BY <1>1, CountShort, Bounds DEF One
  <2>2. Letting(t, l) = 0
    BY NothingLet
  <2>3. Count(drop'["session"], l) + Count(drop'["main"], l) + Count(drop'["worker"], l)
          = Letting("session", l) + Letting("main", l) + Letting("worker", l)
            + Count(box.pending, l) + One(box.image = l)
    <3> DEFINE p == Count(box.pending, l)
               i == One(box.image = l)
               a == Letting("session", l)
               b == Letting("main", l)
               c == Letting("worker", l)
               x == Count(drop'["session"], l)
               y == Count(drop'["main"], l)
               z == Count(drop'["worker"], l)
    <3>1. /\ t = "session" => x = p + i /\ y = b /\ z = c
          /\ t = "main" => y = p + i /\ x = a /\ z = c
          /\ t = "worker" => z = p + i /\ x = a /\ y = b
      <4>1. /\ t = "session" => x = Count(Queued, l) /\ y = b /\ z = c
            /\ t = "main" => y = Count(Queued, l) /\ x = a /\ z = c
            /\ t = "worker" => z = Count(Queued, l) /\ x = a /\ y = b
        BY LettingNext
      <4>2. Count(Queued, l) = p + i
        BY QueuedCounted
      <4> QED
        BY ONLY <4>1, <4>2
    <3>2. p \in Nat /\ i \in Nat /\ a \in Nat /\ b \in Nat /\ c \in Nat
      BY HoldersByKind DEF One
    <3>3. /\ t = "session" => a = 0
          /\ t = "main" => b = 0
          /\ t = "worker" => c = 0
      BY <2>2
    <3>4. t = "session" \/ t = "main" \/ t = "worker"
      BY DEF Threads
    <3> HIDE DEF p, i, a, b, c, x, y, z
    <3>5. x + y + z = a + b + c + p + i
      BY ONLY <3>1, <3>2, <3>3, <3>4
    <3> QED
      BY <3>5 DEF p, i, a, b, c, x, y, z
  <2>4. One(render'.sel.frame = l) = One(render.sel.frame = l)
        /\ One(render'.current = l) = One(render.current = l)
    BY DEF SameHands
  <2>5. Cardinality({b \in Batches : l \in batches'[b].frames}) = Cardinality(Recorders(l))
    BY HoldersNext
  <2>6. /\ Count(drop'["session"], l) \in Nat /\ Count(drop'["main"], l) \in Nat
        /\ Count(drop'["worker"], l) \in Nat /\ One(box.image = l) \in Nat
        /\ One(render.sel.frame = l) \in Nat /\ One(render.current = l) \in Nat
    <3>1. \A u \in Threads : drop'[u] \in Seq(Leases)
      BY Types, QueuedTyped
    <3> QED
      BY <3>1, CountPlaces DEF Threads, One
  <2>7. Holders(l)' = Count(drop'["session"], l) + Count(drop'["main"], l)
                      + Count(drop'["worker"], l) + Cardinality(Recorders(l))
                      + One(render.sel.frame = l) + One(render.current = l)
    <3>1. Holders(l)' = 0 + Count(drop'["session"], l) + Count(drop'["main"], l)
                        + Count(drop'["worker"], l) + Cardinality(Recorders(l))
                        + 0 + One(render.sel.frame = l) + One(render.current = l)
      BY <2>1, <2>4, <2>5, HoldersNext
    <3> QED
      BY <2>6, <3>1, HoldersByKind
  <2>8. Holders(l)' = Holders(l)
    <3> DEFINE p == Count(box.pending, l)
               i == One(box.image = l)
               a == Letting("session", l)
               b == Letting("main", l)
               c == Letting("worker", l)
               x == Count(drop'["session"], l)
               y == Count(drop'["main"], l)
               z == Count(drop'["worker"], l)
               r == Cardinality(Recorders(l))
               s == One(render.sel.frame = l)
               k == One(render.current = l)
    <3>1. /\ Holders(l)' = x + y + z + r + s + k
          /\ Holders(l) = p + a + b + c + r + i + s + k
          /\ x + y + z = a + b + c + p + i
      BY <2>3, <2>7, HoldersByKind
    <3>2. /\ p \in Nat /\ i \in Nat /\ a \in Nat /\ b \in Nat /\ c \in Nat /\ r \in Nat
          /\ x \in Nat /\ y \in Nat /\ z \in Nat /\ s \in Nat /\ k \in Nat
      BY <2>6, HoldersByKind
    <3> HIDE DEF p, i, a, b, c, x, y, z, r, s, k
    <3> QED
      BY ONLY <3>1, <3>2
  <2> QED
    BY <2>8 DEF ReferencesCounted
<1> QED
  BY <1>2 DEF ReferencesCounted

\* The holders of a frame by kind, before a step and after it.
P0(l) == Count(box.pending, l)
P1(l) == Count(box'.pending, l)
A0(l) == Letting("session", l)
A1(l) == Count(drop'["session"], l)
B0(l) == Letting("main", l)
B1(l) == Count(drop'["main"], l)
C0(l) == Letting("worker", l)
C1(l) == Count(drop'["worker"], l)
R0(l) == Cardinality(Recorders(l))
R1(l) == Cardinality({b \in Batches : l \in batches'[b].frames})
I0(l) == One(box.image = l)
I1(l) == One(box'.image = l)
S0(l) == One(render.sel.frame = l)
S1(l) == One(render'.sel.frame = l)
K0(l) == One(render.current = l)
K1(l) == One(render'.current = l)
Before(l) == P0(l) + A0(l) + B0(l) + C0(l) + R0(l) + I0(l) + S0(l) + K0(l)
After(l) == P1(l) + A1(l) + B1(l) + C1(l) + R1(l) + I1(l) + S1(l) + K1(l)

\* The count of a frame, and that every kind is a number.
LEMMA Kinds ==
    ASSUME TypeOK, ReferencesCounted, NEW l \in Leases
    PROVE  /\ lease[l].refs = Before(l) /\ Holders(l)' = After(l)
           /\ P0(l) \in Nat /\ A0(l) \in Nat /\ B0(l) \in Nat /\ C0(l) \in Nat
           /\ R0(l) \in Nat /\ I0(l) \in Nat /\ S0(l) \in Nat /\ K0(l) \in Nat
           /\ I1(l) \in Nat /\ S1(l) \in Nat /\ K1(l) \in Nat
<1>1. lease[l].refs = Holders(l)
  BY DEF ReferencesCounted
<1>2. Holders(l) = Before(l)
  BY HoldersByKind DEF Before, P0, A0, B0, C0, R0, I0, S0, K0
<1>3. Holders(l)' = After(l)
  BY HoldersNext DEF After, P1, A1, B1, C1, R1, I1, S1, K1
<1>4. /\ I0(l) \in Nat /\ S0(l) \in Nat /\ K0(l) \in Nat
      /\ I1(l) \in Nat /\ S1(l) \in Nat /\ K1(l) \in Nat
  BY DEF I0, S0, K0, I1, S1, K1, One
<1>5. /\ P0(l) \in Nat /\ A0(l) \in Nat /\ B0(l) \in Nat /\ C0(l) \in Nat /\ R0(l) \in Nat
  BY HoldersByKind DEF P0, A0, B0, C0, R0
<1> QED
  BY <1>1, <1>2, <1>3, <1>4, <1>5

\* The kinds that a step does not touch.
LEMMA SameKinds ==
    ASSUME NEW l \in Leases
    PROVE  /\ SamePlaces => P1(l) = P0(l) /\ I1(l) = I0(l)
           /\ SameHands => S1(l) = S0(l) /\ K1(l) = K0(l)
           /\ SameRecords => R1(l) = R0(l)
           /\ UNCHANGED drop => A1(l) = A0(l) /\ B1(l) = B0(l) /\ C1(l) = C0(l)
<1>1. SamePlaces => P1(l) = P0(l) /\ I1(l) = I0(l)
  BY DEF SamePlaces, P0, P1, I0, I1
<1>2. SameHands => S1(l) = S0(l) /\ K1(l) = K0(l)
  BY DEF SameHands, S0, S1, K0, K1
<1>3. SameRecords => R1(l) = R0(l)
  BY HoldersNext DEF R0, R1
<1>4. UNCHANGED drop => A1(l) = A0(l) /\ B1(l) = B0(l) /\ C1(l) = C0(l)
  BY DEF A0, A1, B0, B1, C0, C1, Letting
<1> QED
  BY <1>1, <1>2, <1>3, <1>4

\* A thread that held nothing has something to let go.
LEMMA DropKinds ==
    ASSUME TypeOK, NEW t \in Threads, NEW s, drop' = [drop EXCEPT ![t] = s], NEW l \in Leases
    PROVE  /\ t = "session" => A1(l) = Count(s, l) /\ B1(l) = B0(l) /\ C1(l) = C0(l)
           /\ t = "main" => B1(l) = Count(s, l) /\ A1(l) = A0(l) /\ C1(l) = C0(l)
           /\ t = "worker" => C1(l) = Count(s, l) /\ A1(l) = A0(l) /\ B1(l) = B0(l)
  BY LettingNext DEF A0, A1, B0, B1, C0, C1

\* Let go, or kept once more.
LEMMA OneOf ==
    ASSUME NEW l, NEW x
    PROVE  One(l \in {x}) = One(x = l) /\ One(x = l) \in Nat
  BY DEF One

\* The session's thread evicts the oldest pending frame.
LEMMA EvictCounted ==
    ASSUME TypeOK, ReferencesCounted, EvictOldest, NEW l \in Leases
    PROVE  lease'[l].refs = Holders(l)'
<1> DEFINE h == One(Head(box.pending) = l)
<1>1. P0(l) = h + P1(l) /\ I1(l) = I0(l)
  <2>1. box.pending \in Seq(Leases) /\ box.pending # <<>>
    BY BoxFields DEF EvictOldest
  <2>2. box'.pending = Tail(box.pending) /\ box'.image = box.image
    BY Types DEF EvictOldest, BoxType
  <2>3. Count(box.pending, l) = h + Count(Tail(box.pending), l)
    BY <2>1, CountTail DEF One
  <2> QED
    BY <2>2, <2>3 DEF P0, P1, I0, I1
<1>2. A0(l) = 0 /\ A1(l) = h /\ B1(l) = B0(l) /\ C1(l) = C0(l)
  <2>1. drop' = [drop EXCEPT !["session"] = <<Head(box.pending)>>] /\ Head(box.pending) \in Leases
    BY BoxFields DEF EvictOldest
  <2>2. Count(<<Head(box.pending)>>, l) = h
    BY <2>1, CountShort DEF One
  <2>3. drop["session"] = <<>> /\ "session" \in Threads
    BY DEF EvictOldest, Threads
  <2>4. A1(l) = Count(<<Head(box.pending)>>, l) /\ B1(l) = B0(l) /\ C1(l) = C0(l)
    BY <2>1, <2>3, DropKinds
  <2> QED
    BY <2>2, <2>3, <2>4, NothingLet DEF A0
<1>3. R1(l) = R0(l) /\ S1(l) = S0(l) /\ K1(l) = K0(l)
  BY SameKinds DEF EvictOldest, SameHands, SameRecords
<1>4. lease'[l].refs = lease[l].refs
  BY DEF EvictOldest
<1>5. h \in Nat
  BY DEF One
<1>6. P1(l) \in Nat
  <2>1. box'.pending = Tail(box.pending) /\ Tail(box.pending) \in Seq(Leases)
    BY BoxFields, Types DEF EvictOldest, BoxType
  <2> QED
    BY <2>1, CountPlaces DEF P1
<1> HIDE DEF h
<1>7. Before(l) = After(l)
  BY ONLY <1>1, <1>2, <1>3, <1>5, <1>6, Kinds DEF Before, After
<1> QED
  BY <1>4, <1>7, Kinds

\* The picture is published: the queue holds it ...
LEMMA PublishCounted ==
    ASSUME TypeOK, ReferencesCounted, ThreadsInv, EpochInv, OwnEnvelope, PublishQueued,
           NEW l \in Leases
    PROVE  lease'[l].refs = Holders(l)'
<1>0. /\ lease[l].refs = Before(l) /\ Holders(l)' = After(l)
      /\ P0(l) \in Nat /\ A0(l) \in Nat /\ B0(l) \in Nat /\ C0(l) \in Nat
      /\ R0(l) \in Nat /\ I0(l) \in Nat /\ S0(l) \in Nat /\ K0(l) \in Nat
      /\ I1(l) \in Nat /\ S1(l) \in Nat /\ K1(l) \in Nat
  BY Kinds
<1> DEFINE h == One(session.lease = l)
<1>1. session.lease \in Leases /\ lease[session.lease].refs = 0
  BY Publishes, Bounds DEF OwnEnvelope
<1>2. P1(l) = P0(l) + h /\ I1(l) = I0(l)
  <2>1. box'.pending = Append(box.pending, session.lease) /\ box'.image = box.image
    BY Types DEF PublishQueued, BoxType
  <2>2. Count(Append(box.pending, session.lease), l) = Count(box.pending, l) + h
    BY <1>1, BoxFields, CountAppend DEF One
  <2> QED
    BY <2>1, <2>2 DEF P0, P1, I0, I1
<1>3. A1(l) = A0(l) /\ B1(l) = B0(l) /\ C1(l) = C0(l)
  BY SameKinds DEF PublishQueued
<1>4. R1(l) = R0(l) /\ S1(l) = S0(l) /\ K1(l) = K0(l)
  BY SameKinds DEF PublishQueued, SameHands, SameRecords
<1>5. lease'[l].refs = lease[l].refs + h
  <2>1. lease'[session.lease].refs = 1 /\ (l # session.lease => lease'[l] = lease[l])
    BY Publishes
  <2>2. lease[l].refs \in Nat
    BY LeaseFields
  <2> QED
    BY <1>1, <2>1, <2>2 DEF One
<1>6. h \in Nat
  BY DEF One
<1> HIDE DEF h
<1>7. After(l) = Before(l) + h
  BY ONLY <1>2, <1>3, <1>4, <1>6, <1>0 DEF Before, After
<1> QED
  BY <1>5, <1>7, Kinds

\* ... or the session's thread, which lets it go.
LEMMA PublishLostCounted ==
    ASSUME TypeOK, ReferencesCounted, ThreadsInv, EpochInv, OwnEnvelope, PublishDropped,
           NEW l \in Leases
    PROVE  lease'[l].refs = Holders(l)'
<1>0. /\ lease[l].refs = Before(l) /\ Holders(l)' = After(l)
      /\ P0(l) \in Nat /\ A0(l) \in Nat /\ B0(l) \in Nat /\ C0(l) \in Nat
      /\ R0(l) \in Nat /\ I0(l) \in Nat /\ S0(l) \in Nat /\ K0(l) \in Nat
      /\ I1(l) \in Nat /\ S1(l) \in Nat /\ K1(l) \in Nat
  BY Kinds
<1> DEFINE h == One(session.lease = l)
<1>1. session.lease \in Leases /\ lease[session.lease].refs = 0
  BY Publishes, Bounds DEF OwnEnvelope
<1>2. A0(l) = 0 /\ A1(l) = h /\ B1(l) = B0(l) /\ C1(l) = C0(l)
  <2>1. drop' = [drop EXCEPT !["session"] = <<session.lease>>]
    BY DEF PublishDropped
  <2>2. Count(<<session.lease>>, l) = h
    BY <1>1, CountShort DEF One
  <2>3. drop["session"] = <<>> /\ "session" \in Threads
    BY DEF PublishDropped, Threads
  <2>4. A1(l) = Count(<<session.lease>>, l) /\ B1(l) = B0(l) /\ C1(l) = C0(l)
    BY <2>1, <2>3, DropKinds
  <2> QED
    BY <2>2, <2>3, <2>4, NothingLet DEF A0
<1>3. P1(l) = P0(l) /\ I1(l) = I0(l) /\ R1(l) = R0(l) /\ S1(l) = S0(l) /\ K1(l) = K0(l)
  BY SameKinds DEF PublishDropped, SamePlaces, SameHands, SameRecords
<1>4. lease'[l].refs = lease[l].refs + h
  <2>1. lease'[session.lease].refs = 1 /\ (l # session.lease => lease'[l] = lease[l])
    BY Publishes
  <2>2. lease[l].refs \in Nat
    BY LeaseFields
  <2> QED
    BY <1>1, <2>1, <2>2 DEF One
<1>5. h \in Nat
  BY DEF One
<1> HIDE DEF h
<1>6. After(l) = Before(l) + h
  BY ONLY <1>2, <1>3, <1>5, <1>0 DEF Before, After
<1> QED
  BY <1>4, <1>6, Kinds

\* A thread lets one reference go.
LEMMA ReleaseCounted ==
    ASSUME TypeOK, ReferencesCounted, NEW t \in Threads, Release(t), NEW l \in Leases
    PROVE  lease'[l].refs = Holders(l)'
<1>0. /\ lease[l].refs = Before(l) /\ Holders(l)' = After(l)
      /\ P0(l) \in Nat /\ A0(l) \in Nat /\ B0(l) \in Nat /\ C0(l) \in Nat
      /\ R0(l) \in Nat /\ I0(l) \in Nat /\ S0(l) \in Nat /\ K0(l) \in Nat
      /\ I1(l) \in Nat /\ S1(l) \in Nat /\ K1(l) \in Nat
  BY Kinds
<1> DEFINE h == One(Head(drop[t]) = l)
           r == Count(Tail(drop[t]), l)
<1>1. drop[t] \in Seq(Leases) /\ drop[t] # <<>>
  BY Types DEF Release
<1>2. Letting(t, l) = h + r
  BY <1>1, CountTail DEF Letting, One
<1>3. h \in Nat /\ r \in Nat
  BY <1>1, CountTail, CountPlaces DEF One
<1>4. /\ t = "session" => A1(l) = r /\ B1(l) = B0(l) /\ C1(l) = C0(l)
      /\ t = "main" => B1(l) = r /\ A1(l) = A0(l) /\ C1(l) = C0(l)
      /\ t = "worker" => C1(l) = r /\ A1(l) = A0(l) /\ B1(l) = B0(l)
  <2>1. drop' = [drop EXCEPT ![t] = Tail(drop[t])]
    BY DEF Release
  <2> QED
    BY <2>1, DropKinds
<1>5. /\ t = "session" => A0(l) = h + r
      /\ t = "main" => B0(l) = h + r
      /\ t = "worker" => C0(l) = h + r
  BY <1>2 DEF A0, B0, C0
<1>6. P1(l) = P0(l) /\ I1(l) = I0(l) /\ R1(l) = R0(l) /\ S1(l) = S0(l) /\ K1(l) = K0(l)
  BY SameKinds DEF Release, SamePlaces, SameHands, SameRecords
<1>7. lease'[l].refs = lease[l].refs - h
  <2>1. LetsGo({Head(drop[t])})
    <3>1. 1 \in 1 .. Len(drop[t]) /\ Head(drop[t]) = drop[t][1]
      BY <1>1, EmptySeq
    <3>2. \A x \in {Head(drop[t])} \cap Leases : lease[x].refs > 0
      BY <3>1, HeldLives
    <3> QED
      BY <3>2 DEF Release, LetsGo
  <2> QED
    BY <2>1, LetsGoKeeps, OneOf
<1>8. t = "session" \/ t = "main" \/ t = "worker"
  BY DEF Threads
<1> HIDE DEF h, r
<1>9. Before(l) = After(l) + h
  BY ONLY <1>3, <1>4, <1>5, <1>6, <1>8, <1>0 DEF Before, After
<1>10. After(l) \in Nat
  BY ONLY <1>3, <1>4, <1>6, <1>8, <1>0 DEF After
<1> QED
  BY <1>3, <1>7, <1>9, <1>10, Kinds

\* The fence of a batch has passed: it holds nothing any more.
LEMMA CompleteCounted ==
    ASSUME TypeOK, ReferencesCounted, NEW b \in Batches, Completed(b), NEW l \in Leases
    PROVE  lease'[l].refs = Holders(l)'
<1>0. /\ lease[l].refs = Before(l) /\ Holders(l)' = After(l)
      /\ P0(l) \in Nat /\ A0(l) \in Nat /\ B0(l) \in Nat /\ C0(l) \in Nat
      /\ R0(l) \in Nat /\ I0(l) \in Nat /\ S0(l) \in Nat /\ K0(l) \in Nat
      /\ I1(l) \in Nat /\ S1(l) \in Nat /\ K1(l) \in Nat
  BY Kinds
<1> DEFINE h == One(l \in batches[b].frames)
           N == {c \in Batches : l \in batches'[c].frames}
<1>1. batches' = [batches EXCEPT ![b] = FreeBatch] /\ batches'[b].frames = {}
  BY Types DEF Completed, FreeBatch
<1>2. N = Recorders(l) \ {b}
  BY <1>1, Types DEF Recorders
<1>3. IsFiniteSet(Recorders(l))
  BY HoldersByKind
<1>4. Cardinality(N) = IF b \in Recorders(l) THEN Cardinality(Recorders(l)) - 1
                       ELSE Cardinality(Recorders(l))
  BY <1>2, <1>3, FS_RemoveElement
<1>5. b \in Recorders(l) <=> l \in batches[b].frames
  BY DEF Recorders
<1>6. R0(l) = R1(l) + h /\ R1(l) \in Nat
  <2>1. R0(l) \in Nat /\ Cardinality(N) \in Nat
    BY <1>2, <1>3, Kinds, FS_RemoveElement, FS_CardinalityType
  <2>2. R0(l) = Cardinality(Recorders(l)) /\ R1(l) = Cardinality(N)
    BY DEF R0, R1
  <2> QED
    BY <1>4, <1>5, <2>1, <2>2 DEF One
<1>7. /\ P1(l) = P0(l) /\ I1(l) = I0(l) /\ S1(l) = S0(l) /\ K1(l) = K0(l)
      /\ A1(l) = A0(l) /\ B1(l) = B0(l) /\ C1(l) = C0(l)
  BY SameKinds DEF Completed, SamePlaces, SameHands
<1>8. lease'[l].refs = lease[l].refs - h
  <2>1. LetsGo(batches[b].frames)
    BY HeldLives DEF Completed, LetsGo
  <2> QED
    BY <2>1, LetsGoKeeps
<1>9. h \in Nat
  BY DEF One
<1> HIDE DEF h, N
<1>10. Before(l) = After(l) + h
  BY ONLY <1>6, <1>7, <1>9, <1>0 DEF Before, After
<1>11. After(l) \in Nat
  BY ONLY <1>6, <1>7, <1>0 DEF After
<1> QED
  BY <1>8, <1>9, <1>10, <1>11, Kinds

\* The main thread lets the shown frame go, or the selected one, or shows the
\* selected one in the place of the other.
LEMMA MainCounted ==
    ASSUME TypeOK, ReferencesCounted, BatchInv,
           DropStale \/ CheckVoid \/ PresentShown \/ PresentHeld, NEW l \in Leases
    PROVE  lease'[l].refs = Holders(l)'
<1>0. /\ lease[l].refs = Before(l) /\ Holders(l)' = After(l)
      /\ P0(l) \in Nat /\ A0(l) \in Nat /\ B0(l) \in Nat /\ C0(l) \in Nat
      /\ R0(l) \in Nat /\ I0(l) \in Nat /\ S0(l) \in Nat /\ K0(l) \in Nat
      /\ I1(l) \in Nat /\ S1(l) \in Nat /\ K1(l) \in Nat
  BY Kinds
<1>1. P1(l) = P0(l) /\ I1(l) = I0(l) /\ A1(l) = A0(l) /\ B1(l) = B0(l) /\ C1(l) = C0(l)
  BY SameKinds DEF DropStale, CheckVoid, PresentShown, PresentHeld, SamePlaces
<1>2. R1(l) = R0(l)
  <2>1. SameRecords
    <3>1. CASE DropStale \/ CheckVoid
      BY <3>1 DEF DropStale, CheckVoid, SameRecords
    <3>2. CASE PresentShown \/ PresentHeld
      <4>1. batches' = [batches EXCEPT ![Recording].state = "submitted"]
        BY <3>2 DEF PresentShown, PresentHeld
      <4>2. Recording \in Batches
        BY <3>2, RecordingExists DEF PresentShown, PresentHeld
      <4> QED
        BY <4>1, <4>2, StateOnly
    <3> QED
      BY <3>1, <3>2
  <2> QED
    BY <2>1, SameKinds
<1>3. One(0 = l) = 0
  BY Bounds DEF One
<1>4. ASSUME NEW h, h \in Nat, lease'[l].refs = lease[l].refs - h,
             S0(l) + K0(l) = S1(l) + K1(l) + h
      PROVE  lease'[l].refs = Holders(l)'
  <2>1. After(l) \in Nat
    BY ONLY <1>1, <1>2, <1>0 DEF After
  <2>2. Before(l) = After(l) + h
    BY ONLY <1>1, <1>2, <1>4, <1>0 DEF Before, After
  <2> QED
    BY ONLY <1>4, <2>1, <2>2, <1>0
<1>5. CASE DropStale
  <2>1. render'.current = 0 /\ render'.sel = render.sel
    BY <1>5, Types DEF DropStale, RenderType
  <2>2. K1(l) = 0 /\ S1(l) = S0(l)
    BY <1>3, <2>1 DEF K1, S0, S1
  <2>3. lease'[l].refs = lease[l].refs - K0(l)
    BY <1>5, MainLetsGo, LetsGoKeeps, OneOf DEF K0
  <2> QED
    BY <1>4, <2>2, <2>3, Kinds
<1>6. CASE CheckVoid
  <2>1. render'.current = render.current /\ render'.sel.frame = 0
    BY <1>6, Types DEF CheckVoid, RenderType, NoSelection
  <2>2. S1(l) = 0 /\ K1(l) = K0(l)
    BY <1>3, <2>1 DEF S1, K0, K1
  <2>3. lease'[l].refs = lease[l].refs - S0(l)
    BY <1>6, MainLetsGo, LetsGoKeeps, OneOf DEF S0
  <2> QED
    BY <1>4, <2>2, <2>3, Kinds
<1>7. CASE PresentShown
  <2>1. render'.current = render.sel.frame /\ render'.sel.frame = 0
    BY <1>7, Types DEF PresentShown, RenderType, NoSelection
  <2>2. S1(l) = 0 /\ K1(l) = S0(l)
    BY <1>3, <2>1 DEF S0, S1, K1
  <2>3. lease'[l].refs = lease[l].refs - K0(l)
    BY <1>7, MainLetsGo, LetsGoKeeps, OneOf DEF K0
  <2> QED
    BY <1>4, <2>2, <2>3, Kinds
<1>8. CASE PresentHeld
  <2>1. render'.current = render.current /\ render'.sel.frame = 0
    BY <1>8, Types DEF PresentHeld, RenderType, NoSelection
  <2>2. S1(l) = 0 /\ K1(l) = K0(l)
    BY <1>3, <2>1 DEF S1, K0, K1
  <2>3. lease'[l].refs = lease[l].refs - S0(l)
    BY <1>8, MainLetsGo, LetsGoKeeps, OneOf DEF S0
  <2> QED
    BY <1>4, <2>2, <2>3, Kinds
<1> QED
  BY <1>5, <1>6, <1>7, <1>8

\* What is drawn is recorded once more, unless the batch has it already.
LEMMA DrawCounted ==
    ASSUME TypeOK, ReferencesCounted, BatchInv, Draw \/ DrawFails, NEW l \in Leases
    PROVE  lease'[l].refs = Holders(l)'
<1>0. /\ lease[l].refs = Before(l) /\ Holders(l)' = After(l)
      /\ P0(l) \in Nat /\ A0(l) \in Nat /\ B0(l) \in Nat /\ C0(l) \in Nat
      /\ R0(l) \in Nat /\ I0(l) \in Nat /\ S0(l) \in Nat /\ K0(l) \in Nat
      /\ I1(l) \in Nat /\ S1(l) \in Nat /\ K1(l) \in Nat
  BY Kinds
<1> DEFINE h == One(Target = l /\ Target \notin batches[Recording].frames)
           N == {c \in Batches : l \in batches'[c].frames}
<1>1. Target \in Leases /\ Recording \in Batches
  BY Draws
<1>2. \A c \in Batches : batches'[c].frames = IF c = Recording
                                             THEN batches[c].frames \union {Target}
                                             ELSE batches[c].frames
  <2>1. PICK g \in Groups : batches' = Recorded(Target, g)
    BY Draws
  <2>2. /\ \A c \in Batches : c # Recording => batches'[c] = batches[c]
        /\ batches'[Recording].frames = batches[Recording].frames \union {Target}
    BY <1>1, <2>1, RecordedTyped
  <2> QED
    BY <2>2
<1>3. N = IF Target = l THEN Recorders(l) \union {Recording} ELSE Recorders(l)
  BY <1>1, <1>2 DEF Recorders
<1>4. IsFiniteSet(Recorders(l)) /\ R0(l) \in Nat
  BY HoldersByKind, Kinds
<1>5. Recording \in Recorders(l) <=> l \in batches[Recording].frames
  BY <1>1 DEF Recorders
<1>6. R1(l) = R0(l) + h
  <2>1. Cardinality(Recorders(l) \union {Recording})
          = IF Recording \in Recorders(l) THEN Cardinality(Recorders(l))
            ELSE Cardinality(Recorders(l)) + 1
    BY <1>4, FS_AddElement
  <2>2. R0(l) = Cardinality(Recorders(l)) /\ R1(l) = Cardinality(N)
    BY DEF R0, R1
  <2>3. CASE Target = l
    <3>1. N = Recorders(l) \union {Recording}
      BY <1>3, <2>3
    <3>2. h = IF l \in batches[Recording].frames THEN 0 ELSE 1
      BY <2>3 DEF One
    <3> HIDE DEF h, N
    <3> QED
      BY <1>4, <1>5, <2>1, <2>2, <3>1, <3>2
  <2>4. CASE Target # l
    <3>1. N = Recorders(l) /\ h = 0
      BY <1>3, <2>4 DEF One
    <3> HIDE DEF h, N
    <3> QED
      BY <1>4, <2>2, <3>1
  <2> QED
    BY <2>3, <2>4
<1>7. /\ P1(l) = P0(l) /\ I1(l) = I0(l) /\ S1(l) = S0(l) /\ K1(l) = K0(l)
      /\ A1(l) = A0(l) /\ B1(l) = B0(l) /\ C1(l) = C0(l)
  <2>1. SameHands
    BY Types DEF Draw, DrawFails, RenderType, SameHands
  <2> QED
    BY <2>1, SameKinds DEF Draw, DrawFails, SamePlaces
<1>8. lease'[l].refs = lease[l].refs + h
  <2>1. CASE Target \in batches[Recording].frames /\ UNCHANGED lease
    <3>1. h = 0 /\ lease[l].refs \in Nat
      BY <2>1, LeaseFields DEF One
    <3> HIDE DEF h
    <3> QED
      BY <2>1, <3>1
  <2>2. CASE Target \notin batches[Recording].frames /\ Takes({Target})
    <3>1. h = One(Target = l)
      BY <2>2 DEF One
    <3> HIDE DEF h
    <3> QED
      BY <2>2, <3>1, TakesKeeps, OneOf
  <2> QED
    BY <2>1, <2>2, Draws
<1>9. h \in Nat
  BY DEF One
<1> HIDE DEF h, N
<1>10. After(l) = Before(l) + h
  BY ONLY <1>6, <1>7, <1>9, <1>0 DEF Before, After
<1> QED
  BY <1>8, <1>10, Kinds

\* The selection takes its own picture out of the queue, and the main thread the
\* passed ones and the image it replaces.
LEMMA SelectCounted ==
    ASSUME TypeOK, ReferencesCounted, ThreadsInv, NEW n, NEW k, n \in 1 .. Len(box.jobs),
           k \in 0 .. Len(box.pending), Selects(n, k), NEW l \in Leases
    PROVE  lease'[l].refs = Holders(l)'
<1>0. /\ lease[l].refs = Before(l) /\ Holders(l)' = After(l)
      /\ P0(l) \in Nat /\ A0(l) \in Nat /\ B0(l) \in Nat /\ C0(l) \in Nat
      /\ R0(l) \in Nat /\ I0(l) \in Nat /\ S0(l) \in Nat /\ K0(l) \in Nat
      /\ I1(l) \in Nat /\ S1(l) \in Nat /\ K1(l) \in Nat
  BY Kinds
<1> DEFINE h == One(Chosen(n, k) = l)
           q == Count(SubSeq(box.pending, 1, PassedBy(n, k)), l)
           own == OwnPicture(box.jobs[n], k)
<1>1. box.pending \in Seq(Leases) /\ Len(box.pending) \in Nat
  BY BoxFields
<1>2. P0(l) = q + h + P1(l)
  <2>1. Count(box.pending, l) = Count(SubSeq(box.pending, 1, k), l)
                                + Count(SubSeq(box.pending, k + 1, Len(box.pending)), l)
    BY <1>1, CountSplit
  <2>2. Count(SubSeq(box.pending, 1, k), l) = q + h
    <3>1. CASE ~own
      <4>1. PassedBy(n, k) = k /\ Chosen(n, k) = 0
        BY <3>1 DEF PassedBy, Chosen
      <4>2. h = 0
        BY <4>1, Bounds DEF One
      <4>3. Count(SubSeq(box.pending, 1, k), l) \in Nat
        <5>1. SubSeq(box.pending, 1, k) \in Seq(Leases)
          BY <1>1, SubSeqProperties
        <5> QED
          BY <5>1, CountPlaces
      <4> QED
        BY <4>1, <4>2, <4>3
    <3>2. CASE own
      <4>1. k \in 1 .. Len(box.pending) /\ PassedBy(n, k) = k - 1 /\ Chosen(n, k) = box.pending[k]
        BY <3>2, ChosenTyped DEF PassedBy, Chosen
      <4>2. SubSeq(box.pending, 1, k) = SubSeq(box.pending, 1, k - 1) \o <<box.pending[k]>>
        BY <1>1, <4>1, SubSeqRecursiveSecond
      <4>3. SubSeq(box.pending, 1, k - 1) \in Seq(Leases) /\ box.pending[k] \in Leases
            /\ <<box.pending[k]>> \in Seq(Leases)
        BY <1>1, <4>1, SubSeqProperties
      <4>4. Count(SubSeq(box.pending, 1, k - 1) \o <<box.pending[k]>>, l)
              = Count(SubSeq(box.pending, 1, k - 1), l) + Count(<<box.pending[k]>>, l)
        BY <4>3, CountConcat
      <4>5. Count(<<box.pending[k]>>, l) = One(box.pending[k] = l)
        BY <4>3, CountShort DEF One
      <4>6. q = Count(SubSeq(box.pending, 1, k - 1), l) /\ h = One(box.pending[k] = l)
        BY <4>1
      <4>7. Count(SubSeq(box.pending, 1, k), l)
              = Count(SubSeq(box.pending, 1, k - 1) \o <<box.pending[k]>>, l)
        BY <4>2
      <4> HIDE DEF q, h
      <4> QED
        BY ONLY <4>4, <4>5, <4>6, <4>7
    <3> QED
      BY <3>1, <3>2
  <2>3. box'.pending = SubSeq(box.pending, k + 1, Len(box.pending))
    BY Types DEF Selects, BoxType
  <2>4. /\ P0(l) = Count(box.pending, l)
        /\ P1(l) = Count(SubSeq(box.pending, k + 1, Len(box.pending)), l)
    BY <2>3 DEF P0, P1
  <2> HIDE DEF q, h
  <2> QED
    BY ONLY <2>1, <2>2, <2>4
<1>3. I1(l) = h /\ S1(l) = h /\ K1(l) = K0(l) /\ S0(l) = 0
  <2>1. box'.image = Chosen(n, k)
    BY Types DEF Selects, BoxType
  <2>2. render'.sel.frame = Chosen(n, k) /\ render'.current = render.current
    BY Types DEF Selects, RenderType
  <2>3. render.sel.frame = 0
    BY DEF Selects, ThreadsInv, NoSelection
  <2> QED
    BY <2>1, <2>2, <2>3, Bounds DEF I1, S0, S1, K0, K1, One
<1>4. B0(l) = 0 /\ B1(l) = q + I0(l) /\ A1(l) = A0(l) /\ C1(l) = C0(l)
  <2>1. drop' = [drop EXCEPT !["main"] = SubSeq(box.pending, 1, PassedBy(n, k)) \o Shown]
    BY DEF Selects
  <2>2. drop["main"] = <<>> /\ "main" \in Threads
    BY DEF Selects, Threads
  <2>3. B1(l) = Count(SubSeq(box.pending, 1, PassedBy(n, k)) \o Shown, l)
        /\ A1(l) = A0(l) /\ C1(l) = C0(l)
    BY <2>1, <2>2, DropKinds
  <2>4. SubSeq(box.pending, 1, PassedBy(n, k)) \in Seq(Leases) /\ Shown \in Seq(Leases)
    BY <1>1, ChosenTyped, SubSeqProperties, QueuedTyped
  <2>5. Count(SubSeq(box.pending, 1, PassedBy(n, k)) \o Shown, l) = q + Count(Shown, l)
    BY <2>4, CountConcat
  <2>6. Count(Shown, l) = I0(l)
    BY QueuedCounted DEF I0
  <2> QED
    BY <2>2, <2>3, <2>5, <2>6, NothingLet DEF B0
<1>5. R1(l) = R0(l)
  <2>1. PICK b \in Batches : batches' = [batches EXCEPT ![b].state = "recording"]
    BY DEF Selects, FreeBatches
  <2> QED
    BY <2>1, StateOnly, SameKinds
<1>6. lease'[l].refs = lease[l].refs + h
  <2>1. Takes({Chosen(n, k)})
    BY SelectTakes
  <2>2. lease'[l].refs = lease[l].refs + One(l \in {Chosen(n, k)})
    BY <2>1, TakesKeeps
  <2> QED
    BY <2>2, OneOf
<1>7. h \in Nat /\ q \in Nat /\ P1(l) \in Nat
  <2>1. SubSeq(box.pending, 1, PassedBy(n, k)) \in Seq(Leases)
        /\ SubSeq(box.pending, k + 1, Len(box.pending)) \in Seq(Leases)
    BY <1>1, ChosenTyped, SubSeqProperties
  <2>2. box'.pending = SubSeq(box.pending, k + 1, Len(box.pending))
    BY Types DEF Selects, BoxType
  <2> QED
    BY <2>1, <2>2, CountPlaces DEF One, P1
<1> HIDE DEF h, q
<1>8. After(l) = Before(l) + h
  <2>1. After(l) = P1(l) + A0(l) + (q + I0(l)) + C0(l) + R0(l) + h + h + K0(l)
    BY ONLY <1>3, <1>4, <1>5 DEF After
  <2>2. Before(l) = (q + h + P1(l)) + A0(l) + 0 + C0(l) + R0(l) + I0(l) + 0 + K0(l)
    BY ONLY <1>2, <1>3, <1>4 DEF Before
  <2> QED
    BY ONLY <2>1, <2>2, <1>7, <1>0
<1> QED
  BY <1>6, <1>8, Kinds

\* Every step keeps the references counted.
LEMMA CountedNext ==
    ASSUME TypeOK, ReferencesCounted, ThreadsInv, EpochInv, BatchInv, OwnEnvelope, Steps
    PROVE  ReferencesCounted'
<1>1. CASE EvictOldest \/ PublishQueued \/ PublishDropped
  BY <1>1, EvictCounted, PublishCounted, PublishLostCounted DEF ReferencesCounted
<1>2. CASE FlushActive
  <2>1. SameHands /\ SameRecords
    BY <1>2 DEF FlushActive, SameHands, SameRecords
  <2> QED
    BY <1>2, <2>1, CloseCounted DEF FlushActive, Threads
<1>3. CASE StopActive
  <2>1. SameHands /\ SameRecords
    BY <1>3 DEF StopActive, SameHands, SameRecords
  <2> QED
    BY <1>3, <2>1, CloseCounted DEF StopActive, Threads
<1>4. CASE MainClosesActive
  <2>1. SameHands /\ SameRecords
    BY <1>4, Types DEF MainClosesActive, RenderType, SameHands, SameRecords
  <2> QED
    BY <1>4, <2>1, CloseCounted DEF MainClosesActive, Threads
<1>5. CASE CloseFailedActive
  <2>1. SameHands /\ SameRecords
    BY <1>5, Types DEF CloseFailedActive, RenderType, SameHands, SameRecords
  <2> QED
    BY <1>5, <2>1, CloseCounted DEF CloseFailedActive, Threads
<1>6. CASE WorkerClosesActive
  <2>1. SameHands /\ SameRecords
    BY <1>6 DEF WorkerClosesActive, SameHands, SameRecords
  <2> QED
    BY <1>6, <2>1, CloseCounted DEF WorkerClosesActive, Threads
<1>7. CASE (\E t \in Threads : Release(t)) \/ (\E b \in Batches : Completed(b))
  BY <1>7, ReleaseCounted, CompleteCounted DEF ReferencesCounted
<1>8. CASE DropStale \/ CheckVoid \/ PresentShown \/ PresentHeld
  BY <1>8, MainCounted DEF ReferencesCounted
<1>9. CASE Select
  BY <1>9, SelectParts, SelectCounted DEF ReferencesCounted
<1>10. CASE Draw \/ DrawFails
  BY <1>10, DrawCounted DEF ReferencesCounted
<1>11. CASE SamePlaces /\ SameHands /\ SameRecords /\ UNCHANGED drop /\ UNCHANGED lease
  BY <1>11, QuietCounted
<1> QED
  BY <1>1, <1>2, <1>3, <1>4, <1>5, <1>6, <1>7, <1>8, <1>9, <1>10, <1>11,
     PlacesSteps, HandsSteps, RecordSteps, DropSteps, LeaseSteps

-----------------------------------------------------------------------------
(* The threads: who holds the decoder lock, and where each of them is.     *)

\* The decoder lock is held by who is within its critical section.
LEMMA LockKept ==
    ASSUME TypeOK, ThreadsInv, EpochInv, Steps
    PROVE  lock' = "session" <=> session'.pc \in Holding \/ reap'["session"].stage = "maps"
<1>1. CASE Start
  BY <1>1, Types
   DEF Start, SessionType, ReapType, Reapers, Holding, ThreadsInv
<1>2. CASE Name
  <2>1. reap["session"].at = Domains + 1 /\ "session" \in Reapers
    BY <1>2 DEF Name, Reapers
  <2>2. reap["session"].at \notin 1 .. Domains
    BY <2>1, Bounds
  <2>3. reap["session"].stage = "look"
    BY <2>1, <2>2 DEF ThreadsInv
  <2> QED
    BY <1>2, <2>3, Types DEF Name, SessionType, ReapType, Reapers, Holding, ThreadsInv
<1>3. CASE OpenRefused
  BY <1>3, Types
   DEF OpenRefused, SessionType, ReapType, Reapers, Holding, ThreadsInv
<1>4. CASE OpenBare
  BY <1>4, Types
   DEF OpenBare, SessionType, ReapType, Reapers, Holding, ThreadsInv
<1>5. CASE OpenDomain
  BY <1>5, Types
   DEF OpenDomain, SessionType, ReapType, Reapers, Holding, ThreadsInv
<1>6. CASE OpenFails
  BY <1>6, Types
   DEF OpenFails, SessionType, ReapType, Reapers, Holding, ThreadsInv
<1>7. CASE OpenedAccepted
  BY <1>7, Types
   DEF OpenedAccepted, SessionType, ReapType, Reapers, Holding, ThreadsInv
<1>8. CASE OpenedInVain
  BY <1>8, Types
   DEF OpenedInVain, SessionType, ReapType, Reapers, Holding, ThreadsInv
<1>9. CASE SubmitReset
  BY <1>9, Types
   DEF SubmitReset, SessionType, ReapType, Reapers, Holding, ThreadsInv
<1>10. CASE SubmitFails
  BY <1>10, Types
   DEF SubmitFails, SessionType, ReapType, Reapers, Holding, ThreadsInv
<1>11. CASE SubmitAccepted
  BY <1>11, Types
   DEF SubmitAccepted, SessionType, ReapType, Reapers, Holding, ThreadsInv
<1>12. CASE Rejected
  BY <1>12, Types
   DEF Rejected, SessionType, ReapType, Reapers, Holding, ThreadsInv
<1>13. CASE NoPicture
  BY <1>13, Types
   DEF NoPicture, SessionType, ReapType, Reapers, Holding, ThreadsInv
<1>14. CASE Acquire
  BY <1>14, Types
   DEF Acquire, SessionType, ReapType, Reapers, Holding, ThreadsInv
<1>15. CASE EvictNone
  BY <1>15, Types
   DEF EvictNone, SessionType, ReapType, Reapers, Holding, ThreadsInv
<1>16. CASE EvictOldest
  BY <1>16, Types
   DEF EvictOldest, SessionType, ReapType, Reapers, Holding, ThreadsInv
<1>17. CASE Exhausted
  BY <1>17, Types
   DEF Exhausted, SessionType, ReapType, Reapers, Holding, ThreadsInv
<1>18. CASE PublishQueued
  BY <1>18, Types
   DEF PublishQueued, SessionType, ReapType, Reapers, Holding, ThreadsInv
<1>19. CASE PublishDropped
  BY <1>19, Types
   DEF PublishDropped, SessionType, ReapType, Reapers, Holding, ThreadsInv
<1>20. CASE QueueAccepted
  BY <1>20, Types
   DEF QueueAccepted, SessionType, ReapType, Reapers, Holding, ThreadsInv
<1>21. CASE QueueRefused
  BY <1>21, Types
   DEF QueueRefused, SessionType, ReapType, Reapers, Holding, ThreadsInv
<1>22. CASE StopActive
  BY <1>22, Types
   DEF StopActive, SessionType, ReapType, Reapers, Holding, ThreadsInv
<1>23. CASE StopStale
  BY <1>23, Types
   DEF StopStale, SessionType, ReapType, Reapers, Holding, ThreadsInv
<1>24. CASE StopNothing
  BY <1>24, Types
   DEF StopNothing, SessionType, ReapType, Reapers, Holding, ThreadsInv
<1>25. CASE StopCodec
  BY <1>25, Types
   DEF StopCodec, SessionType, ReapType, Reapers, Holding, ThreadsInv
<1>26. CASE Teardown
  BY <1>26, Types
   DEF Teardown, SessionType, ReapType, Reapers, Holding, ThreadsInv
<1>27. CASE Stopped
  <2>1. reap["session"].at = Domains + 1 /\ "session" \in Reapers
    BY <1>27 DEF Stopped, Reapers
  <2>2. reap["session"].at \notin 1 .. Domains
    BY <2>1, Bounds
  <2>3. reap["session"].stage = "look"
    BY <2>1, <2>2 DEF ThreadsInv
  <2> QED
    BY <1>27, <2>3, Types DEF Stopped, SessionType, ReapType, Reapers, Holding, ThreadsInv
<1>28. CASE (\E t \in Reapers : ReapPasses(t))
  <2>1. PICK t \in Reapers : ReapPasses(t)
    BY <1>28
  <2>2. t = "session" \/ t = "worker"
    BY DEF Reapers
  <2> QED
    BY <2>1, <2>2, Types
     DEF ReapPasses, SessionType, ReapType, Reapers, Holding, ThreadsInv
<1>29. CASE (\E t \in Reapers : ReapFinds(t))
  <2>1. PICK t \in Reapers : ReapFinds(t)
    BY <1>29
  <2>2. t = "session" \/ t = "worker"
    BY DEF Reapers
  <2> QED
    BY <2>1, <2>2, Types
     DEF ReapFinds, SessionType, ReapType, Reapers, Holding, ThreadsInv
<1>30. CASE (\E t \in Reapers : ReapLeaves(t))
  <2>1. PICK t \in Reapers : ReapLeaves(t)
    BY <1>30
  <2>2. t = "session" \/ t = "worker"
    BY DEF Reapers
  <2> QED
    BY <2>1, <2>2, Types
     DEF ReapLeaves, SessionType, ReapType, Reapers, Holding, ThreadsInv
<1>31. CASE (\E t \in Reapers : ReapTakes(t))
  <2>1. PICK t \in Reapers : ReapTakes(t)
    BY <1>31
  <2>2. t = "session" \/ t = "worker"
    BY DEF Reapers
  <2> QED
    BY <2>1, <2>2, Types
     DEF ReapTakes, SessionType, ReapType, Reapers, Holding, ThreadsInv
<1>32. CASE (\E t \in Reapers : ReapFree(t))
  <2>1. PICK t \in Reapers : ReapFree(t)
    BY <1>32
  <2>2. t = "session" \/ t = "worker"
    BY DEF Reapers
  <2> QED
    BY <2>1, <2>2, Types
     DEF ReapFree, SessionType, ReapType, Reapers, Holding, ThreadsInv
<1>33. CASE Joined
  BY <1>33, Types
   DEF Joined, SessionType, ReapType, Reapers, Holding, ThreadsInv
<1>34. CASE CleanedDone
  BY <1>34, Types
   DEF CleanedDone, SessionType, ReapType, Reapers, Holding, ThreadsInv
<1>35. CASE CleanedAgain
  BY <1>35, Types
   DEF CleanedAgain, SessionType, ReapType, Reapers, Holding, ThreadsInv
<1>36. CASE UNCHANGED <<lock, session, reap>>
  BY <1>36, Types DEF SessionType, ReapType, Reapers, Holding, ThreadsInv
<1> QED
  BY <1>1, <1>2, <1>3, <1>4, <1>5, <1>6, <1>7, <1>8, <1>9, <1>10, <1>11, <1>12, <1>13, <1>14,
     <1>15, <1>16, <1>17, <1>18, <1>19, <1>20, <1>21, <1>22, <1>23, <1>24, <1>25, <1>26,
     <1>27, <1>28, <1>29, <1>30, <1>31, <1>32, <1>33, <1>34, <1>35, <1>36, LockSteps,
     SessionSteps, ReapSteps

\* ... and so is the worker's.
LEMMA WorkerLockKept ==
    ASSUME TypeOK, ThreadsInv, EpochInv, Steps
    PROVE  lock' = "worker" <=> reap'["worker"].stage = "maps"
<1>1. CASE Start
  BY <1>1, Types
   DEF Start, SessionType, ReapType, Reapers, Holding, ThreadsInv
<1>2. CASE Name
  BY <1>2, Types
   DEF Name, SessionType, ReapType, Reapers, Holding, ThreadsInv
<1>3. CASE OpenDomain
  BY <1>3, Types
   DEF OpenDomain, SessionType, ReapType, Reapers, Holding, ThreadsInv
<1>4. CASE OpenFails
  BY <1>4, Types
   DEF OpenFails, SessionType, ReapType, Reapers, Holding, ThreadsInv
<1>5. CASE OpenedAccepted
  BY <1>5, Types
   DEF OpenedAccepted, SessionType, ReapType, Reapers, Holding, ThreadsInv
<1>6. CASE OpenedInVain
  BY <1>6, Types
   DEF OpenedInVain, SessionType, ReapType, Reapers, Holding, ThreadsInv
<1>7. CASE SubmitAccepted
  BY <1>7, Types
   DEF SubmitAccepted, SessionType, ReapType, Reapers, Holding, ThreadsInv
<1>8. CASE Rejected
  BY <1>8, Types
   DEF Rejected, SessionType, ReapType, Reapers, Holding, ThreadsInv
<1>9. CASE Exhausted
  BY <1>9, Types
   DEF Exhausted, SessionType, ReapType, Reapers, Holding, ThreadsInv
<1>10. CASE QueueAccepted
  BY <1>10, Types
   DEF QueueAccepted, SessionType, ReapType, Reapers, Holding, ThreadsInv
<1>11. CASE QueueRefused
  BY <1>11, Types
   DEF QueueRefused, SessionType, ReapType, Reapers, Holding, ThreadsInv
<1>12. CASE StopNothing
  BY <1>12, Types
   DEF StopNothing, SessionType, ReapType, Reapers, Holding, ThreadsInv
<1>13. CASE Teardown
  BY <1>13, Types
   DEF Teardown, SessionType, ReapType, Reapers, Holding, ThreadsInv
<1>14. CASE Stopped
  BY <1>14, Types
   DEF Stopped, SessionType, ReapType, Reapers, Holding, ThreadsInv
<1>15. CASE (\E t \in Reapers : ReapPasses(t))
  <2>1. PICK t \in Reapers : ReapPasses(t)
    BY <1>15
  <2>2. t = "session" \/ t = "worker"
    BY DEF Reapers
  <2> QED
    BY <2>1, <2>2, Types
     DEF ReapPasses, SessionType, ReapType, Reapers, Holding, ThreadsInv
<1>16. CASE (\E t \in Reapers : ReapFinds(t))
  <2>1. PICK t \in Reapers : ReapFinds(t)
    BY <1>16
  <2>2. t = "session" \/ t = "worker"
    BY DEF Reapers
  <2> QED
    BY <2>1, <2>2, Types
     DEF ReapFinds, SessionType, ReapType, Reapers, Holding, ThreadsInv
<1>17. CASE (\E t \in Reapers : ReapLeaves(t))
  <2>1. PICK t \in Reapers : ReapLeaves(t)
    BY <1>17
  <2>2. t = "session" \/ t = "worker"
    BY DEF Reapers
  <2> QED
    BY <2>1, <2>2, Types
     DEF ReapLeaves, SessionType, ReapType, Reapers, Holding, ThreadsInv
<1>18. CASE (\E t \in Reapers : ReapTakes(t))
  <2>1. PICK t \in Reapers : ReapTakes(t)
    BY <1>18
  <2>2. t = "session" \/ t = "worker"
    BY DEF Reapers
  <2> QED
    BY <2>1, <2>2, Types
     DEF ReapTakes, SessionType, ReapType, Reapers, Holding, ThreadsInv
<1>19. CASE (\E t \in Reapers : ReapFree(t))
  <2>1. PICK t \in Reapers : ReapFree(t)
    BY <1>19
  <2>2. t = "session" \/ t = "worker"
    BY DEF Reapers
  <2> QED
    BY <2>1, <2>2, Types
     DEF ReapFree, SessionType, ReapType, Reapers, Holding, ThreadsInv
<1>20. CASE Joined
  BY <1>20, Types
   DEF Joined, SessionType, ReapType, Reapers, Holding, ThreadsInv
<1>21. CASE CleanedDone
  <2>1. reap["worker"].at = Domains + 1 /\ "worker" \in Reapers
    BY <1>21 DEF CleanedDone, Reapers
  <2>2. reap["worker"].at \notin 1 .. Domains
    BY <2>1, Bounds
  <2>3. reap["worker"].stage = "look"
    BY <2>1, <2>2 DEF ThreadsInv
  <2> QED
    BY <1>21, <2>3, Types DEF CleanedDone, SessionType, ReapType, Reapers, Holding, ThreadsInv
<1>22. CASE CleanedAgain
  <2>1. reap["worker"].at = Domains + 1 /\ "worker" \in Reapers
    BY <1>22 DEF CleanedAgain, Reapers
  <2>2. reap["worker"].at \notin 1 .. Domains
    BY <2>1, Bounds
  <2>3. reap["worker"].stage = "look"
    BY <2>1, <2>2 DEF ThreadsInv
  <2> QED
    BY <1>22, <2>3, Types DEF CleanedAgain, SessionType, ReapType, Reapers, Holding, ThreadsInv
<1>23. CASE UNCHANGED <<lock, reap>>
  BY <1>23, Types DEF SessionType, ReapType, Reapers, Holding, ThreadsInv
<1> QED
  BY <1>1, <1>2, <1>3, <1>4, <1>5, <1>6, <1>7, <1>8, <1>9, <1>10, <1>11, <1>12, <1>13, <1>14,
     <1>15, <1>16, <1>17, <1>18, <1>19, <1>20, <1>21, <1>22, <1>23, LockSteps, ReapSteps

\* The session's thread reaps at the start and the stop of an epoch.
LEMMA SessionReapKept ==
    ASSUME TypeOK, ThreadsInv, EpochInv, Steps
    PROVE  session'.pc \in {"start", "stopped"} <=> reap'["session"].at # 0
<1>1. CASE Start
  BY <1>1, Types
   DEF Start, SessionType, ReapType, Reapers, ThreadsInv
<1>2. CASE Name
  BY <1>2, Types
   DEF Name, SessionType, ReapType, Reapers, ThreadsInv
<1>3. CASE OpenRefused
  BY <1>3, Types
   DEF OpenRefused, SessionType, ReapType, Reapers, ThreadsInv
<1>4. CASE OpenBare
  BY <1>4, Types
   DEF OpenBare, SessionType, ReapType, Reapers, ThreadsInv
<1>5. CASE OpenDomain
  BY <1>5, Types
   DEF OpenDomain, SessionType, ReapType, Reapers, ThreadsInv
<1>6. CASE OpenFails
  BY <1>6, Types
   DEF OpenFails, SessionType, ReapType, Reapers, ThreadsInv
<1>7. CASE OpenedAccepted
  BY <1>7, Types
   DEF OpenedAccepted, SessionType, ReapType, Reapers, ThreadsInv
<1>8. CASE OpenedInVain
  BY <1>8, Types
   DEF OpenedInVain, SessionType, ReapType, Reapers, ThreadsInv
<1>9. CASE SubmitReset
  BY <1>9, Types
   DEF SubmitReset, SessionType, ReapType, Reapers, ThreadsInv
<1>10. CASE SubmitFails
  BY <1>10, Types
   DEF SubmitFails, SessionType, ReapType, Reapers, ThreadsInv
<1>11. CASE SubmitAccepted
  BY <1>11, Types
   DEF SubmitAccepted, SessionType, ReapType, Reapers, ThreadsInv
<1>12. CASE Rejected
  BY <1>12, Types
   DEF Rejected, SessionType, ReapType, Reapers, ThreadsInv
<1>13. CASE NoPicture
  BY <1>13, Types
   DEF NoPicture, SessionType, ReapType, Reapers, ThreadsInv
<1>14. CASE Acquire
  BY <1>14, Types
   DEF Acquire, SessionType, ReapType, Reapers, ThreadsInv
<1>15. CASE EvictNone
  BY <1>15, Types
   DEF EvictNone, SessionType, ReapType, Reapers, ThreadsInv
<1>16. CASE EvictOldest
  BY <1>16, Types
   DEF EvictOldest, SessionType, ReapType, Reapers, ThreadsInv
<1>17. CASE Exhausted
  BY <1>17, Types
   DEF Exhausted, SessionType, ReapType, Reapers, ThreadsInv
<1>18. CASE PublishQueued
  BY <1>18, Types
   DEF PublishQueued, SessionType, ReapType, Reapers, ThreadsInv
<1>19. CASE PublishDropped
  BY <1>19, Types
   DEF PublishDropped, SessionType, ReapType, Reapers, ThreadsInv
<1>20. CASE QueueAccepted
  BY <1>20, Types
   DEF QueueAccepted, SessionType, ReapType, Reapers, ThreadsInv
<1>21. CASE QueueRefused
  BY <1>21, Types
   DEF QueueRefused, SessionType, ReapType, Reapers, ThreadsInv
<1>22. CASE StopActive
  BY <1>22, Types
   DEF StopActive, SessionType, ReapType, Reapers, ThreadsInv
<1>23. CASE StopStale
  BY <1>23, Types
   DEF StopStale, SessionType, ReapType, Reapers, ThreadsInv
<1>24. CASE StopNothing
  BY <1>24, Types
   DEF StopNothing, SessionType, ReapType, Reapers, ThreadsInv
<1>25. CASE StopCodec
  BY <1>25, Types
   DEF StopCodec, SessionType, ReapType, Reapers, ThreadsInv
<1>26. CASE Teardown
  BY <1>26, Types
   DEF Teardown, SessionType, ReapType, Reapers, ThreadsInv
<1>27. CASE Stopped
  BY <1>27, Types
   DEF Stopped, SessionType, ReapType, Reapers, ThreadsInv
<1>28. CASE (\E t \in Reapers : ReapPasses(t))
  <2>1. PICK t \in Reapers : ReapPasses(t)
    BY <1>28
  <2>2. t = "session" \/ t = "worker"
    BY DEF Reapers
  <2> QED
    BY <2>1, <2>2, Types
     DEF ReapPasses, SessionType, ReapType, Reapers, ThreadsInv
<1>29. CASE (\E t \in Reapers : ReapFinds(t))
  <2>1. PICK t \in Reapers : ReapFinds(t)
    BY <1>29
  <2>2. t = "session" \/ t = "worker"
    BY DEF Reapers
  <2> QED
    BY <2>1, <2>2, Types
     DEF ReapFinds, SessionType, ReapType, Reapers, ThreadsInv
<1>30. CASE (\E t \in Reapers : ReapLeaves(t))
  <2>1. PICK t \in Reapers : ReapLeaves(t)
    BY <1>30
  <2>2. t = "session" \/ t = "worker"
    BY DEF Reapers
  <2> QED
    BY <2>1, <2>2, Types
     DEF ReapLeaves, SessionType, ReapType, Reapers, ThreadsInv
<1>31. CASE (\E t \in Reapers : ReapTakes(t))
  <2>1. PICK t \in Reapers : ReapTakes(t)
    BY <1>31
  <2>2. t = "session" \/ t = "worker"
    BY DEF Reapers
  <2> QED
    BY <2>1, <2>2, Types
     DEF ReapTakes, SessionType, ReapType, Reapers, ThreadsInv
<1>32. CASE (\E t \in Reapers : ReapFree(t))
  <2>1. PICK t \in Reapers : ReapFree(t)
    BY <1>32
  <2>2. t = "session" \/ t = "worker"
    BY DEF Reapers
  <2> QED
    BY <2>1, <2>2, Types
     DEF ReapFree, SessionType, ReapType, Reapers, ThreadsInv
<1>33. CASE Joined
  BY <1>33, Types
   DEF Joined, SessionType, ReapType, Reapers, ThreadsInv
<1>34. CASE CleanedDone
  BY <1>34, Types
   DEF CleanedDone, SessionType, ReapType, Reapers, ThreadsInv
<1>35. CASE CleanedAgain
  BY <1>35, Types
   DEF CleanedAgain, SessionType, ReapType, Reapers, ThreadsInv
<1>36. CASE UNCHANGED <<session, reap>>
  BY <1>36, Types DEF SessionType, ReapType, Reapers, ThreadsInv
<1> QED
  BY <1>1, <1>2, <1>3, <1>4, <1>5, <1>6, <1>7, <1>8, <1>9, <1>10, <1>11, <1>12, <1>13, <1>14,
     <1>15, <1>16, <1>17, <1>18, <1>19, <1>20, <1>21, <1>22, <1>23, <1>24, <1>25, <1>26,
     <1>27, <1>28, <1>29, <1>30, <1>31, <1>32, <1>33, <1>34, <1>35, <1>36, SessionSteps,
     ReapSteps

\* The worker reaps after the join.
LEMMA WorkerReapKept ==
    ASSUME TypeOK, ThreadsInv, EpochInv, Steps
    PROVE  worker' = "clean" <=> reap'["worker"].at # 0
<1>1. CASE Start
  BY <1>1, Types
   DEF Start, ReapType, Reapers, ThreadsInv
<1>2. CASE Name
  BY <1>2, Types
   DEF Name, ReapType, Reapers, ThreadsInv
<1>3. CASE StopNothing
  BY <1>3, Types
   DEF StopNothing, ReapType, Reapers, ThreadsInv
<1>4. CASE Teardown
  BY <1>4, Types
   DEF Teardown, ReapType, Reapers, ThreadsInv
<1>5. CASE Stopped
  BY <1>5, Types
   DEF Stopped, ReapType, Reapers, ThreadsInv
<1>6. CASE (\E t \in Reapers : ReapPasses(t))
  <2>1. PICK t \in Reapers : ReapPasses(t)
    BY <1>6
  <2>2. t = "session" \/ t = "worker"
    BY DEF Reapers
  <2> QED
    BY <2>1, <2>2, Types
     DEF ReapPasses, ReapType, Reapers, ThreadsInv
<1>7. CASE (\E t \in Reapers : ReapFinds(t))
  <2>1. PICK t \in Reapers : ReapFinds(t)
    BY <1>7
  <2>2. t = "session" \/ t = "worker"
    BY DEF Reapers
  <2> QED
    BY <2>1, <2>2, Types
     DEF ReapFinds, ReapType, Reapers, ThreadsInv
<1>8. CASE (\E t \in Reapers : ReapLeaves(t))
  <2>1. PICK t \in Reapers : ReapLeaves(t)
    BY <1>8
  <2>2. t = "session" \/ t = "worker"
    BY DEF Reapers
  <2> QED
    BY <2>1, <2>2, Types
     DEF ReapLeaves, ReapType, Reapers, ThreadsInv
<1>9. CASE (\E t \in Reapers : ReapTakes(t))
  <2>1. PICK t \in Reapers : ReapTakes(t)
    BY <1>9
  <2>2. t = "session" \/ t = "worker"
    BY DEF Reapers
  <2> QED
    BY <2>1, <2>2, Types
     DEF ReapTakes, ReapType, Reapers, ThreadsInv
<1>10. CASE (\E t \in Reapers : ReapFree(t))
  <2>1. PICK t \in Reapers : ReapFree(t)
    BY <1>10
  <2>2. t = "session" \/ t = "worker"
    BY DEF Reapers
  <2> QED
    BY <2>1, <2>2, Types
     DEF ReapFree, ReapType, Reapers, ThreadsInv
<1>11. CASE Thaw
  BY <1>11, Types
   DEF Thaw, ReapType, Reapers, ThreadsInv
<1>12. CASE WorkerFreezes
  BY <1>12, Types
   DEF WorkerFreezes, ReapType, Reapers, ThreadsInv
<1>13. CASE WorkerClosesActive
  BY <1>13, Types
   DEF WorkerClosesActive, ReapType, Reapers, ThreadsInv
<1>14. CASE Joined
  BY <1>14, Types
   DEF Joined, ReapType, Reapers, ThreadsInv
<1>15. CASE CleanedDone
  BY <1>15, Types
   DEF CleanedDone, ReapType, Reapers, ThreadsInv
<1>16. CASE CleanedAgain
  BY <1>16, Types
   DEF CleanedAgain, ReapType, Reapers, ThreadsInv
<1>17. CASE UNCHANGED <<worker, reap>>
  BY <1>17, Types DEF ReapType, Reapers, ThreadsInv
<1> QED
  BY <1>1, <1>2, <1>3, <1>4, <1>5, <1>6, <1>7, <1>8, <1>9, <1>10, <1>11, <1>12, <1>13, <1>14,
     <1>15, <1>16, <1>17, WorkerSteps, ReapSteps

\* A session's thread runs between thaw and join only.
LEMMA SessionLivesKept ==
    ASSUME TypeOK, ThreadsInv, EpochInv, Steps
    PROVE  session'.pc # "idle" => worker' \in {"runs", "frozen", "join"}
<1>1. CASE Start
  BY <1>1, Types
   DEF Start, SessionType, SessionRuns, ThreadsInv
<1>2. CASE Name
  BY <1>2, Types
   DEF Name, SessionType, SessionRuns, ThreadsInv
<1>3. CASE OpenRefused
  BY <1>3, Types
   DEF OpenRefused, SessionType, SessionRuns, ThreadsInv
<1>4. CASE OpenBare
  BY <1>4, Types
   DEF OpenBare, SessionType, SessionRuns, ThreadsInv
<1>5. CASE OpenDomain
  BY <1>5, Types
   DEF OpenDomain, SessionType, SessionRuns, ThreadsInv
<1>6. CASE OpenFails
  BY <1>6, Types
   DEF OpenFails, SessionType, SessionRuns, ThreadsInv
<1>7. CASE OpenedAccepted
  BY <1>7, Types
   DEF OpenedAccepted, SessionType, SessionRuns, ThreadsInv
<1>8. CASE OpenedInVain
  BY <1>8, Types
   DEF OpenedInVain, SessionType, SessionRuns, ThreadsInv
<1>9. CASE SubmitReset
  BY <1>9, Types
   DEF SubmitReset, SessionType, SessionRuns, ThreadsInv
<1>10. CASE SubmitFails
  BY <1>10, Types
   DEF SubmitFails, SessionType, SessionRuns, ThreadsInv
<1>11. CASE SubmitAccepted
  BY <1>11, Types
   DEF SubmitAccepted, SessionType, SessionRuns, ThreadsInv
<1>12. CASE Rejected
  BY <1>12, Types
   DEF Rejected, SessionType, SessionRuns, ThreadsInv
<1>13. CASE NoPicture
  BY <1>13, Types
   DEF NoPicture, SessionType, SessionRuns, ThreadsInv
<1>14. CASE Acquire
  BY <1>14, Types
   DEF Acquire, SessionType, SessionRuns, ThreadsInv
<1>15. CASE EvictNone
  BY <1>15, Types
   DEF EvictNone, SessionType, SessionRuns, ThreadsInv
<1>16. CASE EvictOldest
  BY <1>16, Types
   DEF EvictOldest, SessionType, SessionRuns, ThreadsInv
<1>17. CASE Exhausted
  BY <1>17, Types
   DEF Exhausted, SessionType, SessionRuns, ThreadsInv
<1>18. CASE PublishQueued
  BY <1>18, Types
   DEF PublishQueued, SessionType, SessionRuns, ThreadsInv
<1>19. CASE PublishDropped
  BY <1>19, Types
   DEF PublishDropped, SessionType, SessionRuns, ThreadsInv
<1>20. CASE QueueAccepted
  BY <1>20, Types
   DEF QueueAccepted, SessionType, SessionRuns, ThreadsInv
<1>21. CASE QueueRefused
  BY <1>21, Types
   DEF QueueRefused, SessionType, SessionRuns, ThreadsInv
<1>22. CASE StopActive
  BY <1>22, Types
   DEF StopActive, SessionType, SessionRuns, ThreadsInv
<1>23. CASE StopStale
  BY <1>23, Types
   DEF StopStale, SessionType, SessionRuns, ThreadsInv
<1>24. CASE StopNothing
  BY <1>24, Types
   DEF StopNothing, SessionType, SessionRuns, ThreadsInv
<1>25. CASE StopCodec
  BY <1>25, Types
   DEF StopCodec, SessionType, SessionRuns, ThreadsInv
<1>26. CASE Teardown
  BY <1>26, Types
   DEF Teardown, SessionType, SessionRuns, ThreadsInv
<1>27. CASE Stopped
  BY <1>27, Types
   DEF Stopped, SessionType, SessionRuns, ThreadsInv
<1>28. CASE Thaw
  BY <1>28, Types
   DEF Thaw, SessionType, SessionRuns, ThreadsInv
<1>29. CASE WorkerFreezes
  BY <1>29, Types
   DEF WorkerFreezes, SessionType, SessionRuns, ThreadsInv
<1>30. CASE WorkerClosesActive
  BY <1>30, Types
   DEF WorkerClosesActive, SessionType, SessionRuns, ThreadsInv
<1>31. CASE Joined
  BY <1>31, Types
   DEF Joined, SessionType, SessionRuns, ThreadsInv
<1>32. CASE CleanedDone
  BY <1>32, Types
   DEF CleanedDone, SessionType, SessionRuns, ThreadsInv
<1>33. CASE UNCHANGED <<worker, session>>
  BY <1>33, Types DEF SessionType, SessionRuns, ThreadsInv
<1> QED
  BY <1>1, <1>2, <1>3, <1>4, <1>5, <1>6, <1>7, <1>8, <1>9, <1>10, <1>11, <1>12, <1>13, <1>14,
     <1>15, <1>16, <1>17, <1>18, <1>19, <1>20, <1>21, <1>22, <1>23, <1>24, <1>25, <1>26,
     <1>27, <1>28, <1>29, <1>30, <1>31, <1>32, <1>33, WorkerSteps, SessionSteps

\* A reaper that has found a domain is at one.
LEMMA ReapStageKept ==
    ASSUME TypeOK, ThreadsInv, EpochInv, Steps
    PROVE  \A t \in Reapers : reap'[t].stage # "look" => reap'[t].at \in 1 .. Domains
<1>1. CASE Start
  BY <1>1, Types
   DEF Start, ReapType, Reapers, ThreadsInv
<1>2. CASE Name
  BY <1>2, Types
   DEF Name, ReapType, Reapers, ThreadsInv
<1>3. CASE StopNothing
  BY <1>3, Types
   DEF StopNothing, ReapType, Reapers, ThreadsInv
<1>4. CASE Teardown
  BY <1>4, Types
   DEF Teardown, ReapType, Reapers, ThreadsInv
<1>5. CASE Stopped
  BY <1>5, Types
   DEF Stopped, ReapType, Reapers, ThreadsInv
<1>6. CASE (\E t \in Reapers : ReapPasses(t))
  <2>1. PICK t \in Reapers : ReapPasses(t)
    BY <1>6
  <2>2. t = "session" \/ t = "worker"
    BY DEF Reapers
  <2> QED
    BY <2>1, <2>2, Types
     DEF ReapPasses, ReapType, Reapers, ThreadsInv
<1>7. CASE (\E t \in Reapers : ReapFinds(t))
  <2>1. PICK t \in Reapers : ReapFinds(t)
    BY <1>7
  <2>2. t = "session" \/ t = "worker"
    BY DEF Reapers
  <2> QED
    BY <2>1, <2>2, Types
     DEF ReapFinds, ReapType, Reapers, ThreadsInv
<1>8. CASE (\E t \in Reapers : ReapLeaves(t))
  <2>1. PICK t \in Reapers : ReapLeaves(t)
    BY <1>8
  <2>2. t = "session" \/ t = "worker"
    BY DEF Reapers
  <2> QED
    BY <2>1, <2>2, Types
     DEF ReapLeaves, ReapType, Reapers, ThreadsInv
<1>9. CASE (\E t \in Reapers : ReapTakes(t))
  <2>1. PICK t \in Reapers : ReapTakes(t)
    BY <1>9
  <2>2. t = "session" \/ t = "worker"
    BY DEF Reapers
  <2> QED
    BY <2>1, <2>2, Types
     DEF ReapTakes, ReapType, Reapers, ThreadsInv
<1>10. CASE (\E t \in Reapers : ReapFree(t))
  <2>1. PICK t \in Reapers : ReapFree(t)
    BY <1>10
  <2>2. t = "session" \/ t = "worker"
    BY DEF Reapers
  <2> QED
    BY <2>1, <2>2, Types
     DEF ReapFree, ReapType, Reapers, ThreadsInv
<1>11. CASE Joined
  BY <1>11, Types
   DEF Joined, ReapType, Reapers, ThreadsInv
<1>12. CASE CleanedDone
  BY <1>12, Types
   DEF CleanedDone, ReapType, Reapers, ThreadsInv
<1>13. CASE CleanedAgain
  BY <1>13, Types
   DEF CleanedAgain, ReapType, Reapers, ThreadsInv
<1>14. CASE UNCHANGED reap
  BY <1>14, Types DEF ReapType, Reapers, ThreadsInv
<1> QED
  BY <1>1, <1>2, <1>3, <1>4, <1>5, <1>6, <1>7, <1>8, <1>9, <1>10, <1>11, <1>12, <1>13, <1>14,
     ReapSteps

\* The session's thread holds an envelope while it publishes, a domain while it opens.
LEMMA SessionHandsKept ==
    ASSUME TypeOK, ThreadsInv, EpochInv, Steps
    PROVE  /\ session'.lease # 0 <=> session'.pc = "publish"
           /\ session'.dom # 0 <=> session'.pc = "codec"
<1>1. CASE Start
  BY <1>1, Types, Bounds
   DEF Start, SessionType, ThreadsInv, FreeDomains
<1>2. CASE Name
  BY <1>2, Types, Bounds
   DEF Name, SessionType, ThreadsInv, FreeDomains
<1>3. CASE OpenRefused
  BY <1>3, Types, Bounds
   DEF OpenRefused, SessionType, ThreadsInv, FreeDomains
<1>4. CASE OpenBare
  BY <1>4, Types, Bounds
   DEF OpenBare, SessionType, ThreadsInv, FreeDomains
<1>5. CASE OpenDomain
  BY <1>5, Types, Bounds
   DEF OpenDomain, SessionType, ThreadsInv, FreeDomains
<1>6. CASE OpenFails
  BY <1>6, Types, Bounds
   DEF OpenFails, SessionType, ThreadsInv, FreeDomains
<1>7. CASE OpenedAccepted
  BY <1>7, Types, Bounds
   DEF OpenedAccepted, SessionType, ThreadsInv, FreeDomains
<1>8. CASE OpenedInVain
  BY <1>8, Types, Bounds
   DEF OpenedInVain, SessionType, ThreadsInv, FreeDomains
<1>9. CASE SubmitReset
  BY <1>9, Types, Bounds
   DEF SubmitReset, SessionType, ThreadsInv, FreeDomains
<1>10. CASE SubmitFails
  BY <1>10, Types, Bounds
   DEF SubmitFails, SessionType, ThreadsInv, FreeDomains
<1>11. CASE SubmitAccepted
  BY <1>11, Types, Bounds
   DEF SubmitAccepted, SessionType, ThreadsInv, FreeDomains
<1>12. CASE Rejected
  BY <1>12, Types, Bounds
   DEF Rejected, SessionType, ThreadsInv, FreeDomains
<1>13. CASE NoPicture
  BY <1>13, Types, Bounds
   DEF NoPicture, SessionType, ThreadsInv, FreeDomains
<1>14. CASE Acquire
  BY <1>14, Types, Bounds
   DEF Acquire, SessionType, ThreadsInv, FreeDomains
<1>15. CASE EvictNone
  BY <1>15, Types, Bounds
   DEF EvictNone, SessionType, ThreadsInv, FreeDomains
<1>16. CASE EvictOldest
  BY <1>16, Types, Bounds
   DEF EvictOldest, SessionType, ThreadsInv, FreeDomains
<1>17. CASE Exhausted
  BY <1>17, Types, Bounds
   DEF Exhausted, SessionType, ThreadsInv, FreeDomains
<1>18. CASE PublishQueued
  BY <1>18, Types, Bounds
   DEF PublishQueued, SessionType, ThreadsInv, FreeDomains
<1>19. CASE PublishDropped
  BY <1>19, Types, Bounds
   DEF PublishDropped, SessionType, ThreadsInv, FreeDomains
<1>20. CASE QueueAccepted
  BY <1>20, Types, Bounds
   DEF QueueAccepted, SessionType, ThreadsInv, FreeDomains
<1>21. CASE QueueRefused
  BY <1>21, Types, Bounds
   DEF QueueRefused, SessionType, ThreadsInv, FreeDomains
<1>22. CASE StopActive
  BY <1>22, Types, Bounds
   DEF StopActive, SessionType, ThreadsInv, FreeDomains
<1>23. CASE StopStale
  BY <1>23, Types, Bounds
   DEF StopStale, SessionType, ThreadsInv, FreeDomains
<1>24. CASE StopNothing
  BY <1>24, Types, Bounds
   DEF StopNothing, SessionType, ThreadsInv, FreeDomains
<1>25. CASE StopCodec
  BY <1>25, Types, Bounds
   DEF StopCodec, SessionType, ThreadsInv, FreeDomains
<1>26. CASE Teardown
  BY <1>26, Types, Bounds
   DEF Teardown, SessionType, ThreadsInv, FreeDomains
<1>27. CASE Stopped
  BY <1>27, Types, Bounds
   DEF Stopped, SessionType, ThreadsInv, FreeDomains
<1>28. CASE UNCHANGED session
  BY <1>28, Types, Bounds DEF SessionType, ThreadsInv, FreeDomains
<1> QED
  BY <1>1, <1>2, <1>3, <1>4, <1>5, <1>6, <1>7, <1>8, <1>9, <1>10, <1>11, <1>12, <1>13, <1>14,
     <1>15, <1>16, <1>17, <1>18, <1>19, <1>20, <1>21, <1>22, <1>23, <1>24, <1>25, <1>26,
     <1>27, <1>28, SessionSteps

\* The main thread has a selection within a turn only.
LEMMA SelectionKept ==
    ASSUME TypeOK, ThreadsInv, EpochInv, Steps
    PROVE  render'.sel # NoSelection
               => render'.pc \in {"check", "draw", "failed", "redraw", "present"}
<1>1. CASE Collected
  BY <1>1, Types
   DEF Collected, RenderType, ThreadsInv
<1>2. CASE DropStale
  BY <1>2, Types
   DEF DropStale, RenderType, ThreadsInv
<1>3. CASE KeepShown
  BY <1>3, Types
   DEF KeepShown, RenderType, ThreadsInv
<1>4. CASE ForgetNothing
  BY <1>4, Types
   DEF ForgetNothing, RenderType, ThreadsInv
<1>5. CASE ForgetAll
  BY <1>5, Types
   DEF ForgetAll, RenderType, ThreadsInv
<1>6. CASE Skip
  BY <1>6, Types
   DEF Skip, RenderType, ThreadsInv
<1>7. CASE MainFreezes
  BY <1>7, Types
   DEF MainFreezes, RenderType, ThreadsInv
<1>8. CASE MainClosesActive
  BY <1>8, Types
   DEF MainClosesActive, RenderType, ThreadsInv
<1>9. CASE MainClosesStale
  BY <1>9, Types
   DEF MainClosesStale, RenderType, ThreadsInv
<1>10. CASE Repaint
  BY <1>10, Types
   DEF Repaint, RenderType, ThreadsInv
<1>11. CASE Select
  BY <1>11, Types
   DEF Select, RenderType, ThreadsInv
<1>12. CASE CheckKept
  BY <1>12, Types
   DEF CheckKept, RenderType, ThreadsInv
<1>13. CASE CheckVoid
  BY <1>13, Types
   DEF CheckVoid, RenderType, ThreadsInv
<1>14. CASE DrawNothing
  BY <1>14, Types
   DEF DrawNothing, RenderType, ThreadsInv, Drawing
<1>15. CASE Draw
  BY <1>15, Types
   DEF Draw, RenderType, ThreadsInv, Drawing
<1>16. CASE ImportFails
  BY <1>16, Types
   DEF ImportFails, RenderType, ThreadsInv, Drawing, AfterDraw
<1>17. CASE DrawFails
  BY <1>17, Types
   DEF DrawFails, RenderType, ThreadsInv, Drawing, AfterDraw
<1>18. CASE CloseFailedActive
  BY <1>18, Types
   DEF CloseFailedActive, RenderType, ThreadsInv
<1>19. CASE CloseFailedStale
  BY <1>19, Types
   DEF CloseFailedStale, RenderType, ThreadsInv
<1>20. CASE PresentShown
  BY <1>20, Types
   DEF PresentShown, RenderType, ThreadsInv
<1>21. CASE PresentHeld
  BY <1>21, Types
   DEF PresentHeld, RenderType, ThreadsInv
<1>22. CASE UNCHANGED render
  BY <1>22, Types DEF RenderType, ThreadsInv
<1> QED
  BY <1>1, <1>2, <1>3, <1>4, <1>5, <1>6, <1>7, <1>8, <1>9, <1>10, <1>11, <1>12, <1>13, <1>14,
     <1>15, <1>16, <1>17, <1>18, <1>19, <1>20, <1>21, <1>22, RenderSteps

\* Where the threads are.
LEMMA ThreadsNext ==
    ASSUME TypeOK, ThreadsInv, EpochInv, Steps
    PROVE  ThreadsInv'
<1>1. /\ lock' = "session" <=> session'.pc \in Holding \/ reap'["session"].stage = "maps"
      /\ lock' = "worker" <=> reap'["worker"].stage = "maps"
      /\ session'.pc \in {"start", "stopped"} <=> reap'["session"].at # 0
      /\ worker' = "clean" <=> reap'["worker"].at # 0
  BY LockKept, WorkerLockKept, SessionReapKept, WorkerReapKept
<1>2. /\ session'.pc # "idle" => worker' \in {"runs", "frozen", "join"}
      /\ \A t \in Reapers : reap'[t].stage # "look" => reap'[t].at \in 1 .. Domains
      /\ session'.lease # 0 <=> session'.pc = "publish"
      /\ session'.dom # 0 <=> session'.pc = "codec"
      /\ render'.sel # NoSelection =>
             render'.pc \in {"check", "draw", "failed", "redraw", "present"}
  BY SessionLivesKept, ReapStageKept, SessionHandsKept, SelectionKept
<1> QED
  BY <1>1, <1>2 DEF ThreadsInv

-----------------------------------------------------------------------------
(* The epochs, the mailbox and the tickets.                                *)

\* The open epoch is the newest one that was named.
LEMMA KeysKept ==
    ASSUME TypeOK, ThreadsInv, EpochInv, MailboxInv, Steps
    PROVE  /\ box'.active <= session'.key
           /\ session'.pc \in HasEpoch \union {"open"} => session'.key # 0
           /\ session'.pc = "start" => session'.key < MaxKey
           /\ session'.pc = "open" => box'.active < session'.key
           /\ session'.pc = "codec" => box'.active = session'.key
<1>1. CASE Start
  BY <1>1, Types, BoxFields, SessionFields, Bounds
   DEF Start, BoxType, SessionType, EpochInv, HasEpoch, Holding
<1>2. CASE Name
  BY <1>2, Types, BoxFields, SessionFields, Bounds
   DEF Name, BoxType, SessionType, EpochInv, HasEpoch, Holding
<1>3. CASE OpenRefused
  BY <1>3, Types, BoxFields, SessionFields, Bounds
   DEF OpenRefused, BoxType, SessionType, EpochInv, HasEpoch, Holding, Admissible, IsCurrent
<1>4. CASE OpenBare
  BY <1>4, Types, BoxFields, SessionFields, Bounds
   DEF OpenBare, BoxType, SessionType, EpochInv, HasEpoch, Holding, Admissible, IsCurrent
<1>5. CASE OpenDomain
  BY <1>5, Types, BoxFields, SessionFields, Bounds
   DEF OpenDomain, BoxType, SessionType, EpochInv, HasEpoch, Holding, Admissible, IsCurrent
<1>6. CASE OpenFails
  BY <1>6, Types, BoxFields, SessionFields, Bounds
   DEF OpenFails, BoxType, SessionType, EpochInv, HasEpoch, Holding
<1>7. CASE OpenedAccepted
  BY <1>7, Types, BoxFields, SessionFields, Bounds
   DEF OpenedAccepted, BoxType, SessionType, EpochInv, HasEpoch, Holding
<1>8. CASE OpenedInVain
  BY <1>8, Types, BoxFields, SessionFields, Bounds
   DEF OpenedInVain, BoxType, SessionType, EpochInv, HasEpoch, Holding
<1>9. CASE SubmitReset
  BY <1>9, Types, BoxFields, SessionFields, Bounds
   DEF SubmitReset, BoxType, SessionType, EpochInv, HasEpoch, Holding
<1>10. CASE SubmitFails
  BY <1>10, Types, BoxFields, SessionFields, Bounds
   DEF SubmitFails, BoxType, SessionType, EpochInv, HasEpoch, Holding
<1>11. CASE SubmitAccepted
  BY <1>11, Types, BoxFields, SessionFields, Bounds
   DEF SubmitAccepted, BoxType, SessionType, EpochInv, HasEpoch, Holding
<1>12. CASE Rejected
  BY <1>12, Types, BoxFields, SessionFields, Bounds
   DEF Rejected, BoxType, SessionType, EpochInv, HasEpoch, Holding
<1>13. CASE NoPicture
  BY <1>13, Types, BoxFields, SessionFields, Bounds
   DEF NoPicture, BoxType, SessionType, EpochInv, HasEpoch, Holding
<1>14. CASE Acquire
  BY <1>14, Types, BoxFields, SessionFields, Bounds
   DEF Acquire, BoxType, SessionType, EpochInv, HasEpoch, Holding
<1>15. CASE EvictNone
  BY <1>15, Types, BoxFields, SessionFields, Bounds
   DEF EvictNone, BoxType, SessionType, EpochInv, HasEpoch, Holding
<1>16. CASE EvictOldest
  BY <1>16, Types, BoxFields, SessionFields, Bounds
   DEF EvictOldest, BoxType, SessionType, EpochInv, HasEpoch, Holding
<1>17. CASE Exhausted
  BY <1>17, Types, BoxFields, SessionFields, Bounds
   DEF Exhausted, BoxType, SessionType, EpochInv, HasEpoch, Holding
<1>18. CASE PublishQueued
  BY <1>18, Types, BoxFields, SessionFields, Bounds
   DEF PublishQueued, BoxType, SessionType, EpochInv, HasEpoch, Holding
<1>19. CASE PublishDropped
  BY <1>19, Types, BoxFields, SessionFields, Bounds
   DEF PublishDropped, BoxType, SessionType, EpochInv, HasEpoch, Holding
<1>20. CASE QueueAccepted
  BY <1>20, Types, BoxFields, SessionFields, Bounds
   DEF QueueAccepted, BoxType, SessionType, EpochInv, HasEpoch, Holding
<1>21. CASE QueueRefused
  BY <1>21, Types, BoxFields, SessionFields, Bounds
   DEF QueueRefused, BoxType, SessionType, EpochInv, HasEpoch, Holding
<1>22. CASE FlushActive
  BY <1>22, Types, BoxFields, SessionFields, Bounds
   DEF FlushActive, BoxType, SessionType, EpochInv, HasEpoch, Holding
<1>23. CASE StopActive
  BY <1>23, Types, BoxFields, SessionFields, Bounds
   DEF StopActive, BoxType, SessionType, EpochInv, HasEpoch, Holding
<1>24. CASE StopStale
  BY <1>24, Types, BoxFields, SessionFields, Bounds
   DEF StopStale, BoxType, SessionType, EpochInv, HasEpoch, Holding
<1>25. CASE StopNothing
  BY <1>25, Types, BoxFields, SessionFields, Bounds
   DEF StopNothing, BoxType, SessionType, EpochInv, HasEpoch, Holding
<1>26. CASE StopCodec
  BY <1>26, Types, BoxFields, SessionFields, Bounds
   DEF StopCodec, BoxType, SessionType, EpochInv, HasEpoch, Holding
<1>27. CASE Teardown
  BY <1>27, Types, BoxFields, SessionFields, Bounds
   DEF Teardown, BoxType, SessionType, EpochInv, HasEpoch, Holding
<1>28. CASE Stopped
  BY <1>28, Types, BoxFields, SessionFields, Bounds
   DEF Stopped, BoxType, SessionType, EpochInv, HasEpoch, Holding
<1>29. CASE MainFreezes
  BY <1>29, Types, BoxFields, SessionFields, Bounds
   DEF MainFreezes, BoxType, SessionType, EpochInv, HasEpoch, Holding
<1>30. CASE MainClosesActive
  BY <1>30, Types, BoxFields, SessionFields, Bounds
   DEF MainClosesActive, BoxType, SessionType, EpochInv, HasEpoch, Holding
<1>31. CASE Select
  BY <1>31, Types, BoxFields, SessionFields, Bounds
   DEF Select, BoxType, SessionType, EpochInv, HasEpoch, Holding
<1>32. CASE CloseFailedActive
  BY <1>32, Types, BoxFields, SessionFields, Bounds
   DEF CloseFailedActive, BoxType, SessionType, EpochInv, HasEpoch, Holding
<1>33. CASE Thaw
  BY <1>33, Types, BoxFields, SessionFields, Bounds
   DEF Thaw, BoxType, SessionType, EpochInv, HasEpoch, Holding
<1>34. CASE WorkerFreezes
  BY <1>34, Types, BoxFields, SessionFields, Bounds
   DEF WorkerFreezes, BoxType, SessionType, EpochInv, HasEpoch, Holding
<1>35. CASE WorkerClosesActive
  BY <1>35, Types, BoxFields, SessionFields, Bounds
   DEF WorkerClosesActive, BoxType, SessionType, EpochInv, HasEpoch, Holding
<1>36. CASE UNCHANGED <<box, session>>
  BY <1>36, Types, BoxFields, SessionFields, Bounds DEF BoxType, SessionType, EpochInv,
     HasEpoch, Holding
<1> QED
  BY <1>1, <1>2, <1>3, <1>4, <1>5, <1>6, <1>7, <1>8, <1>9, <1>10, <1>11, <1>12, <1>13, <1>14,
     <1>15, <1>16, <1>17, <1>18, <1>19, <1>20, <1>21, <1>22, <1>23, <1>24, <1>25, <1>26,
     <1>27, <1>28, <1>29, <1>30, <1>31, <1>32, <1>33, <1>34, <1>35, <1>36, BoxSteps,
     SessionSteps

\* Only the newest epoch is accepted, from the open of its codec to its stop.
LEMMA AcceptedKept ==
    ASSUME TypeOK, ThreadsInv, EpochInv, MailboxInv, Steps
    PROVE  box'.accepting => box'.active = session'.key /\ session'.pc \in HasEpoch \ {"codec"}
<1>1. CASE Start
  BY <1>1, Types, BoxFields, SessionFields, Bounds
   DEF Start, BoxType, SessionType, EpochInv, HasEpoch, Holding, ThreadsInv, MailboxInv
<1>2. CASE Name
  BY <1>2, Types, BoxFields, SessionFields, Bounds
   DEF Name, BoxType, SessionType, EpochInv, HasEpoch, Holding, ThreadsInv, MailboxInv
<1>3. CASE OpenRefused
  BY <1>3, Types, BoxFields, SessionFields, Bounds
   DEF OpenRefused, BoxType, SessionType, EpochInv, HasEpoch, Holding, ThreadsInv, MailboxInv,
       Admissible, IsCurrent
<1>4. CASE OpenBare
  BY <1>4, Types, BoxFields, SessionFields, Bounds
   DEF OpenBare, BoxType, SessionType, EpochInv, HasEpoch, Holding, ThreadsInv, MailboxInv,
       Admissible, IsCurrent
<1>5. CASE OpenDomain
  BY <1>5, Types, BoxFields, SessionFields, Bounds
   DEF OpenDomain, BoxType, SessionType, EpochInv, HasEpoch, Holding, ThreadsInv, MailboxInv,
       Admissible, IsCurrent
<1>6. CASE OpenFails
  BY <1>6, Types, BoxFields, SessionFields, Bounds
   DEF OpenFails, BoxType, SessionType, EpochInv, HasEpoch, Holding, ThreadsInv, MailboxInv
<1>7. CASE OpenedAccepted
  BY <1>7, Types, BoxFields, SessionFields, Bounds
   DEF OpenedAccepted, BoxType, SessionType, EpochInv, HasEpoch, Holding, ThreadsInv,
       MailboxInv
<1>8. CASE OpenedInVain
  BY <1>8, Types, BoxFields, SessionFields, Bounds
   DEF OpenedInVain, BoxType, SessionType, EpochInv, HasEpoch, Holding, ThreadsInv, MailboxInv
<1>9. CASE SubmitReset
  BY <1>9, Types, BoxFields, SessionFields, Bounds
   DEF SubmitReset, BoxType, SessionType, EpochInv, HasEpoch, Holding, ThreadsInv, MailboxInv
<1>10. CASE SubmitFails
  BY <1>10, Types, BoxFields, SessionFields, Bounds
   DEF SubmitFails, BoxType, SessionType, EpochInv, HasEpoch, Holding, ThreadsInv, MailboxInv
<1>11. CASE SubmitAccepted
  BY <1>11, Types, BoxFields, SessionFields, Bounds
   DEF SubmitAccepted, BoxType, SessionType, EpochInv, HasEpoch, Holding, ThreadsInv,
       MailboxInv
<1>12. CASE Rejected
  BY <1>12, Types, BoxFields, SessionFields, Bounds
   DEF Rejected, BoxType, SessionType, EpochInv, HasEpoch, Holding, ThreadsInv, MailboxInv
<1>13. CASE NoPicture
  BY <1>13, Types, BoxFields, SessionFields, Bounds
   DEF NoPicture, BoxType, SessionType, EpochInv, HasEpoch, Holding, ThreadsInv, MailboxInv
<1>14. CASE Acquire
  BY <1>14, Types, BoxFields, SessionFields, Bounds
   DEF Acquire, BoxType, SessionType, EpochInv, HasEpoch, Holding, ThreadsInv, MailboxInv
<1>15. CASE EvictNone
  BY <1>15, Types, BoxFields, SessionFields, Bounds
   DEF EvictNone, BoxType, SessionType, EpochInv, HasEpoch, Holding, ThreadsInv, MailboxInv
<1>16. CASE EvictOldest
  BY <1>16, Types, BoxFields, SessionFields, Bounds
   DEF EvictOldest, BoxType, SessionType, EpochInv, HasEpoch, Holding, ThreadsInv, MailboxInv
<1>17. CASE Exhausted
  BY <1>17, Types, BoxFields, SessionFields, Bounds
   DEF Exhausted, BoxType, SessionType, EpochInv, HasEpoch, Holding, ThreadsInv, MailboxInv
<1>18. CASE PublishQueued
  BY <1>18, Types, BoxFields, SessionFields, Bounds
   DEF PublishQueued, BoxType, SessionType, EpochInv, HasEpoch, Holding, ThreadsInv,
       MailboxInv
<1>19. CASE PublishDropped
  BY <1>19, Types, BoxFields, SessionFields, Bounds
   DEF PublishDropped, BoxType, SessionType, EpochInv, HasEpoch, Holding, ThreadsInv,
       MailboxInv
<1>20. CASE QueueAccepted
  BY <1>20, Types, BoxFields, SessionFields, Bounds
   DEF QueueAccepted, BoxType, SessionType, EpochInv, HasEpoch, Holding, ThreadsInv,
       MailboxInv
<1>21. CASE QueueRefused
  BY <1>21, Types, BoxFields, SessionFields, Bounds
   DEF QueueRefused, BoxType, SessionType, EpochInv, HasEpoch, Holding, ThreadsInv, MailboxInv
<1>22. CASE FlushActive
  BY <1>22, Types, BoxFields, SessionFields, Bounds
   DEF FlushActive, BoxType, SessionType, EpochInv, HasEpoch, Holding, ThreadsInv, MailboxInv
<1>23. CASE StopActive
  BY <1>23, Types, BoxFields, SessionFields, Bounds
   DEF StopActive, BoxType, SessionType, EpochInv, HasEpoch, Holding, ThreadsInv, MailboxInv
<1>24. CASE StopStale
  BY <1>24, Types, BoxFields, SessionFields, Bounds
   DEF StopStale, BoxType, SessionType, EpochInv, HasEpoch, Holding, ThreadsInv, MailboxInv
<1>25. CASE StopNothing
  BY <1>25, Types, BoxFields, SessionFields, Bounds
   DEF StopNothing, BoxType, SessionType, EpochInv, HasEpoch, Holding, ThreadsInv, MailboxInv
<1>26. CASE StopCodec
  BY <1>26, Types, BoxFields, SessionFields, Bounds
   DEF StopCodec, BoxType, SessionType, EpochInv, HasEpoch, Holding, ThreadsInv, MailboxInv
<1>27. CASE Teardown
  BY <1>27, Types, BoxFields, SessionFields, Bounds
   DEF Teardown, BoxType, SessionType, EpochInv, HasEpoch, Holding, ThreadsInv, MailboxInv
<1>28. CASE Stopped
  BY <1>28, Types, BoxFields, SessionFields, Bounds
   DEF Stopped, BoxType, SessionType, EpochInv, HasEpoch, Holding, ThreadsInv, MailboxInv
<1>29. CASE MainFreezes
  BY <1>29, Types, BoxFields, SessionFields, Bounds
   DEF MainFreezes, BoxType, SessionType, EpochInv, HasEpoch, Holding, ThreadsInv, MailboxInv
<1>30. CASE MainClosesActive
  BY <1>30, Types, BoxFields, SessionFields, Bounds
   DEF MainClosesActive, BoxType, SessionType, EpochInv, HasEpoch, Holding, ThreadsInv,
       MailboxInv
<1>31. CASE Select
  BY <1>31, Types, BoxFields, SessionFields, Bounds
   DEF Select, BoxType, SessionType, EpochInv, HasEpoch, Holding, ThreadsInv, MailboxInv
<1>32. CASE CloseFailedActive
  BY <1>32, Types, BoxFields, SessionFields, Bounds
   DEF CloseFailedActive, BoxType, SessionType, EpochInv, HasEpoch, Holding, ThreadsInv,
       MailboxInv
<1>33. CASE Thaw
  BY <1>33, Types, BoxFields, SessionFields, Bounds
   DEF Thaw, BoxType, SessionType, EpochInv, HasEpoch, Holding, ThreadsInv, MailboxInv
<1>34. CASE WorkerFreezes
  BY <1>34, Types, BoxFields, SessionFields, Bounds
   DEF WorkerFreezes, BoxType, SessionType, EpochInv, HasEpoch, Holding, ThreadsInv,
       MailboxInv
<1>35. CASE WorkerClosesActive
  BY <1>35, Types, BoxFields, SessionFields, Bounds
   DEF WorkerClosesActive, BoxType, SessionType, EpochInv, HasEpoch, Holding, ThreadsInv,
       MailboxInv
<1>36. CASE UNCHANGED <<box, session>>
  BY <1>36, Types, BoxFields, SessionFields, Bounds
   DEF BoxType, SessionType, EpochInv, HasEpoch, Holding, ThreadsInv, MailboxInv
<1> QED
  BY <1>1, <1>2, <1>3, <1>4, <1>5, <1>6, <1>7, <1>8, <1>9, <1>10, <1>11, <1>12, <1>13, <1>14,
     <1>15, <1>16, <1>17, <1>18, <1>19, <1>20, <1>21, <1>22, <1>23, <1>24, <1>25, <1>26,
     <1>27, <1>28, <1>29, <1>30, <1>31, <1>32, <1>33, <1>34, <1>35, <1>36, BoxSteps,
     SessionSteps

\* The frames are numbered by the tasks that bring them.
LEMMA NumbersKept ==
    ASSUME TypeOK, ThreadsInv, EpochInv, MailboxInv, Steps
    PROVE  /\ session'.seq <= box'.seq /\ box'.seq <= session'.task
           /\ session'.pc \in {"decode", "evicted", "publish"} => box'.seq < session'.task
           /\ session'.seq # 0 => session'.pc = "queue"
<1>1. CASE Start
  BY <1>1, Types, BoxFields, SessionFields, Bounds
   DEF Start, BoxType, SessionType, EpochInv, HasEpoch, Holding
<1>2. CASE Name
  BY <1>2, Types, BoxFields, SessionFields, Bounds
   DEF Name, BoxType, SessionType, EpochInv, HasEpoch, Holding
<1>3. CASE OpenRefused
  BY <1>3, Types, BoxFields, SessionFields, Bounds
   DEF OpenRefused, BoxType, SessionType, EpochInv, HasEpoch, Holding, Admissible
<1>4. CASE OpenBare
  BY <1>4, Types, BoxFields, SessionFields, Bounds
   DEF OpenBare, BoxType, SessionType, EpochInv, HasEpoch, Holding, Admissible
<1>5. CASE OpenDomain
  BY <1>5, Types, BoxFields, SessionFields, Bounds
   DEF OpenDomain, BoxType, SessionType, EpochInv, HasEpoch, Holding, Admissible
<1>6. CASE OpenFails
  BY <1>6, Types, BoxFields, SessionFields, Bounds
   DEF OpenFails, BoxType, SessionType, EpochInv, HasEpoch, Holding
<1>7. CASE OpenedAccepted
  BY <1>7, Types, BoxFields, SessionFields, Bounds
   DEF OpenedAccepted, BoxType, SessionType, EpochInv, HasEpoch, Holding
<1>8. CASE OpenedInVain
  BY <1>8, Types, BoxFields, SessionFields, Bounds
   DEF OpenedInVain, BoxType, SessionType, EpochInv, HasEpoch, Holding
<1>9. CASE SubmitReset
  BY <1>9, Types, BoxFields, SessionFields, Bounds
   DEF SubmitReset, BoxType, SessionType, EpochInv, HasEpoch, Holding
<1>10. CASE SubmitFails
  BY <1>10, Types, BoxFields, SessionFields, Bounds
   DEF SubmitFails, BoxType, SessionType, EpochInv, HasEpoch, Holding
<1>11. CASE SubmitAccepted
  BY <1>11, Types, BoxFields, SessionFields, Bounds
   DEF SubmitAccepted, BoxType, SessionType, EpochInv, HasEpoch, Holding
<1>12. CASE Rejected
  BY <1>12, Types, BoxFields, SessionFields, Bounds
   DEF Rejected, BoxType, SessionType, EpochInv, HasEpoch, Holding
<1>13. CASE NoPicture
  BY <1>13, Types, BoxFields, SessionFields, Bounds
   DEF NoPicture, BoxType, SessionType, EpochInv, HasEpoch, Holding
<1>14. CASE Acquire
  BY <1>14, Types, BoxFields, SessionFields, Bounds
   DEF Acquire, BoxType, SessionType, EpochInv, HasEpoch, Holding
<1>15. CASE EvictNone
  BY <1>15, Types, BoxFields, SessionFields, Bounds
   DEF EvictNone, BoxType, SessionType, EpochInv, HasEpoch, Holding
<1>16. CASE EvictOldest
  BY <1>16, Types, BoxFields, SessionFields, Bounds
   DEF EvictOldest, BoxType, SessionType, EpochInv, HasEpoch, Holding
<1>17. CASE Exhausted
  BY <1>17, Types, BoxFields, SessionFields, Bounds
   DEF Exhausted, BoxType, SessionType, EpochInv, HasEpoch, Holding
<1>18. CASE PublishQueued
  BY <1>18, Types, BoxFields, SessionFields, Bounds
   DEF PublishQueued, BoxType, SessionType, EpochInv, HasEpoch, Holding
<1>19. CASE PublishDropped
  BY <1>19, Types, BoxFields, SessionFields, Bounds
   DEF PublishDropped, BoxType, SessionType, EpochInv, HasEpoch, Holding
<1>20. CASE QueueAccepted
  BY <1>20, Types, BoxFields, SessionFields, Bounds
   DEF QueueAccepted, BoxType, SessionType, EpochInv, HasEpoch, Holding
<1>21. CASE QueueRefused
  BY <1>21, Types, BoxFields, SessionFields, Bounds
   DEF QueueRefused, BoxType, SessionType, EpochInv, HasEpoch, Holding
<1>22. CASE FlushActive
  BY <1>22, Types, BoxFields, SessionFields, Bounds
   DEF FlushActive, BoxType, SessionType, EpochInv, HasEpoch, Holding
<1>23. CASE StopActive
  BY <1>23, Types, BoxFields, SessionFields, Bounds
   DEF StopActive, BoxType, SessionType, EpochInv, HasEpoch, Holding
<1>24. CASE StopStale
  BY <1>24, Types, BoxFields, SessionFields, Bounds
   DEF StopStale, BoxType, SessionType, EpochInv, HasEpoch, Holding
<1>25. CASE StopNothing
  BY <1>25, Types, BoxFields, SessionFields, Bounds
   DEF StopNothing, BoxType, SessionType, EpochInv, HasEpoch, Holding
<1>26. CASE StopCodec
  BY <1>26, Types, BoxFields, SessionFields, Bounds
   DEF StopCodec, BoxType, SessionType, EpochInv, HasEpoch, Holding
<1>27. CASE Teardown
  BY <1>27, Types, BoxFields, SessionFields, Bounds
   DEF Teardown, BoxType, SessionType, EpochInv, HasEpoch, Holding
<1>28. CASE Stopped
  BY <1>28, Types, BoxFields, SessionFields, Bounds
   DEF Stopped, BoxType, SessionType, EpochInv, HasEpoch, Holding
<1>29. CASE MainFreezes
  BY <1>29, Types, BoxFields, SessionFields, Bounds
   DEF MainFreezes, BoxType, SessionType, EpochInv, HasEpoch, Holding
<1>30. CASE MainClosesActive
  BY <1>30, Types, BoxFields, SessionFields, Bounds
   DEF MainClosesActive, BoxType, SessionType, EpochInv, HasEpoch, Holding
<1>31. CASE Select
  BY <1>31, Types, BoxFields, SessionFields, Bounds
   DEF Select, BoxType, SessionType, EpochInv, HasEpoch, Holding
<1>32. CASE CloseFailedActive
  BY <1>32, Types, BoxFields, SessionFields, Bounds
   DEF CloseFailedActive, BoxType, SessionType, EpochInv, HasEpoch, Holding
<1>33. CASE Thaw
  BY <1>33, Types, BoxFields, SessionFields, Bounds
   DEF Thaw, BoxType, SessionType, EpochInv, HasEpoch, Holding
<1>34. CASE WorkerFreezes
  BY <1>34, Types, BoxFields, SessionFields, Bounds
   DEF WorkerFreezes, BoxType, SessionType, EpochInv, HasEpoch, Holding
<1>35. CASE WorkerClosesActive
  BY <1>35, Types, BoxFields, SessionFields, Bounds
   DEF WorkerClosesActive, BoxType, SessionType, EpochInv, HasEpoch, Holding
<1>36. CASE UNCHANGED <<box, session>>
  BY <1>36, Types, BoxFields, SessionFields, Bounds DEF BoxType, SessionType, EpochInv,
     HasEpoch, Holding
<1> QED
  BY <1>1, <1>2, <1>3, <1>4, <1>5, <1>6, <1>7, <1>8, <1>9, <1>10, <1>11, <1>12, <1>13, <1>14,
     <1>15, <1>16, <1>17, <1>18, <1>19, <1>20, <1>21, <1>22, <1>23, <1>24, <1>25, <1>26,
     <1>27, <1>28, <1>29, <1>30, <1>31, <1>32, <1>33, <1>34, <1>35, <1>36, BoxSteps,
     SessionSteps

\* The epochs.
LEMMA EpochNext ==
    ASSUME TypeOK, ThreadsInv, EpochInv, MailboxInv, Steps
    PROVE  EpochInv'
<1>1. /\ box'.active <= session'.key
      /\ session'.pc \in HasEpoch \union {"open"} => session'.key # 0
      /\ session'.pc = "start" => session'.key < MaxKey
      /\ session'.pc = "open" => box'.active < session'.key
      /\ session'.pc = "codec" => box'.active = session'.key
  BY KeysKept
<1>2. /\ box'.accepting => box'.active = session'.key /\ session'.pc \in HasEpoch \ {"codec"}
      /\ session'.seq <= box'.seq /\ box'.seq <= session'.task
      /\ session'.pc \in {"decode", "evicted", "publish"} => box'.seq < session'.task
      /\ session'.seq # 0 => session'.pc = "queue"
  BY AcceptedKept, NumbersKept
<1> QED
  BY <1>1, <1>2 DEF EpochInv

\* The mailbox is emptied by who freezes it.
LEMMA MailboxNext ==
    ASSUME TypeOK, ThreadsInv, EpochInv, MailboxInv, Steps
    PROVE  MailboxInv'
<1>1. CASE OpenBare
  BY <1>1, Types
   DEF OpenBare, BoxType, RenderType, MailboxInv, Empty, Admissible, Empty
<1>2. CASE OpenDomain
  BY <1>2, Types
   DEF OpenDomain, BoxType, RenderType, MailboxInv, Empty, Admissible
<1>3. CASE OpenedAccepted
  BY <1>3, Types
   DEF OpenedAccepted, BoxType, RenderType, MailboxInv, Empty, ThreadsInv
<1>4. CASE OpenedInVain
  BY <1>4, Types
   DEF OpenedInVain, BoxType, RenderType, MailboxInv, Empty, EpochInv, HasEpoch
<1>5. CASE EvictOldest
  BY <1>5, Types
   DEF EvictOldest, BoxType, RenderType, MailboxInv, Empty
<1>6. CASE PublishQueued
  BY <1>6, Types
   DEF PublishQueued, BoxType, RenderType, MailboxInv, Empty, IsCurrent
<1>7. CASE QueueAccepted
  BY <1>7, Types
   DEF QueueAccepted, BoxType, RenderType, MailboxInv, Empty, IsCurrent
<1>8. CASE FlushActive
  BY <1>8, Types
   DEF FlushActive, BoxType, RenderType, MailboxInv, Empty
<1>9. CASE StopActive
  BY <1>9, Types
   DEF StopActive, BoxType, RenderType, MailboxInv, Empty
<1>10. CASE Collected
  BY <1>10, Types
   DEF Collected, BoxType, RenderType, MailboxInv, Empty
<1>11. CASE DropStale
  BY <1>11, Types
   DEF DropStale, BoxType, RenderType, MailboxInv, Empty
<1>12. CASE KeepShown
  BY <1>12, Types
   DEF KeepShown, BoxType, RenderType, MailboxInv, Empty
<1>13. CASE ForgetNothing
  BY <1>13, Types
   DEF ForgetNothing, BoxType, RenderType, MailboxInv, Empty
<1>14. CASE ForgetAll
  BY <1>14, Types
   DEF ForgetAll, BoxType, RenderType, MailboxInv, Empty
<1>15. CASE Skip
  BY <1>15, Types
   DEF Skip, BoxType, RenderType, MailboxInv, Empty
<1>16. CASE MainFreezes
  BY <1>16, Types
   DEF MainFreezes, BoxType, RenderType, MailboxInv, Empty
<1>17. CASE MainClosesActive
  BY <1>17, Types
   DEF MainClosesActive, BoxType, RenderType, MailboxInv, Empty
<1>18. CASE MainClosesStale
  BY <1>18, Types
   DEF MainClosesStale, BoxType, RenderType, MailboxInv, Empty
<1>19. CASE Repaint
  BY <1>19, Types
   DEF Repaint, BoxType, RenderType, MailboxInv, Empty
<1>20. CASE Select
  BY <1>20, Types
   DEF Select, BoxType, RenderType, MailboxInv, Empty
<1>21. CASE CheckKept
  BY <1>21, Types
   DEF CheckKept, BoxType, RenderType, MailboxInv, Empty
<1>22. CASE CheckVoid
  BY <1>22, Types
   DEF CheckVoid, BoxType, RenderType, MailboxInv, Empty
<1>23. CASE DrawNothing
  BY <1>23, Types
   DEF DrawNothing, BoxType, RenderType, MailboxInv, Empty, Drawing, AfterDraw
<1>24. CASE Draw
  BY <1>24, Types
   DEF Draw, BoxType, RenderType, MailboxInv, Empty, Drawing, AfterDraw
<1>25. CASE ImportFails
  BY <1>25, Types
   DEF ImportFails, BoxType, RenderType, MailboxInv, Empty, Drawing, AfterDraw
<1>26. CASE DrawFails
  BY <1>26, Types
   DEF DrawFails, BoxType, RenderType, MailboxInv, Empty, Drawing, AfterDraw
<1>27. CASE CloseFailedActive
  BY <1>27, Types
   DEF CloseFailedActive, BoxType, RenderType, MailboxInv, Empty
<1>28. CASE CloseFailedStale
  BY <1>28, Types
   DEF CloseFailedStale, BoxType, RenderType, MailboxInv, Empty
<1>29. CASE PresentShown
  BY <1>29, Types
   DEF PresentShown, BoxType, RenderType, MailboxInv, Empty
<1>30. CASE PresentHeld
  BY <1>30, Types
   DEF PresentHeld, BoxType, RenderType, MailboxInv, Empty
<1>31. CASE Thaw
  BY <1>31, Types
   DEF Thaw, BoxType, RenderType, MailboxInv, Empty
<1>32. CASE WorkerFreezes
  BY <1>32, Types
   DEF WorkerFreezes, BoxType, RenderType, MailboxInv, Empty
<1>33. CASE WorkerClosesActive
  BY <1>33, Types
   DEF WorkerClosesActive, BoxType, RenderType, MailboxInv, Empty
<1>34. CASE Joined
  BY <1>34, Types
   DEF Joined, BoxType, RenderType, MailboxInv, Empty
<1>35. CASE CleanedDone
  BY <1>35, Types
   DEF CleanedDone, BoxType, RenderType, MailboxInv, Empty
<1>36. CASE UNCHANGED <<box, worker, render>>
  BY <1>36, Types DEF BoxType, RenderType, MailboxInv, Empty
<1> QED
  BY <1>1, <1>2, <1>3, <1>4, <1>5, <1>6, <1>7, <1>8, <1>9, <1>10, <1>11, <1>12, <1>13, <1>14,
     <1>15, <1>16, <1>17, <1>18, <1>19, <1>20, <1>21, <1>22, <1>23, <1>24, <1>25, <1>26,
     <1>27, <1>28, <1>29, <1>30, <1>31, <1>32, <1>33, <1>34, <1>35, <1>36, BoxSteps,
     WorkerSteps, RenderSteps

\* Who writes the envelope in the hands of the session's thread.
LEMMA SessionLeaseSteps ==
    ASSUME TypeOK, Steps
    PROVE  session'.lease = session.lease \/ Acquire \/ PublishQueued \/ PublishDropped
<1>1. CASE Start
  BY <1>1, Types DEF Start, SessionType
<1>2. CASE Name
  BY <1>2, Types DEF Name, SessionType
<1>3. CASE OpenRefused
  BY <1>3, Types DEF OpenRefused, SessionType
<1>4. CASE OpenBare
  BY <1>4, Types DEF OpenBare, SessionType
<1>5. CASE OpenDomain
  BY <1>5, Types DEF OpenDomain, SessionType
<1>6. CASE OpenFails
  BY <1>6, Types DEF OpenFails, SessionType
<1>7. CASE OpenedAccepted
  BY <1>7, Types DEF OpenedAccepted, SessionType
<1>8. CASE OpenedInVain
  BY <1>8, Types DEF OpenedInVain, SessionType
<1>9. CASE SubmitReset
  BY <1>9, Types DEF SubmitReset, SessionType
<1>10. CASE SubmitFails
  BY <1>10, Types DEF SubmitFails, SessionType
<1>11. CASE SubmitAccepted
  BY <1>11, Types DEF SubmitAccepted, SessionType
<1>12. CASE Rejected
  BY <1>12, Types DEF Rejected, SessionType
<1>13. CASE NoPicture
  BY <1>13, Types DEF NoPicture, SessionType
<1>14. CASE EvictNone
  BY <1>14, Types DEF EvictNone, SessionType
<1>15. CASE EvictOldest
  BY <1>15, Types DEF EvictOldest, SessionType
<1>16. CASE Exhausted
  BY <1>16, Types DEF Exhausted, SessionType
<1>17. CASE QueueAccepted
  BY <1>17, Types DEF QueueAccepted, SessionType
<1>18. CASE QueueRefused
  BY <1>18, Types DEF QueueRefused, SessionType
<1>19. CASE StopActive
  BY <1>19, Types DEF StopActive, SessionType
<1>20. CASE StopStale
  BY <1>20, Types DEF StopStale, SessionType
<1>21. CASE StopNothing
  BY <1>21, Types DEF StopNothing, SessionType
<1>22. CASE StopCodec
  BY <1>22, Types DEF StopCodec, SessionType
<1>23. CASE Teardown
  BY <1>23, Types DEF Teardown, SessionType
<1>24. CASE Stopped
  BY <1>24, Types DEF Stopped, SessionType
<1>25. CASE Acquire \/ PublishQueued \/ PublishDropped
  BY <1>25
<1>26. CASE UNCHANGED session
  BY <1>26
<1> QED
  BY <1>1, <1>2, <1>3, <1>4, <1>5, <1>6, <1>7, <1>8, <1>9, <1>10, <1>11, <1>12, <1>13, <1>14,
     <1>15, <1>16, <1>17, <1>18, <1>19, <1>20, <1>21, <1>22, <1>23, <1>24, <1>25, <1>26,
     SessionSteps

\* An envelope in the hands of the publisher is nobody else's.
LEMMA EnvelopeNext ==
    ASSUME TypeOK, ThreadsInv, EpochInv, BatchInv, ReferencesCounted, OwnEnvelope, Steps
    PROVE  OwnEnvelope'
<1>1. CASE PublishQueued \/ PublishDropped
  <2>1. session'.lease = 0
    BY <1>1, Types DEF PublishQueued, PublishDropped, SessionType
  <2> QED
    BY <2>1 DEF OwnEnvelope
<1>2. CASE Acquire
  BY <1>2, Types, Bounds DEF Acquire, SessionType, Available, OwnEnvelope
<1>3. CASE session'.lease = session.lease /\ \A l \in Leases : Kept(l)
  <2>1. ASSUME session.lease # 0
        PROVE  lease'[session.lease].refs = 0
    <3>1. session.lease \in Leases /\ lease[session.lease].refs = 0
      BY <2>1, SessionFields, Bounds DEF OwnEnvelope
    <3>2. lease'[session.lease].refs \in Nat
      BY <3>1, LeaseTyped DEF LeaseType
    <3> QED
      BY <1>3, <3>1, <3>2 DEF Kept
  <2> QED
    BY <1>3, <2>1 DEF OwnEnvelope
<1>4. session'.lease = session.lease \/ Acquire \/ PublishQueued \/ PublishDropped
  BY SessionLeaseSteps
<1> QED
  BY <1>1, <1>2, <1>3, <1>4, LeaseTyped

\* The tasks that are queued in the next state.
LEMMA QueuedNext ==
    QueuedTasks' = {box'.jobs[i].task : i \in DOMAIN box'.jobs}
  BY DEF QueuedTasks

\* What a selection leaves of the queued tasks.
LEMMA QueueCut ==
    ASSUME TypeOK, NEW n, NEW k, n \in 1 .. Len(box.jobs), k \in 0 .. Len(box.pending),
           Selects(n, k)
    PROVE  QueuedTasks \ Late(n, OwnPicture(box.jobs[n], k))
               \subseteq QueuedTasks' \union {box.jobs[n].task}
<1> DEFINE rest == SubSeq(box.jobs, n + 1, Len(box.jobs))
<1>1. box.jobs \in Seq(JobType) /\ Len(box.jobs) \in Nat /\ DOMAIN box.jobs = 1 .. Len(box.jobs)
  BY BoxFields, LenProperties
<1>2. box'.jobs = rest
  BY Types DEF Selects, BoxType
<1>3. /\ Len(rest) = Len(box.jobs) - n /\ DOMAIN rest = 1 .. Len(box.jobs) - n
      /\ \A i \in 1 .. Len(box.jobs) - n : rest[i] = box.jobs[n + i]
  BY <1>1, SubSeqProperties
<1>4. ASSUME NEW i \in 1 .. Len(box.jobs), i > n
      PROVE  box.jobs[i].task \in QueuedTasks'
  <2>1. i - n \in 1 .. Len(box.jobs) - n /\ n + (i - n) = i
    BY <1>1, <1>4
  <2>2. rest[i - n].task = box.jobs[i].task
    BY <1>3, <2>1
  <2> HIDE DEF rest
  <2> QED
    BY <1>2, <1>3, <2>1, <2>2, QueuedNext
<1>5. ASSUME NEW i \in 1 .. Len(box.jobs), i < n
      PROVE  box.jobs[i].task \in Late(n, OwnPicture(box.jobs[n], k))
  <2>1. i \in 1 .. n - 1
    BY <1>1, <1>5
  <2> QED
    BY <2>1 DEF Late
<1>6. QueuedTasks = {box.jobs[i].task : i \in 1 .. Len(box.jobs)}
  BY <1>1 DEF QueuedTasks
<1>7. ASSUME NEW i \in 1 .. Len(box.jobs)
      PROVE  i < n \/ i = n \/ i > n
  BY <1>1
<1> QED
  BY <1>4, <1>5, <1>6, <1>7

\* The step leaves the queued tasks alone, and the selection, and what the
\* session's thread has in its hands.
SameJobs == box'.jobs = box.jobs
SameSelection == render'.sel = render.sel
SameTask == (IF session'.pc \in InHand THEN {session'.task} ELSE {})
              = (IF session.pc \in InHand THEN {session.task} ELSE {})

\* Who writes the queue of the tasks.
LEMMA JobsSteps ==
    ASSUME TypeOK, Steps
    PROVE  SameJobs \/ QueueAccepted \/ FlushActive \/ StopActive \/ MainClosesActive
           \/ Select \/ CloseFailedActive \/ WorkerClosesActive
<1>1. CASE OpenBare
  BY <1>1, Types
   DEF OpenBare, BoxType, SameJobs
<1>2. CASE OpenDomain
  BY <1>2, Types
   DEF OpenDomain, BoxType, SameJobs
<1>3. CASE OpenedAccepted
  BY <1>3, Types
   DEF OpenedAccepted, BoxType, SameJobs
<1>4. CASE OpenedInVain
  BY <1>4, Types
   DEF OpenedInVain, BoxType, SameJobs
<1>5. CASE EvictOldest
  BY <1>5, Types
   DEF EvictOldest, BoxType, SameJobs
<1>6. CASE PublishQueued
  BY <1>6, Types
   DEF PublishQueued, BoxType, SameJobs
<1>7. CASE MainFreezes
  BY <1>7, Types
   DEF MainFreezes, BoxType, SameJobs
<1>8. CASE Thaw
  BY <1>8, Types
   DEF Thaw, BoxType, SameJobs
<1>9. CASE WorkerFreezes
  BY <1>9, Types
   DEF WorkerFreezes, BoxType, SameJobs
<1>10. CASE QueueAccepted \/ FlushActive \/ StopActive \/ MainClosesActive \/ Select
          \/ CloseFailedActive \/ WorkerClosesActive
  BY <1>10
<1>11. CASE UNCHANGED box
  BY <1>11 DEF SameJobs
<1> QED
  BY <1>1, <1>2, <1>3, <1>4, <1>5, <1>6, <1>7, <1>8, <1>9, <1>10, <1>11, BoxSteps

\* Who writes the selection.
LEMMA SelectionSteps ==
    ASSUME TypeOK, Steps
    PROVE  SameSelection \/ Select \/ CheckVoid \/ PresentShown \/ PresentHeld
<1>1. CASE Collected
  BY <1>1, Types
   DEF Collected, RenderType, SameSelection
<1>2. CASE DropStale
  BY <1>2, Types
   DEF DropStale, RenderType, SameSelection
<1>3. CASE KeepShown
  BY <1>3, Types
   DEF KeepShown, RenderType, SameSelection
<1>4. CASE ForgetNothing
  BY <1>4, Types
   DEF ForgetNothing, RenderType, SameSelection
<1>5. CASE ForgetAll
  BY <1>5, Types
   DEF ForgetAll, RenderType, SameSelection
<1>6. CASE Skip
  BY <1>6, Types
   DEF Skip, RenderType, SameSelection
<1>7. CASE MainFreezes
  BY <1>7, Types
   DEF MainFreezes, RenderType, SameSelection
<1>8. CASE MainClosesActive
  BY <1>8, Types
   DEF MainClosesActive, RenderType, SameSelection
<1>9. CASE MainClosesStale
  BY <1>9, Types
   DEF MainClosesStale, RenderType, SameSelection
<1>10. CASE Repaint
  BY <1>10, Types
   DEF Repaint, RenderType, SameSelection
<1>11. CASE CheckKept
  BY <1>11, Types
   DEF CheckKept, RenderType, SameSelection
<1>12. CASE DrawNothing
  BY <1>12, Types
   DEF DrawNothing, RenderType, SameSelection
<1>13. CASE Draw
  BY <1>13, Types
   DEF Draw, RenderType, SameSelection
<1>14. CASE ImportFails
  BY <1>14, Types
   DEF ImportFails, RenderType, SameSelection
<1>15. CASE DrawFails
  BY <1>15, Types
   DEF DrawFails, RenderType, SameSelection
<1>16. CASE CloseFailedActive
  BY <1>16, Types
   DEF CloseFailedActive, RenderType, SameSelection
<1>17. CASE CloseFailedStale
  BY <1>17, Types
   DEF CloseFailedStale, RenderType, SameSelection
<1>18. CASE Select \/ CheckVoid \/ PresentShown \/ PresentHeld
  BY <1>18
<1>19. CASE UNCHANGED render
  BY <1>19 DEF SameSelection
<1> QED
  BY <1>1, <1>2, <1>3, <1>4, <1>5, <1>6, <1>7, <1>8, <1>9, <1>10, <1>11, <1>12, <1>13, <1>14,
     <1>15, <1>16, <1>17, <1>18, <1>19, RenderSteps

\* Who takes a task into the hands of the session's thread, or out of them.
LEMMA TaskSteps ==
    ASSUME TypeOK, Steps
    PROVE  SameTask \/ SubmitAccepted \/ Rejected \/ Exhausted \/ QueueAccepted
           \/ QueueRefused
<1>1. CASE Start
  BY <1>1, Types
   DEF Start, SessionType, SameTask, InHand
<1>2. CASE Name
  BY <1>2, Types
   DEF Name, SessionType, SameTask, InHand
<1>3. CASE OpenRefused
  BY <1>3, Types
   DEF OpenRefused, SessionType, SameTask, InHand
<1>4. CASE OpenBare
  BY <1>4, Types
   DEF OpenBare, SessionType, SameTask, InHand
<1>5. CASE OpenDomain
  BY <1>5, Types
   DEF OpenDomain, SessionType, SameTask, InHand
<1>6. CASE OpenFails
  BY <1>6, Types
   DEF OpenFails, SessionType, SameTask, InHand
<1>7. CASE OpenedAccepted
  BY <1>7, Types
   DEF OpenedAccepted, SessionType, SameTask, InHand
<1>8. CASE OpenedInVain
  BY <1>8, Types
   DEF OpenedInVain, SessionType, SameTask, InHand
<1>9. CASE SubmitReset
  BY <1>9, Types
   DEF SubmitReset, SessionType, SameTask, InHand
<1>10. CASE SubmitFails
  BY <1>10, Types
   DEF SubmitFails, SessionType, SameTask, InHand
<1>11. CASE NoPicture
  BY <1>11, Types
   DEF NoPicture, SessionType, SameTask, InHand
<1>12. CASE Acquire
  BY <1>12, Types
   DEF Acquire, SessionType, SameTask, InHand
<1>13. CASE EvictNone
  BY <1>13, Types
   DEF EvictNone, SessionType, SameTask, InHand
<1>14. CASE EvictOldest
  BY <1>14, Types
   DEF EvictOldest, SessionType, SameTask, InHand
<1>15. CASE PublishQueued
  BY <1>15, Types
   DEF PublishQueued, SessionType, SameTask, InHand
<1>16. CASE PublishDropped
  BY <1>16, Types
   DEF PublishDropped, SessionType, SameTask, InHand
<1>17. CASE StopActive
  BY <1>17, Types
   DEF StopActive, SessionType, SameTask, InHand
<1>18. CASE StopStale
  BY <1>18, Types
   DEF StopStale, SessionType, SameTask, InHand
<1>19. CASE StopNothing
  BY <1>19, Types
   DEF StopNothing, SessionType, SameTask, InHand
<1>20. CASE StopCodec
  BY <1>20, Types
   DEF StopCodec, SessionType, SameTask, InHand
<1>21. CASE Teardown
  BY <1>21, Types
   DEF Teardown, SessionType, SameTask, InHand
<1>22. CASE Stopped
  BY <1>22, Types
   DEF Stopped, SessionType, SameTask, InHand
<1>23. CASE SubmitAccepted \/ Rejected \/ Exhausted \/ QueueAccepted \/ QueueRefused
  BY <1>23
<1>24. CASE UNCHANGED session
  BY <1>24 DEF SameTask, InHand
<1> QED
  BY <1>1, <1>2, <1>3, <1>4, <1>5, <1>6, <1>7, <1>8, <1>9, <1>10, <1>11, <1>12, <1>13, <1>14,
     <1>15, <1>16, <1>17, <1>18, <1>19, <1>20, <1>21, <1>22, <1>23, <1>24, SessionSteps

\* The tickets: whoever owes one has the task.
LEMMA TicketsNext ==
    ASSUME TypeOK, ThreadsInv, EpochInv, TicketsInv, Steps
    PROVE  TicketsInv'
<1> DEFINE hands == IF session.pc \in InHand THEN {session.task} ELSE {}
           hands1 == IF session'.pc \in InHand THEN {session'.task} ELSE {}
<1>1. 0 \notin owed /\ owed \subseteq QueuedTasks \union {render.sel.task} \union hands
  BY DEF TicketsInv, NoTaskLost, InHand
<1>2. 0 \notin owed' /\ owed' \subseteq QueuedTasks' \union {render'.sel.task} \union hands1
         => TicketsInv'
  BY DEF TicketsInv, NoTaskLost, InHand
<1>3. /\ SameJobs => QueuedTasks' = QueuedTasks
      /\ SameSelection => render'.sel.task = render.sel.task
      /\ SameTask => hands1 = hands
  BY DEF SameJobs, SameSelection, SameTask, QueuedTasks
<1>4. 0 \in Nat /\ session.task \in Nat /\ session.task + 1 # 0
  BY SessionFields, Bounds
<1>5. CASE SubmitAccepted
  <2>1. /\ owed' = owed \union {session.task + 1} /\ SameJobs /\ SameSelection
        /\ hands = {} /\ hands1 = {session.task + 1}
    BY <1>5, Types DEF SubmitAccepted, SessionType, SameJobs, SameSelection, InHand
  <2> HIDE DEF hands, hands1
  <2> QED
    BY <1>1, <1>2, <1>3, <1>4, <2>1
<1>6. CASE Rejected \/ Exhausted \/ QueueRefused
  <2>1. /\ owed' = owed \ {session.task} /\ SameJobs /\ SameSelection
        /\ hands \subseteq {session.task}
    BY <1>6 DEF Rejected, Exhausted, QueueRefused, SameJobs, SameSelection, InHand
  <2> HIDE DEF hands, hands1
  <2> QED
    BY <1>1, <1>2, <1>3, <2>1
<1>7. CASE QueueAccepted
  <2>1. owed' = owed /\ SameSelection /\ hands = {session.task}
    BY <1>7 DEF QueueAccepted, SameSelection, InHand
  <2>2. QueuedTasks' = QueuedTasks \union {session.task}
    <3> DEFINE j == Task(session.task, IF session.seq = 0 THEN box.seq ELSE session.seq,
                         session.seq = 0)
    <3>1. box'.jobs = Append(box.jobs, j)
      BY <1>7, Types DEF QueueAccepted, BoxType
    <3>2. j \in JobType /\ j.task = session.task
      BY SessionFields, BoxFields DEF Task, JobType
    <3>3. box.jobs \in Seq(JobType) /\ Len(box.jobs) \in Nat
      BY BoxFields
    <3> HIDE DEF j
    <3>4. /\ Len(Append(box.jobs, j)) = Len(box.jobs) + 1
          /\ DOMAIN Append(box.jobs, j) = 1 .. Len(box.jobs) + 1
          /\ DOMAIN box.jobs = 1 .. Len(box.jobs)
          /\ Append(box.jobs, j)[Len(box.jobs) + 1] = j
          /\ \A i \in 1 .. Len(box.jobs) : Append(box.jobs, j)[i] = box.jobs[i]
      BY <3>2, <3>3
    <3>5. 1 .. Len(box.jobs) + 1 = (1 .. Len(box.jobs)) \union {Len(box.jobs) + 1}
      BY <3>3
    <3> QED
      BY <3>1, <3>2, <3>4, <3>5, QueuedNext DEF QueuedTasks
  <2> HIDE DEF hands, hands1
  <2> QED
    BY <1>1, <1>2, <2>1, <2>2 DEF SameSelection
<1>8. CASE FlushActive \/ StopActive \/ MainClosesActive \/ CloseFailedActive
           \/ WorkerClosesActive
  <2>1. owed' = owed \ QueuedTasks
    BY <1>8 DEF FlushActive, StopActive, MainClosesActive, CloseFailedActive,
                WorkerClosesActive
  <2>2. SameSelection
    BY <1>8, Types DEF FlushActive, StopActive, MainClosesActive, CloseFailedActive,
                       WorkerClosesActive, RenderType, SameSelection
  <2>3. SameTask
    BY <1>8, Types DEF FlushActive, StopActive, MainClosesActive, CloseFailedActive,
                       WorkerClosesActive, SessionType, SameTask, InHand
  <2> HIDE DEF hands, hands1
  <2> QED
    BY <1>1, <1>2, <1>3, <2>1, <2>2, <2>3
<1>9. CASE Select
  <2>1. PICK n \in 1 .. Len(box.jobs), k \in 0 .. Len(box.pending) : Selects(n, k)
    BY <1>9, SelectParts
  <2>2. owed' = owed \ Late(n, OwnPicture(box.jobs[n], k)) /\ render'.sel.task = box.jobs[n].task
    BY <2>1, Types DEF Selects, RenderType
  <2>3. QueuedTasks \ Late(n, OwnPicture(box.jobs[n], k))
            \subseteq QueuedTasks' \union {box.jobs[n].task}
    BY <2>1, QueueCut
  <2>4. render.sel.task = 0
    BY <2>1 DEF Selects, ThreadsInv, NoSelection
  <2>5. hands1 = hands
    BY <2>1 DEF Selects
  <2> HIDE DEF hands, hands1
  <2> QED
    BY <1>1, <1>2, <2>2, <2>3, <2>4, <2>5
<1>10. CASE CheckVoid \/ PresentShown \/ PresentHeld
  <2>1. owed' = owed \ {render.sel.task} /\ SameJobs /\ SameTask
    BY <1>10 DEF CheckVoid, PresentShown, PresentHeld, SameJobs, SameTask
  <2> HIDE DEF hands, hands1
  <2> QED
    BY <1>1, <1>2, <1>3, <2>1
<1>11. CASE SameJobs /\ SameSelection /\ SameTask /\ owed' \subseteq owed
  <2> HIDE DEF hands, hands1
  <2> QED
    BY <1>1, <1>2, <1>3, <1>11
<1>12. CASE NoPicture
  <2>1. owed' \subseteq owed /\ SameJobs /\ SameSelection
    BY <1>12 DEF NoPicture, SameJobs, SameSelection
  <2>2. SameTask
    BY <1>12, Types DEF NoPicture, SessionType, SameTask, InHand
  <2> QED
    BY <1>11, <2>1, <2>2
<1> QED
  BY <1>5, <1>6, <1>7, <1>8, <1>9, <1>10, <1>11, <1>12, JobsSteps, SelectionSteps, TaskSteps,
     OwedSteps

-----------------------------------------------------------------------------
(* The batches.                                                            *)

\* The phases of a turn that has a batch.
Turn == {"check", "draw", "failed", "redraw", "present"}

\* The turns that have a batch, before and after a step.
LEMMA TurnSteps ==
    ASSUME TypeOK, Steps
    PROVE  \/ render'.pc \in Turn <=> render.pc \in Turn
           \/ Repaint \/ Select \/ PresentShown \/ PresentHeld
<1>1. CASE Collected
  BY <1>1, Types
   DEF Collected, RenderType, Turn
<1>2. CASE DropStale
  BY <1>2, Types
   DEF DropStale, RenderType, Turn
<1>3. CASE KeepShown
  BY <1>3, Types
   DEF KeepShown, RenderType, Turn
<1>4. CASE ForgetNothing
  BY <1>4, Types
   DEF ForgetNothing, RenderType, Turn
<1>5. CASE ForgetAll
  BY <1>5, Types
   DEF ForgetAll, RenderType, Turn
<1>6. CASE Skip
  BY <1>6, Types
   DEF Skip, RenderType, Turn
<1>7. CASE MainFreezes
  BY <1>7, Types
   DEF MainFreezes, RenderType, Turn
<1>8. CASE MainClosesActive
  BY <1>8, Types
   DEF MainClosesActive, RenderType, Turn
<1>9. CASE MainClosesStale
  BY <1>9, Types
   DEF MainClosesStale, RenderType, Turn
<1>10. CASE CheckKept
  BY <1>10, Types
   DEF CheckKept, RenderType, Turn
<1>11. CASE CheckVoid
  BY <1>11, Types
   DEF CheckVoid, RenderType, Turn
<1>12. CASE DrawNothing
  BY <1>12, Types
   DEF DrawNothing, RenderType, Turn, Drawing
<1>13. CASE Draw
  BY <1>13, Types
   DEF Draw, RenderType, Turn, Drawing
<1>14. CASE ImportFails
  BY <1>14, Types
   DEF ImportFails, RenderType, Turn, Drawing, AfterDraw
<1>15. CASE DrawFails
  BY <1>15, Types
   DEF DrawFails, RenderType, Turn, Drawing, AfterDraw
<1>16. CASE CloseFailedActive
  BY <1>16, Types
   DEF CloseFailedActive, RenderType, Turn
<1>17. CASE CloseFailedStale
  BY <1>17, Types
   DEF CloseFailedStale, RenderType, Turn
<1>18. CASE Repaint \/ Select \/ PresentShown \/ PresentHeld
  BY <1>18
<1>19. CASE UNCHANGED render
  BY <1>19
<1> QED
  BY <1>1, <1>2, <1>3, <1>4, <1>5, <1>6, <1>7, <1>8, <1>9, <1>10, <1>11, <1>12, <1>13, <1>14,
     <1>15, <1>16, <1>17, <1>18, <1>19, RenderSteps

\* A free batch starts to be recorded, and none is free that holds something.
LEMMA BeginBatch ==
    ASSUME TypeOK, BatchInv, render.pc \notin Turn, render'.pc \in Turn,
           \E b \in FreeBatches : batches' = [batches EXCEPT ![b].state = "recording"]
    PROVE  BatchInv'
<1>1. PICK b \in Batches : /\ batches[b].state = "free"
                           /\ batches' = [batches EXCEPT ![b].state = "recording"]
  BY DEF FreeBatches
<1>2. \A c \in Batches : batches'[c].state = IF c = b THEN "recording" ELSE batches[c].state
  <2>1. batches \in [Batches -> BatchType] /\ batches[b] \in BatchType
    BY Types
  <2> QED
    BY <1>1, <2>1 DEF BatchType
<1>3. \A c \in Batches : c # b => batches'[c] = batches[c]
  BY <1>1, Types
<1>4. \A c \in Batches : batches[c].state # "recording"
  BY DEF BatchInv, Turn
<1> QED
  BY <1>2, <1>3, <1>4 DEF BatchInv, Turn

\* The batch is submitted.
LEMMA SubmitBatch ==
    ASSUME TypeOK, BatchInv, render.pc \in Turn, render'.pc \notin Turn,
           batches' = [batches EXCEPT ![Recording].state = "submitted"]
    PROVE  BatchInv'
<1>1. Recording \in Batches /\ batches[Recording].state = "recording"
  BY RecordingExists DEF Turn
<1>2. \A c \in Batches :
          batches'[c].state = IF c = Recording THEN "submitted" ELSE batches[c].state
  <2>1. batches \in [Batches -> BatchType] /\ batches[Recording] \in BatchType
    BY <1>1, Types
  <2> QED
    BY <1>1, <2>1 DEF BatchType
<1>3. \A c \in Batches : c # Recording => batches'[c] = batches[c]
  BY Types
<1>4. \A c \in Batches : c # Recording => batches[c].state # "recording"
  BY <1>1 DEF BatchInv
<1> QED
  BY <1>1, <1>2, <1>3, <1>4 DEF BatchInv, Turn

\* At most one batch is recorded, in a turn.
LEMMA BatchNext ==
    ASSUME TypeOK, BatchInv, ReferencesCounted, Steps
    PROVE  BatchInv'
<1>1. CASE Repaint
  <2>1. render.pc \notin Turn /\ render'.pc \in Turn
    BY <1>1, Types DEF Repaint, RenderType, Turn
  <2> QED
    BY <1>1, <2>1, BeginBatch DEF Repaint, Begin
<1>2. CASE Select
  <2>1. PICK n \in 1 .. Len(box.jobs), k \in 0 .. Len(box.pending) : Selects(n, k)
    BY <1>2, SelectParts
  <2>2. render.pc \notin Turn /\ render'.pc \in Turn
    BY <2>1, Types DEF Selects, RenderType, Turn
  <2> QED
    BY <2>1, <2>2, BeginBatch DEF Selects
<1>3. CASE PresentShown \/ PresentHeld
  <2>1. render.pc \in Turn /\ render'.pc \notin Turn
    BY <1>3, Types DEF PresentShown, PresentHeld, RenderType, Turn
  <2> QED
    BY <1>3, <2>1, SubmitBatch DEF PresentShown, PresentHeld
<1>4. ASSUME render'.pc \in Turn <=> render.pc \in Turn
      PROVE  BatchInv'
  <2>1. CASE (\E b \in Batches : Completed(b))
    <3>1. PICK b \in Batches : Completed(b)
      BY <2>1
    <3>2. \A c \in Batches : batches'[c] = IF c = b THEN FreeBatch ELSE batches[c]
      BY <3>1, Types DEF Completed
    <3>3. batches[b].state = "submitted" /\ FreeBatch.state = "free"
      BY <3>1 DEF Completed, FreeBatch
    <3> QED
      BY <1>4, <3>2, <3>3 DEF BatchInv, Turn
  <2>2. CASE Draw \/ DrawFails
    <3>1. PICK g \in Groups : batches' = Recorded(Target, g)
      BY <2>2, Draws
    <3>2. Target \in Leases /\ Recording \in Batches /\ batches[Recording].state = "recording"
      BY <2>2, Draws, RecordingExists DEF Draw, DrawFails, Drawing
    <3>3. /\ \A c \in Batches : c # Recording => batches'[c] = batches[c]
          /\ batches'[Recording].state = batches[Recording].state
      BY <3>1, <3>2, RecordedTyped
    <3> QED
      BY <1>4, <3>2, <3>3 DEF BatchInv, Turn
  <2>3. CASE UNCHANGED batches
    BY <1>4, <2>3 DEF BatchInv, Turn
  <2>4. CASE Repaint \/ Select \/ PresentShown \/ PresentHeld
    BY <1>1, <1>2, <1>3, <2>4
  <2> QED
    BY <2>1, <2>2, <2>3, <2>4, BatchSteps
<1> QED
  BY <1>1, <1>2, <1>3, <1>4, TurnSteps

-----------------------------------------------------------------------------
(* The domains and what is made from them.                                 *)

\* What a step does to the groups, and to the use of the domains.
SameGroup(g) == groups'[g].key = groups[g].key /\ groups'[g].dom = groups[g].dom
GroupKept(g) == groups'[g].key # 0 => SameGroup(g)
SameUse(d) == dom'[d].occupied = dom[d].occupied /\ dom'[d].key = dom[d].key

\* One group is imported from the frame that is drawn, a free one or that of the
\* same key; the others stay what they are.
LEMMA ImportedNext ==
    ASSUME TypeOK, ReferencesCounted, Draw \/ DrawFails
    PROVE  \E g \in Groups :
               /\ groups[g].key = 0 \/ groups[g].key = lease[Target].key
               /\ groups'[g].key = lease[Target].key /\ groups'[g].dom = lease[Target].dom
               /\ \A h \in Groups : h # g => SameGroup(h)
               /\ Pin(Target, g)
<1>1. Target \in Leases
  BY TargetLives DEF Draw, DrawFails
<1>2. ASSUME NEW g \in Groups, NEW gs \in [Groups -> GroupType],
             \A h \in Groups : gs[h].key = groups[h].key /\ gs[h].dom = groups[h].dom,
             NEW is, is = Imported(Target, g, gs)
      PROVE  /\ is[g].key = lease[Target].key /\ is[g].dom = lease[Target].dom
             /\ \A h \in Groups : h # g => is[h].key = groups[h].key /\ is[h].dom = groups[h].dom
  <2>1. gs[g] \in GroupType
    BY <1>2
  <2> QED
    BY <1>2, <2>1 DEF Imported, GroupType
<1>3. CASE Draw
  <2>1. PICK g \in GroupsFor(Target) : /\ groups' = Imported(Target, g, Retired(g))
                                       /\ Pin(Target, g)
    BY <1>3 DEF Draw
  <2>2. g \in Groups /\ (groups[g].key = 0 \/ groups[g].key = lease[Target].key)
    BY <2>1 DEF GroupsFor
  <2>3. Retired(g) \in [Groups -> GroupType]
    BY RetiredTyped
  <2>4. \A h \in Groups : Retired(g)[h].key = groups[h].key /\ Retired(g)[h].dom = groups[h].dom
    <3>1. \A h \in Groups : groups[h] \in GroupType
      BY Types
    <3> QED
      BY <3>1 DEF Retired, GroupType
  <2> QED
    BY <1>2, <2>1, <2>2, <2>3, <2>4 DEF SameGroup
<1>4. CASE DrawFails
  <2>1. PICK g \in GroupsFor(Target) :
            /\ groups' = IF g = render.group THEN Imported(Target, g, groups)
                         ELSE [Imported(Target, g, groups) EXCEPT ![g].retiring = TRUE]
            /\ Pin(Target, g)
    BY <1>4 DEF DrawFails
  <2>2. g \in Groups /\ (groups[g].key = 0 \/ groups[g].key = lease[Target].key)
    BY <2>1 DEF GroupsFor
  <2>3. groups \in [Groups -> GroupType]
    BY Types
  <2> DEFINE is == Imported(Target, g, groups)
  <2>4. /\ is[g].key = lease[Target].key /\ is[g].dom = lease[Target].dom
        /\ \A h \in Groups : h # g => is[h].key = groups[h].key /\ is[h].dom = groups[h].dom
    BY <1>2, <2>2, <2>3
  <2>5. is \in [Groups -> GroupType] /\ is[g] \in GroupType
    BY <1>1, <2>2, <2>3, ImportedTyped
  <2>6. groups' = is \/ groups' = [is EXCEPT ![g].retiring = TRUE]
    BY <2>1
  <2> HIDE DEF is
  <2>7. \A h \in Groups : groups'[h].key = is[h].key /\ groups'[h].dom = is[h].dom
    BY <2>2, <2>5, <2>6 DEF GroupType
  <2> QED
    BY <2>1, <2>2, <2>4, <2>7 DEF SameGroup
<1> QED
  BY <1>3, <1>4

\* All other steps keep a group or destroy it.
LEMMA GroupsKept ==
    ASSUME TypeOK, Steps
    PROVE  Draw \/ DrawFails \/ \A g \in Groups : GroupKept(g)
<1>1. \A g \in Groups : groups[g] \in GroupType
  BY Types
<1>2. CASE Collected
  BY <1>1, <1>2 DEF Collected, FreeGroup, GroupKept, SameGroup
<1>3. CASE ForgetAll
  BY <1>1, <1>3 DEF ForgetAll, Retired, GroupType, GroupKept, SameGroup
<1>4. CASE UNCHANGED groups
  BY <1>4 DEF GroupKept, SameGroup
<1> QED
  BY <1>2, <1>3, <1>4, GroupSteps

\* A domain is taken by an open and given back by a reaper.
LEMMA UseSteps ==
    ASSUME TypeOK, ThreadsInv, Steps
    PROVE  \/ \A d \in 1 .. Domains : SameUse(d)
           \/ /\ OpenedAccepted \/ OpenedInVain
              /\ session.dom \in 1 .. Domains
              /\ dom'[session.dom].occupied /\ dom'[session.dom].key = session.key
              /\ \A d \in 1 .. Domains : d # session.dom => SameUse(d)
           \/ \E t \in Reapers :
                  /\ reap[t].stage = "free" /\ reap[t].at \in 1 .. Domains
                  /\ UNCHANGED <<lease, groups, session, box>>
                  /\ ~dom'[reap[t].at].occupied
                  /\ \A d \in 1 .. Domains : d # reap[t].at => SameUse(d)
<1>1. dom \in [1 .. Domains -> DomainType] /\ \A d \in 1 .. Domains : dom[d] \in DomainType
  BY Types
<1>2. CASE OpenedAccepted \/ OpenedInVain
  <2>1. session.dom \in 1 .. Domains
    BY <1>2, SessionFields, Bounds DEF OpenedAccepted, OpenedInVain, ThreadsInv
  <2>2. PICK st \in BOOLEAN :
            dom' = [dom EXCEPT ![session.dom] = [occupied |-> TRUE, stopped |-> st,
                                                 reaping |-> FALSE, key |-> session.key]]
    BY <1>2 DEF OpenedAccepted, OpenedInVain
  <2>3. dom'[session.dom].occupied /\ dom'[session.dom].key = session.key
    BY <1>1, <2>1, <2>2
  <2>4. \A d \in 1 .. Domains : d # session.dom => SameUse(d)
    BY <1>1, <2>2 DEF SameUse
  <2> QED
    BY <1>2, <2>1, <2>3, <2>4
<1>3. CASE StopCodec
  <2>1. PICK D \in SUBSET (1 .. Domains) :
            dom' = [d \in 1 .. Domains |-> IF d \in D
                       THEN [dom[d] EXCEPT !.stopped = TRUE, !.reaping = TRUE] ELSE dom[d]]
    BY <1>3 DEF StopCodec
  <2> QED
    BY <1>1, <2>1 DEF DomainType, SameUse
<1>4. CASE Teardown
  BY <1>1, <1>4 DEF Teardown, DomainType, SameUse
<1>5. CASE (\E t \in Reapers : ReapTakes(t))
  <2>1. PICK t \in Reapers : /\ reap[t].at \in 1 .. Domains
                             /\ dom' = [dom EXCEPT ![reap[t].at].reaping = TRUE]
    BY <1>5 DEF ReapTakes
  <2> QED
    BY <1>1, <2>1 DEF DomainType, SameUse
<1>6. CASE (\E t \in Reapers : ReapFree(t))
  <2>1. PICK t \in Reapers : ReapFree(t)
    BY <1>6
  <2>2. /\ reap[t].stage = "free" /\ reap[t].at \in 1 .. Domains
        /\ UNCHANGED <<lease, groups, session, box>>
        /\ dom' = [dom EXCEPT ![reap[t].at] = FreeDomain]
    BY <2>1 DEF ReapFree
  <2>3. ~dom'[reap[t].at].occupied
    BY <1>1, <2>2 DEF FreeDomain
  <2>4. \A d \in 1 .. Domains : d # reap[t].at => SameUse(d)
    BY <1>1, <2>2 DEF SameUse
  <2> QED
    BY <2>2, <2>3, <2>4
<1>7. CASE UNCHANGED dom
  BY <1>7 DEF SameUse
<1> QED
  BY <1>2, <1>3, <1>4, <1>5, <1>6, <1>7, DomainSteps

\* A frame that is counted was counted before, or is the one just published.
LEMMA FramesNext ==
    ASSUME TypeOK, ThreadsInv, EpochInv, BatchInv, ReferencesCounted, Steps, NEW l \in Leases,
           lease'[l].refs > 0
    PROVE  \/ lease[l].refs > 0 /\ SameFrame(lease'[l], lease[l])
           \/ /\ PublishQueued \/ PublishDropped
              /\ l = session.lease /\ lease'[l].key = session.key
              /\ lease'[l].task = session.task
              /\ PublishQueued => lease'[l].seq = box.seq + 1
              /\ lease'[l].dom \in DomainOf(session.key)
<1>1. CASE PublishQueued \/ PublishDropped
  <2>1. l # session.lease => lease'[l] = lease[l]
    BY <1>1, Publishes
  <2>2. CASE l = session.lease
    BY <1>1, <2>2, Publishes
  <2>3. CASE l # session.lease
    BY <2>1, <2>3 DEF SameFrame
  <2> QED
    BY <2>2, <2>3
<1>2. CASE Kept(l)
  BY <1>2 DEF Kept
<1> QED
  BY <1>1, <1>2, LeaseTyped

\* A group in use was in use before, or is imported from a counted frame.
LEMMA GroupsNext ==
    ASSUME TypeOK, ReferencesCounted, Steps, NEW g \in Groups, groups'[g].key # 0
    PROVE  \/ groups[g].key # 0 /\ SameGroup(g)
           \/ \E l \in Leases : /\ lease[l].refs > 0 /\ UNCHANGED <<dom, session, box, reap>>
                                /\ groups'[g].key = lease[l].key
                                /\ groups'[g].dom = lease[l].dom
<1>1. CASE Draw \/ DrawFails
  <2>1. PICK h \in Groups : /\ groups'[h].key = lease[Target].key
                            /\ groups'[h].dom = lease[Target].dom
                            /\ \A f \in Groups : f # h => SameGroup(f)
    BY <1>1, ImportedNext
  <2>2. Target \in Leases /\ lease[Target].refs > 0
    BY <1>1, TargetLives DEF Draw, DrawFails
  <2>3. UNCHANGED <<dom, session, box, reap>>
    BY <1>1 DEF Draw, DrawFails
  <2>4. CASE g = h
    BY <2>1, <2>2, <2>3, <2>4
  <2>5. CASE g # h
    BY <2>1, <2>5 DEF SameGroup
  <2> QED
    BY <2>4, <2>5
<1>2. CASE GroupKept(g)
  BY <1>2 DEF GroupKept, SameGroup
<1> QED
  BY <1>1, <1>2, GroupsKept

\* While a frame is published no domain is taken back.
LEMMA NoReapWhilePublishing ==
    ASSUME TypeOK, ThreadsInv, session.pc = "publish"
    PROVE  \A t \in Reapers : reap[t].stage = "look"
<1>1. reap["session"].at = 0 /\ reap["worker"].at = 0
  BY DEF ThreadsInv
<1>2. 0 \notin 1 .. Domains
  BY Bounds
<1> QED
  BY <1>1, <1>2 DEF ThreadsInv, Reapers

\* The newest epoch only grows.
LEMMA ActiveGrows ==
    ASSUME TypeOK, Steps
    PROVE  /\ box.active <= box'.active
           /\ box'.active = box.active \/ OpenBare \/ OpenDomain
<1>1. CASE OpenBare
  BY <1>1, Types, BoxFields, SessionFields, Bounds
   DEF OpenBare, BoxType, Admissible
<1>2. CASE OpenDomain
  <2>1. box'.active = session.key /\ box.active < session.key
    BY <1>2, Types DEF OpenDomain, BoxType, Admissible
  <2> QED
    BY <1>2, <2>1, BoxFields, SessionFields, Bounds
<1>3. CASE OpenedAccepted
  BY <1>3, Types, BoxFields, SessionFields, Bounds
   DEF OpenedAccepted, BoxType, Admissible
<1>4. CASE OpenedInVain
  BY <1>4, Types, BoxFields, SessionFields, Bounds
   DEF OpenedInVain, BoxType, Admissible
<1>5. CASE EvictOldest
  BY <1>5, Types, BoxFields, SessionFields, Bounds
   DEF EvictOldest, BoxType
<1>6. CASE PublishQueued
  BY <1>6, Types, BoxFields, SessionFields, Bounds
   DEF PublishQueued, BoxType
<1>7. CASE QueueAccepted
  BY <1>7, Types, BoxFields, SessionFields, Bounds
   DEF QueueAccepted, BoxType
<1>8. CASE FlushActive
  BY <1>8, Types, BoxFields, SessionFields, Bounds
   DEF FlushActive, BoxType
<1>9. CASE StopActive
  BY <1>9, Types, BoxFields, SessionFields, Bounds
   DEF StopActive, BoxType
<1>10. CASE MainFreezes
  BY <1>10, Types, BoxFields, SessionFields, Bounds
   DEF MainFreezes, BoxType
<1>11. CASE MainClosesActive
  BY <1>11, Types, BoxFields, SessionFields, Bounds
   DEF MainClosesActive, BoxType
<1>12. CASE Select
  BY <1>12, Types, BoxFields, SessionFields, Bounds
   DEF Select, BoxType
<1>13. CASE CloseFailedActive
  BY <1>13, Types, BoxFields, SessionFields, Bounds
   DEF CloseFailedActive, BoxType
<1>14. CASE Thaw
  BY <1>14, Types, BoxFields, SessionFields, Bounds
   DEF Thaw, BoxType
<1>15. CASE WorkerFreezes
  BY <1>15, Types, BoxFields, SessionFields, Bounds
   DEF WorkerFreezes, BoxType
<1>16. CASE WorkerClosesActive
  BY <1>16, Types, BoxFields, SessionFields, Bounds
   DEF WorkerClosesActive, BoxType
<1>17. CASE UNCHANGED box
  BY <1>17, BoxFields, Bounds
<1> QED
  BY <1>1, <1>2, <1>3, <1>4, <1>5, <1>6, <1>7, <1>8, <1>9, <1>10, <1>11, <1>12, <1>13, <1>14,
     <1>15, <1>16, <1>17, BoxSteps

\* An open holds its domain until the codec is open.
LEMMA CodecSteps ==
    ASSUME TypeOK, Steps
    PROVE  \/ session'.pc # "codec" \/ OpenDomain
           \/ /\ session.pc = "codec" /\ session'.dom = session.dom /\ session'.key = session.key
              /\ ~(OpenedAccepted \/ OpenedInVain)
<1>0. OpenedAccepted \/ OpenedInVain => session'.pc # "codec"
  <2>1. session \in SessionType
    BY Types
  <2>2. OpenedAccepted => session' = [session EXCEPT !.pc = "streaming", !.dom = 0]
    BY DEF OpenedAccepted
  <2>3. OpenedInVain => session' = [session EXCEPT !.pc = "idle", !.dom = 0]
    BY DEF OpenedInVain
  <2> QED
    BY <2>1, <2>2, <2>3 DEF SessionType
<1>1. CASE Start
  BY <1>1, Types DEF Start, SessionType, SessionPc
<1>2. CASE Name
  BY <1>2, Types DEF Name, SessionType, SessionPc
<1>3. CASE OpenRefused
  BY <1>3, Types DEF OpenRefused, SessionType, SessionPc
<1>4. CASE OpenBare
  BY <1>4, Types DEF OpenBare, SessionType, SessionPc
<1>5. CASE OpenFails
  BY <1>5, Types DEF OpenFails, SessionType, SessionPc
<1>6. CASE OpenedAccepted
  BY <1>6, Types DEF OpenedAccepted, SessionType, SessionPc
<1>7. CASE OpenedInVain
  BY <1>7, Types DEF OpenedInVain, SessionType, SessionPc
<1>8. CASE SubmitReset
  BY <1>8, Types DEF SubmitReset, SessionType, SessionPc
<1>9. CASE SubmitFails
  BY <1>9, Types DEF SubmitFails, SessionType, SessionPc
<1>10. CASE SubmitAccepted
  BY <1>10, Types DEF SubmitAccepted, SessionType, SessionPc
<1>11. CASE Rejected
  BY <1>11, Types DEF Rejected, SessionType, SessionPc
<1>12. CASE NoPicture
  BY <1>12, Types DEF NoPicture, SessionType, SessionPc
<1>13. CASE Acquire
  BY <1>13, Types DEF Acquire, SessionType, SessionPc
<1>14. CASE EvictNone
  BY <1>14, Types DEF EvictNone, SessionType, SessionPc
<1>15. CASE EvictOldest
  BY <1>15, Types DEF EvictOldest, SessionType, SessionPc
<1>16. CASE Exhausted
  BY <1>16, Types DEF Exhausted, SessionType, SessionPc
<1>17. CASE PublishQueued
  BY <1>17, Types DEF PublishQueued, SessionType, SessionPc
<1>18. CASE PublishDropped
  BY <1>18, Types DEF PublishDropped, SessionType, SessionPc
<1>19. CASE QueueAccepted
  BY <1>19, Types DEF QueueAccepted, SessionType, SessionPc
<1>20. CASE QueueRefused
  BY <1>20, Types DEF QueueRefused, SessionType, SessionPc
<1>21. CASE StopActive
  BY <1>21, Types DEF StopActive, SessionType, SessionPc
<1>22. CASE StopStale
  BY <1>22, Types DEF StopStale, SessionType, SessionPc
<1>23. CASE StopNothing
  BY <1>23, Types DEF StopNothing, SessionType, SessionPc
<1>24. CASE StopCodec
  BY <1>24, Types DEF StopCodec, SessionType, SessionPc
<1>25. CASE Teardown
  BY <1>25, Types DEF Teardown, SessionType, SessionPc
<1>26. CASE Stopped
  BY <1>26, Types DEF Stopped, SessionType, SessionPc
<1>27. CASE OpenDomain
  BY <1>27
<1>28. CASE UNCHANGED session
  BY <1>28, <1>0
<1> QED
  BY <1>1, <1>2, <1>3, <1>4, <1>5, <1>6, <1>7, <1>8, <1>9, <1>10, <1>11, <1>12, <1>13, <1>14,
     <1>15, <1>16, <1>17, <1>18, <1>19, <1>20, <1>21, <1>22, <1>23, <1>24, <1>25, <1>26,
     <1>27, <1>28, SessionSteps

\* The domains in use belong to different epochs.
LEMMA DomainsNext ==
    ASSUME TypeOK, ThreadsInv, EpochInv, BatchInv, ReferencesCounted, DomainsInv, Steps
    PROVE  DomainsInv'
<1>1. \A d \in 1 .. Domains : dom[d].occupied => dom[d].key # 0 /\ dom[d].key <= box.active
  BY DEF DomainsInv
<1>2. \A d \in 1 .. Domains : dom'[d].occupied => dom'[d].key # 0 /\ dom'[d].key <= box'.active
  <2>1. ASSUME NEW d \in 1 .. Domains, SameUse(d), dom'[d].occupied
        PROVE  dom'[d].key # 0 /\ dom'[d].key <= box'.active
    <3>1. dom[d].key # 0 /\ dom[d].key <= box.active /\ dom'[d].key = dom[d].key
      BY <1>1, <2>1 DEF SameUse
    <3>2. dom[d].key \in Nat /\ box.active \in Nat /\ box'.active \in Nat
      BY Types, BoxTyped, BoxFields, Bounds DEF DomainType, BoxType
    <3> QED
      BY <3>1, <3>2, ActiveGrows
  <2>2. ASSUME OpenedAccepted \/ OpenedInVain
        PROVE  session.key # 0 /\ session.key <= box'.active
    <3>1. session.key # 0 /\ session.key = box.active
      BY <2>2 DEF OpenedAccepted, OpenedInVain, EpochInv, HasEpoch
    <3> QED
      BY <3>1, ActiveGrows, BoxFields, Bounds
  <2> QED
    BY <2>1, <2>2, UseSteps
<1>3. \A d, e \in 1 .. Domains :
          dom'[d].occupied /\ dom'[e].occupied /\ dom'[d].key = dom'[e].key => d = e
  <2>1. \A d, e \in 1 .. Domains :
            dom[d].occupied /\ dom[e].occupied /\ dom[d].key = dom[e].key => d = e
    BY DEF DomainsInv
  <2>2. OpenedAccepted \/ OpenedInVain
           => \A d \in 1 .. Domains : dom[d].occupied => dom[d].key # session.key
    BY DEF OpenedAccepted, OpenedInVain, DomainsInv
  <2> QED
    BY <2>1, <2>2, UseSteps DEF SameUse
<1>4. session'.pc = "codec" =>
         /\ ~dom'[session'.dom].occupied
         /\ \A d \in 1 .. Domains : dom'[d].occupied => dom'[d].key # session'.key
  <2>1. CASE OpenDomain
    <3>1. PICK d \in FreeDomains : session' = [session EXCEPT !.pc = "codec", !.dom = d]
      BY <2>1 DEF OpenDomain
    <3>2. session'.dom = d /\ session'.key = session.key /\ UNCHANGED dom
      BY <2>1, <3>1, Types DEF OpenDomain, SessionType
    <3>3. ASSUME NEW e \in 1 .. Domains, dom[e].occupied
          PROVE  dom[e].key # session.key
      <4>1. dom[e].key <= box.active /\ box.active < session.key
        BY <1>1, <2>1, <3>3 DEF OpenDomain, Admissible
      <4>2. dom[e].key \in Keys
        BY Types DEF DomainType
      <4>3. box.active \in Keys /\ session.key \in Keys
        BY BoxFields, SessionFields
      <4>4. dom[e].key \in Nat /\ box.active \in Nat /\ session.key \in Nat
        BY <4>2, <4>3, Bounds
      <4> QED
        BY <4>1, <4>4
    <3> QED
      BY <3>2, <3>3 DEF FreeDomains
  <2>2. CASE session.pc = "codec" /\ session'.dom = session.dom /\ session'.key = session.key
             /\ ~(OpenedAccepted \/ OpenedInVain)
    <3>1. session.dom \in 1 .. Domains
      BY <2>2, SessionFields, Bounds DEF ThreadsInv
    <3>2. /\ ~dom[session.dom].occupied
          /\ \A d \in 1 .. Domains : dom[d].occupied => dom[d].key # session.key
      BY <2>2 DEF DomainsInv
    <3> QED
      BY <2>2, <3>1, <3>2, UseSteps DEF SameUse
  <2>3. \/ session'.pc # "codec" \/ OpenDomain
        \/ /\ session.pc = "codec" /\ session'.dom = session.dom /\ session'.key = session.key
           /\ ~(OpenedAccepted \/ OpenedInVain)
    BY CodecSteps
  <2> QED
    BY <2>1, <2>2, <2>3
<1>5. \A l \in Leases : lease'[l].refs > 0 => lease'[l].dom # 0 /\ lease'[l].key # 0
  <2>1. ASSUME NEW l \in Leases, lease'[l].refs > 0
        PROVE  lease'[l].dom # 0 /\ lease'[l].key # 0
    <3>1. CASE lease[l].refs > 0 /\ SameFrame(lease'[l], lease[l])
      BY <3>1 DEF SameFrame, DomainsInv
    <3>2. CASE /\ PublishQueued \/ PublishDropped
               /\ lease'[l].key = session.key /\ lease'[l].dom \in DomainOf(session.key)
      BY <3>2, Bounds DEF PublishQueued, PublishDropped, EpochInv, HasEpoch, DomainOf
    <3> QED
      BY <2>1, <3>1, <3>2, FramesNext
  <2> QED
    BY <2>1
<1>6. \A g \in Groups : groups'[g].key # 0 => groups'[g].dom # 0
  BY GroupsNext DEF SameGroup, DomainsInv
<1> QED
  BY <1>2, <1>3, <1>4, <1>5, <1>6 DEF DomainsInv

\* A domain outlives everything that was made from it.
LEMMA OutlivesNext ==
    ASSUME TypeOK, ThreadsInv, EpochInv, BatchInv, ReferencesCounted, DomainsInv,
           DomainOutlivesUse, ReapInv, Steps
    PROVE  DomainOutlivesUse'
<1>1. ASSUME NEW d \in 1 .. Domains, dom[d].occupied,
             \/ \E l \in Leases : lease[l].refs > 0 /\ lease[l].dom = d
             \/ \E g \in Groups : groups[g].key # 0 /\ groups[g].dom = d
      PROVE  SameUse(d)
  <2>1. CASE OpenedAccepted \/ OpenedInVain
    <3>1. ~dom[session.dom].occupied
      BY <2>1 DEF OpenedAccepted, OpenedInVain, DomainsInv
    <3>2. d # session.dom
      BY <1>1, <3>1
    <3>3. \A t \in Reapers : reap[t].stage = "free" => d # reap[t].at
      BY <1>1 DEF ReapInv
    <3> QED
      BY <3>2, <3>3, UseSteps
  <2>2. CASE ~(OpenedAccepted \/ OpenedInVain)
    <3>1. \A t \in Reapers : reap[t].stage = "free" => d # reap[t].at
      BY <1>1 DEF ReapInv
    <3> QED
      BY <2>2, <3>1, UseSteps
  <2> QED
    BY <2>1, <2>2
<1>2. ASSUME NEW l \in Leases, lease'[l].refs > 0
      PROVE  dom'[lease'[l].dom].occupied /\ dom'[lease'[l].dom].key = lease'[l].key
  <2>1. CASE lease[l].refs > 0 /\ SameFrame(lease'[l], lease[l])
    <3>1. lease[l].dom \in 1 .. Domains
      BY <2>1, LeaseFields, Bounds DEF DomainsInv
    <3>2. dom[lease[l].dom].occupied /\ dom[lease[l].dom].key = lease[l].key
      BY <2>1 DEF DomainOutlivesUse
    <3>3. SameUse(lease[l].dom)
      BY <1>1, <2>1, <3>1, <3>2
    <3> QED
      BY <2>1, <3>2, <3>3 DEF SameUse, SameFrame
  <2>2. CASE /\ PublishQueued \/ PublishDropped
             /\ lease'[l].key = session.key /\ lease'[l].dom \in DomainOf(session.key)
    <3>1. UNCHANGED dom
      BY <2>2 DEF PublishQueued, PublishDropped
    <3> QED
      BY <2>2, <3>1 DEF DomainOf
  <2> QED
    BY <1>2, <2>1, <2>2, FramesNext
<1>3. ASSUME NEW g \in Groups, groups'[g].key # 0
      PROVE  dom'[groups'[g].dom].occupied /\ dom'[groups'[g].dom].key = groups'[g].key
  <2>1. CASE groups[g].key # 0 /\ SameGroup(g)
    <3>1. groups[g].dom \in 0 .. Domains
      BY Types DEF GroupType
    <3>2. groups[g].dom \in 1 .. Domains
      BY <2>1, <3>1, Bounds DEF DomainsInv
    <3>3. dom[groups[g].dom].occupied /\ dom[groups[g].dom].key = groups[g].key
      BY <2>1 DEF DomainOutlivesUse
    <3>4. SameUse(groups[g].dom)
      BY <1>1, <2>1, <3>2, <3>3
    <3> QED
      BY <2>1, <3>3, <3>4 DEF SameUse, SameGroup
  <2>2. CASE \E l \in Leases : /\ lease[l].refs > 0 /\ UNCHANGED <<dom, session, box, reap>>
                               /\ groups'[g].key = lease[l].key
                               /\ groups'[g].dom = lease[l].dom
    BY <2>2 DEF DomainOutlivesUse
  <2> QED
    BY <1>3, <2>1, <2>2, GroupsNext
<1> QED
  BY <1>2, <1>3 DEF DomainOutlivesUse

\* Where a reaper that has found a domain comes from.
LEMMA ReapStageSteps ==
    ASSUME TypeOK, Steps, NEW r \in Reapers, reap'[r].stage # "look"
    PROVE  \/ reap'[r] = reap[r]
           \/ reap'[r].stage = "maps" /\ reap'[r].at = reap[r].at /\ External(reap[r].at) = 0
              /\ UNCHANGED <<lease, groups>>
           \/ reap'[r].stage = "free" /\ reap'[r].at = reap[r].at /\ Mappings(reap[r].at) = 0
              /\ reap[r].stage = "maps" /\ UNCHANGED <<lease, groups>>
<1>1. reap \in [Reapers -> ReapType]
  BY Types
<1>2. CASE Start
  BY <1>1, <1>2 DEF Start, ReapType, Reapers
<1>3. CASE Name
  BY <1>1, <1>3 DEF Name, ReapType, Reapers
<1>4. CASE StopNothing
  BY <1>1, <1>4 DEF StopNothing, ReapType, Reapers
<1>5. CASE Teardown
  BY <1>1, <1>5 DEF Teardown, ReapType, Reapers
<1>6. CASE Stopped
  BY <1>1, <1>6 DEF Stopped, ReapType, Reapers
<1>7. CASE (\E t \in Reapers : ReapPasses(t))
  <2>1. PICK u \in Reapers : ReapPasses(u)
    BY <1>7
  <2> QED
    BY <1>1, <2>1 DEF ReapPasses, ReapType
<1>8. CASE (\E t \in Reapers : ReapFinds(t))
  <2>1. PICK u \in Reapers : ReapFinds(u)
    BY <1>8
  <2> QED
    BY <1>1, <2>1 DEF ReapFinds, ReapType
<1>9. CASE (\E t \in Reapers : ReapLeaves(t))
  <2>1. PICK u \in Reapers : ReapLeaves(u)
    BY <1>9
  <2> QED
    BY <1>1, <2>1 DEF ReapLeaves, ReapType
<1>10. CASE (\E t \in Reapers : ReapTakes(t))
  <2>1. PICK u \in Reapers : ReapTakes(u)
    BY <1>10
  <2> QED
    BY <1>1, <2>1 DEF ReapTakes, ReapType
<1>11. CASE (\E t \in Reapers : ReapFree(t))
  <2>1. PICK u \in Reapers : ReapFree(u)
    BY <1>11
  <2> QED
    BY <1>1, <2>1 DEF ReapFree, ReapType
<1>12. CASE Joined
  BY <1>1, <1>12 DEF Joined, ReapType, Reapers
<1>13. CASE CleanedDone
  BY <1>1, <1>13 DEF CleanedDone, ReapType, Reapers
<1>14. CASE CleanedAgain
  BY <1>1, <1>14 DEF CleanedAgain, ReapType, Reapers
<1>15. CASE UNCHANGED reap
  BY <1>15
<1> QED
  BY <1>2, <1>3, <1>4, <1>5, <1>6, <1>7, <1>8, <1>9, <1>10, <1>11, <1>12, <1>13, <1>14, <1>15,
     ReapSteps

\* What a reaper has found out about its domain stays true.
LEMMA ReapNext ==
    ASSUME TypeOK, ThreadsInv, EpochInv, BatchInv, ReferencesCounted, ReapInv, Steps
    PROVE  ReapInv'
<1>1. ASSUME NEW t \in Reapers, reap'[t].stage # "look", NEW l \in Leases, lease'[l].refs > 0
      PROVE  lease'[l].dom # reap'[t].at
  <2>1. CASE reap'[t].stage = "maps" /\ reap'[t].at = reap[t].at /\ External(reap[t].at) = 0
             /\ UNCHANGED <<lease, groups>>
    <3> DEFINE E == {k \in Leases : lease[k].refs > 0 /\ lease[k].dom = reap[t].at}
    <3>1. IsFiniteSet(E)
      BY PoolsAssumption, FS_Subset
    <3>2. E = {}
      BY <2>1, <3>1, FS_EmptySet DEF External
    <3> QED
      BY <1>1, <2>1, <3>2
  <2>2. CASE reap[t].stage # "look" /\ reap'[t].at = reap[t].at
    <3>1. session.pc # "publish"
      BY <2>2, NoReapWhilePublishing
    <3>2. lease[l].refs > 0 /\ SameFrame(lease'[l], lease[l])
      BY <1>1, <3>1, FramesNext DEF PublishQueued, PublishDropped
    <3> QED
      BY <2>2, <3>2 DEF SameFrame, ReapInv
  <2>3. reap'[t] = reap[t] => reap[t].stage # "look" /\ reap'[t].at = reap[t].at
    BY <1>1
  <2>4. "maps" # "look"
    OBVIOUS
  <2> QED
    BY <1>1, <2>1, <2>2, <2>3, <2>4, ReapStageSteps
<1>2. ASSUME NEW t \in Reapers, reap'[t].stage = "free", NEW g \in Groups, groups'[g].key # 0
      PROVE  groups'[g].dom # reap'[t].at
  <2>1. CASE /\ reap'[t].at = reap[t].at /\ Mappings(reap[t].at) = 0 /\ UNCHANGED groups
    <3> DEFINE E == {k \in Groups : groups[k].dom = reap[t].at}
    <3>1. IsFiniteSet(E)
      BY PoolsAssumption, FS_Subset
    <3>2. E = {}
      BY <2>1, <3>1, FS_EmptySet DEF Mappings
    <3> QED
      BY <2>1, <3>2
  <2>2. CASE reap'[t] = reap[t]
    <3>1. reap[t].stage = "free" /\ reap'[t].at = reap[t].at
      BY <1>2, <2>2
    <3>2. CASE groups[g].key # 0 /\ SameGroup(g)
      BY <3>1, <3>2 DEF SameGroup, ReapInv
    <3>3. CASE \E l \in Leases : lease[l].refs > 0 /\ groups'[g].dom = lease[l].dom
      BY <3>1, <3>3 DEF ReapInv
    <3> QED
      BY <1>2, <3>2, <3>3, GroupsNext
  <2> QED
    BY <1>2, <2>1, <2>2, ReapStageSteps
<1> QED
  BY <1>1, <1>2 DEF ReapInv

-----------------------------------------------------------------------------
(* What is held stays what it is.                                          *)

\* A frame that somebody holds after a step is not returned.
LEMMA HeldNext ==
    ASSUME TypeOK, ThreadsInv, EpochInv, BatchInv, ReferencesCounted, OwnEnvelope, Steps,
           NEW l \in Leases,
           \/ \E i \in 1 .. Len(box'.pending) : box'.pending[i] = l
           \/ \E b \in Batches : l \in batches'[b].frames
           \/ render'.sel.frame = l
    PROVE  lease'[l].refs > 0
<1>1. lease'[l].refs = After(l)
  <2>1. lease'[l].refs = Holders(l)'
    BY CountedNext DEF ReferencesCounted
  <2> QED
    BY <2>1, Kinds
<1>2. /\ P1(l) \in Nat /\ A1(l) \in Nat /\ B1(l) \in Nat /\ C1(l) \in Nat /\ R1(l) \in Nat
      /\ I1(l) \in Nat /\ S1(l) \in Nat /\ K1(l) \in Nat
  <2>1. box'.pending \in Seq(Leases)
    BY BoxTyped DEF BoxType
  <2>2. \A t \in Threads : drop'[t] \in Seq(Leases)
    BY DropTyped
  <2>3. {b \in Batches : l \in batches'[b].frames} \in SUBSET Batches /\ IsFiniteSet(Batches)
    BY PoolsAssumption
  <2> QED
    BY <2>1, <2>2, <2>3, CountPlaces, FS_Subset, FS_CardinalityType
       DEF P1, A1, B1, C1, R1, I1, S1, K1, One, Threads
<1>3. P1(l) > 0 \/ R1(l) > 0 \/ S1(l) > 0
  <2>1. CASE \E i \in 1 .. Len(box'.pending) : box'.pending[i] = l
    <3>1. box'.pending \in Seq(Leases)
      BY BoxTyped DEF BoxType
    <3> QED
      BY <2>1, <3>1, CountPositive DEF P1
  <2>2. CASE \E b \in Batches : l \in batches'[b].frames
    <3> DEFINE N == {b \in Batches : l \in batches'[b].frames}
    <3>1. N # {} /\ N \in SUBSET Batches /\ IsFiniteSet(Batches)
      BY <2>2, PoolsAssumption
    <3>2. IsFiniteSet(N)
      BY <3>1, FS_Subset
    <3>3. Cardinality(N) # 0
      BY <3>1, <3>2, FS_EmptySet
    <3>4. R1(l) # 0
      BY <3>3 DEF R1
    <3> QED
      BY <1>2, <3>4
  <2>3. CASE render'.sel.frame = l
    BY <2>3 DEF S1, One
  <2> QED
    BY <2>1, <2>2, <2>3
<1>4. After(l) > 0
  BY ONLY <1>2, <1>3 DEF After
<1> QED
  BY <1>1, <1>4

\* A frame that is counted before a step and after it carries the same picture.
LEMMA Survives ==
    ASSUME TypeOK, ThreadsInv, EpochInv, BatchInv, ReferencesCounted, OwnEnvelope, Steps,
           NEW l \in Leases, lease[l].refs > 0, lease'[l].refs > 0
    PROVE  SameFrame(lease'[l], lease[l])
<1>1. l # session.lease
  BY Bounds DEF OwnEnvelope
<1> QED
  BY <1>1, FramesNext

\* A group that a batch has recorded is not destroyed, and not given to another
\* domain.
LEMMA PinnedStays ==
    ASSUME TypeOK, ReferencesCounted, DomainsInv, DomainOutlivesUse, BatchKeepsGroups, Steps,
           NEW b \in Batches, NEW g \in batches[b].groups
    PROVE  groups'[g].key # 0 /\ groups'[g].dom = groups[g].dom
<1>1. groups[g].key # 0 /\ g \in Groups
  <2>1. batches[b] \in BatchType
    BY Types
  <2> QED
    BY <2>1 DEF BatchKeepsGroups, BatchType
<1>2. CASE Draw \/ DrawFails
  <2>1. PICK h \in Groups : /\ groups[h].key = 0 \/ groups[h].key = lease[Target].key
                            /\ groups'[h].key = lease[Target].key
                            /\ groups'[h].dom = lease[Target].dom
                            /\ \A f \in Groups : f # h => SameGroup(f)
    BY <1>2, ImportedNext
  <2>2. CASE g # h
    BY <1>1, <2>1, <2>2 DEF SameGroup
  <2>3. CASE g = h
    <3>1. groups[g].key = lease[Target].key
      BY <1>1, <2>1, <2>3
    <3>2. Target \in Leases /\ lease[Target].refs > 0
      BY <1>2, TargetLives DEF Draw, DrawFails
    <3>3. lease[Target].dom \in 1 .. Domains /\ groups[g].dom \in 1 .. Domains
      <4>1. lease[Target].dom \in 0 .. Domains /\ groups[g].dom \in 0 .. Domains
        BY <1>1, <3>2, LeaseFields, Types DEF GroupType
      <4> QED
        BY <1>1, <3>2, <4>1, Bounds DEF DomainsInv
    <3>4. /\ dom[lease[Target].dom].occupied /\ dom[lease[Target].dom].key = lease[Target].key
          /\ dom[groups[g].dom].occupied /\ dom[groups[g].dom].key = groups[g].key
      BY <1>1, <3>2 DEF DomainOutlivesUse
    <3>5. lease[Target].dom = groups[g].dom
      BY <3>1, <3>3, <3>4 DEF DomainsInv
    <3> QED
      BY <1>1, <2>1, <2>3, <3>1, <3>5
  <2> QED
    BY <2>2, <2>3
<1>3. CASE Collected
  BY <1>1, <1>3 DEF Collected, Pinned
<1>4. CASE ForgetAll
  <2>1. groups[g] \in GroupType
    BY <1>1, Types
  <2> QED
    BY <1>1, <1>4, <2>1 DEF ForgetAll, Retired, GroupType
<1>5. CASE UNCHANGED groups
  BY <1>1, <1>5
<1> QED
  BY <1>2, <1>3, <1>4, <1>5, GroupSteps

\* Who writes what the batches have recorded.
LEMMA PinsSteps ==
    ASSUME TypeOK, BatchInv, Steps
    PROVE  \/ SameRecords /\ \A b \in Batches : batches'[b].groups = batches[b].groups
           \/ (\E b \in Batches : Completed(b)) \/ Draw \/ DrawFails
<1>1. CASE Repaint
  <2>1. PICK b \in Batches : batches' = [batches EXCEPT ![b].state = "recording"]
    BY <1>1 DEF Repaint, Begin, FreeBatches
  <2> QED
    BY <2>1, StateOnly
<1>2. CASE Select
  <2>1. PICK b \in Batches : batches' = [batches EXCEPT ![b].state = "recording"]
    BY <1>2, SelectParts DEF Selects, FreeBatches
  <2> QED
    BY <2>1, StateOnly
<1>3. CASE PresentShown
  <2>1. batches' = [batches EXCEPT ![Recording].state = "submitted"]
    BY <1>3 DEF PresentShown
  <2>2. Recording \in Batches
    BY <1>3, RecordingExists DEF PresentShown
  <2> QED
    BY <2>1, <2>2, StateOnly
<1>4. CASE PresentHeld
  <2>1. batches' = [batches EXCEPT ![Recording].state = "submitted"]
    BY <1>4 DEF PresentHeld
  <2>2. Recording \in Batches
    BY <1>4, RecordingExists DEF PresentHeld
  <2> QED
    BY <2>1, <2>2, StateOnly
<1>5. CASE (\E b \in Batches : Completed(b)) \/ Draw \/ DrawFails
  BY <1>5
<1>6. CASE UNCHANGED batches
  BY <1>6 DEF SameRecords
<1> QED
  BY <1>1, <1>2, <1>3, <1>4, <1>5, <1>6, BatchSteps

\* What a batch has recorded stays alive until its fence has passed.
LEMMA BatchGroupsNext ==
    ASSUME TypeOK, ThreadsInv, EpochInv, BatchInv, ReferencesCounted, OwnEnvelope, DomainsInv,
           DomainOutlivesUse, BatchKeepsGroups, Steps
    PROVE  BatchKeepsGroups'
<1> DEFINE Alive(b, g) == /\ groups'[g].key # 0
                          /\ \E l \in batches'[b].frames : lease'[l].dom = groups'[g].dom
<1>1. ASSUME NEW b \in Batches, NEW g \in batches[b].groups,
             batches[b].frames \subseteq batches'[b].frames
      PROVE  Alive(b, g)
  <2>1. PICK l \in batches[b].frames : lease[l].dom = groups[g].dom
    BY DEF BatchKeepsGroups
  <2>2. l \in Leases /\ l \in batches'[b].frames
    <3>1. batches[b] \in BatchType
      BY Types
    <3> QED
      BY <1>1, <3>1 DEF BatchType
  <2>3. lease[l].refs > 0 /\ lease'[l].refs > 0
    BY <2>2, HeldLives, HeldNext
  <2>4. lease'[l].dom = lease[l].dom
    BY <2>2, <2>3, Survives DEF SameFrame
  <2>5. groups'[g].key # 0 /\ groups'[g].dom = groups[g].dom
    BY PinnedStays
  <2> QED
    BY <2>1, <2>2, <2>4, <2>5
<1>2. CASE SameRecords /\ \A b \in Batches : batches'[b].groups = batches[b].groups
  BY <1>1, <1>2 DEF SameRecords, BatchKeepsGroups
<1>3. CASE (\E b \in Batches : Completed(b))
  <2>1. PICK b \in Batches : Completed(b)
    BY <1>3
  <2>2. \A c \in Batches : batches'[c] = IF c = b THEN FreeBatch ELSE batches[c]
    BY <2>1, Types DEF Completed
  <2>3. FreeBatch.groups = {}
    BY DEF FreeBatch
  <2> QED
    BY <1>1, <2>2, <2>3 DEF BatchKeepsGroups
<1>4. CASE Draw \/ DrawFails
  <2>1. PICK h \in Groups : /\ groups'[h].key = lease[Target].key
                            /\ groups'[h].dom = lease[Target].dom
                            /\ Pin(Target, h)
    BY <1>4, ImportedNext
  <2>2. Target \in Leases /\ lease[Target].refs > 0 /\ Recording \in Batches
    BY <1>4, Draws
  <2>3. batches' = Recorded(Target, h)
    BY <2>1 DEF Pin, Recorded
  <2>4. /\ \A c \in Batches : c # Recording => batches'[c] = batches[c]
        /\ batches'[Recording].frames = batches[Recording].frames \union {Target}
        /\ batches'[Recording].groups = batches[Recording].groups \union {h}
    BY <2>1, <2>2, <2>3, RecordedTyped
  <2>5. lease'[Target].refs > 0
    BY <2>2, <2>4, HeldNext
  <2>6. lease'[Target].dom = lease[Target].dom /\ lease[Target].key # 0
    BY <2>2, <2>5, Survives DEF SameFrame, DomainsInv
  <2>7. Alive(Recording, h)
    BY <2>1, <2>4, <2>6
  <2> QED
    BY <1>1, <2>4, <2>7 DEF BatchKeepsGroups
<1> QED
  BY <1>2, <1>3, <1>4, PinsSteps

-----------------------------------------------------------------------------
(* The pictures.                                                           *)

\* The queue q is what is left of s when its first k members are gone.
Behind(q, s, k) ==
    /\ k \in 0 .. Len(s) /\ Len(q) = Len(s) - k
    /\ \A i \in 1 .. Len(q) : i + k \in 1 .. Len(s) /\ q[i] = s[i + k]

\* The step only takes frames and tasks from the heads of their queues.
Taking ==
    /\ \E k \in Nat : Behind(box'.pending, box.pending, k)
    /\ \E k \in Nat : Behind(box'.jobs, box.jobs, k)
    /\ box'.seq = box.seq

\* What is left of a queue: all of it, nothing, or what follows its head or a cut.
LEMMA WhatIsLeft ==
    ASSUME NEW S, NEW s \in Seq(S)
    PROVE  /\ Behind(s, s, 0) /\ Behind(<<>>, s, Len(s))
           /\ s # <<>> => Behind(Tail(s), s, 1)
           /\ \A k \in 0 .. Len(s) : Behind(SubSeq(s, k + 1, Len(s)), s, k)
<1>1. Len(s) \in Nat /\ Len(<<>>) = 0 /\ \A i \in 1 .. Len(s) : s[i] \in S
  OBVIOUS
<1>2. Behind(s, s, 0) /\ Behind(<<>>, s, Len(s))
  BY <1>1 DEF Behind
<1>3. ASSUME NEW k \in 0 .. Len(s)
      PROVE  Behind(SubSeq(s, k + 1, Len(s)), s, k)
  <2> DEFINE q == SubSeq(s, k + 1, Len(s))
  <2>1. /\ Len(q) = Len(s) - k
        /\ \A i \in 1 .. Len(s) - k : q[i] = s[i + k]
    BY <1>1, SubSeqProperties
  <2> HIDE DEF q
  <2> QED
    BY <1>1, <2>1 DEF Behind
<1>4. ASSUME s # <<>>
      PROVE  Behind(Tail(s), s, 1)
  <2>1. Tail(s) = SubSeq(s, 2, Len(s)) /\ Len(s) # 0
    BY <1>4, TailIsSubSeq, EmptySeq
  <2>2. 1 \in 0 .. Len(s) /\ 1 + 1 = 2
    BY <1>1, <2>1
  <2> QED
    BY <1>3, <2>1, <2>2
<1> QED
  BY <1>2, <1>3, <1>4

\* Who brings a frame or a task, and who begins anew; every other step only takes.
LEMMA QueueSteps ==
    ASSUME TypeOK, MailboxInv, Steps
    PROVE  Taking \/ PublishQueued \/ QueueAccepted \/ OpenBare \/ OpenDomain
<1> DEFINE Same == box'.pending = box.pending /\ box'.jobs = box.jobs /\ box'.seq = box.seq
<1>0. /\ box.pending \in Seq(Leases) /\ box.jobs \in Seq(JobType)
      /\ Len(box.pending) \in Nat /\ Len(box.jobs) \in Nat
      /\ Same => Taking
  <2>1. box.pending \in Seq(Leases) /\ box.jobs \in Seq(JobType)
    BY BoxFields
  <2>2. Behind(box.pending, box.pending, 0) /\ Behind(box.jobs, box.jobs, 0)
    BY <2>1, WhatIsLeft
  <2> QED
    BY <2>1, <2>2 DEF Taking
<1>1. CASE PublishQueued \/ QueueAccepted \/ OpenBare \/ OpenDomain
  BY <1>1
<1>2. CASE FlushActive \/ StopActive \/ MainClosesActive \/ CloseFailedActive
          \/ WorkerClosesActive
  <2>1. box'.pending = <<>> /\ box'.jobs = <<>> /\ box'.seq = box.seq
    BY <1>2, Types DEF BoxType, FlushActive, StopActive, MainClosesActive, CloseFailedActive,
                       WorkerClosesActive
  <2>2. /\ Behind(<<>>, box.pending, Len(box.pending))
        /\ Behind(<<>>, box.jobs, Len(box.jobs))
    BY <1>0, WhatIsLeft
  <2> QED
    BY <1>0, <2>1, <2>2 DEF Taking
<1>3. CASE EvictOldest
  <2>1. box'.pending = Tail(box.pending) /\ box'.jobs = box.jobs /\ box'.seq = box.seq
    BY <1>3, Types DEF BoxType, EvictOldest
  <2>2. Behind(Tail(box.pending), box.pending, 1) /\ Behind(box.jobs, box.jobs, 0)
    BY <1>3, <1>0, WhatIsLeft DEF EvictOldest
  <2> QED
    BY <2>1, <2>2 DEF Taking
<1>4. CASE Select
  <2>1. PICK n \in 1 .. Len(box.jobs), k \in 0 .. Len(box.pending) : Selects(n, k)
    BY <1>4, SelectParts
  <2>2. /\ box'.pending = SubSeq(box.pending, k + 1, Len(box.pending))
        /\ box'.jobs = SubSeq(box.jobs, n + 1, Len(box.jobs)) /\ box'.seq = box.seq
    BY <2>1, Types DEF BoxType, Selects
  <2>3. n \in 0 .. Len(box.jobs) /\ n \in Nat /\ k \in Nat
    BY <1>0
  <2>4. /\ Behind(SubSeq(box.pending, k + 1, Len(box.pending)), box.pending, k)
        /\ Behind(SubSeq(box.jobs, n + 1, Len(box.jobs)), box.jobs, n)
    BY <1>0, <2>3, WhatIsLeft
  <2> QED
    BY <2>2, <2>3, <2>4 DEF Taking
<1>5. CASE OpenedAccepted
  <2>1. Same
    BY <1>5, Types DEF OpenedAccepted, BoxType
  <2> QED
    BY <1>0, <2>1
<1>6. CASE OpenedInVain
  <2>1. Same
    BY <1>6, Types DEF OpenedInVain, BoxType
  <2> QED
    BY <1>0, <2>1
<1>7. CASE MainFreezes
  <2>1. Same
    BY <1>7, Types DEF MainFreezes, BoxType
  <2> QED
    BY <1>0, <2>1
<1>8. CASE Thaw
  <2>1. Same
    BY <1>8, Types DEF Thaw, BoxType
  <2> QED
    BY <1>0, <2>1
<1>9. CASE WorkerFreezes
  <2>1. Same
    BY <1>9, Types DEF WorkerFreezes, BoxType
  <2> QED
    BY <1>0, <2>1
<1>10. CASE UNCHANGED box
  BY <1>10, <1>0
<1> QED
  BY <1>1, <1>2, <1>3, <1>4, <1>5, <1>6, <1>7, <1>8, <1>9, <1>10, BoxSteps

\* Only a publication gives the session's thread a number, and while it has one
\* the task in its hands stays the same.
LEMMA NumberSteps ==
    ASSUME TypeOK, EpochInv, Steps
    PROVE  \/ PublishQueued \/ session'.seq = 0
           \/ session'.seq = session.seq /\ session'.task = session.task
<1>1. CASE Start
  BY <1>1, Types DEF Start, SessionType, EpochInv
<1>2. CASE Name
  BY <1>2, Types DEF Name, SessionType, EpochInv
<1>3. CASE OpenRefused
  BY <1>3, Types DEF OpenRefused, SessionType, EpochInv
<1>4. CASE OpenBare
  BY <1>4, Types DEF OpenBare, SessionType, EpochInv
<1>5. CASE OpenDomain
  BY <1>5, Types DEF OpenDomain, SessionType, EpochInv
<1>6. CASE OpenFails
  BY <1>6, Types DEF OpenFails, SessionType, EpochInv
<1>7. CASE OpenedAccepted
  BY <1>7, Types DEF OpenedAccepted, SessionType, EpochInv
<1>8. CASE OpenedInVain
  BY <1>8, Types DEF OpenedInVain, SessionType, EpochInv
<1>9. CASE SubmitReset
  BY <1>9, Types DEF SubmitReset, SessionType, EpochInv
<1>10. CASE SubmitFails
  BY <1>10, Types DEF SubmitFails, SessionType, EpochInv
<1>11. CASE SubmitAccepted
  BY <1>11, Types DEF SubmitAccepted, SessionType, EpochInv
<1>12. CASE Rejected
  BY <1>12, Types DEF Rejected, SessionType, EpochInv
<1>13. CASE NoPicture
  BY <1>13, Types DEF NoPicture, SessionType, EpochInv
<1>14. CASE Acquire
  BY <1>14, Types DEF Acquire, SessionType, EpochInv
<1>15. CASE EvictNone
  BY <1>15, Types DEF EvictNone, SessionType, EpochInv
<1>16. CASE EvictOldest
  BY <1>16, Types DEF EvictOldest, SessionType, EpochInv
<1>17. CASE Exhausted
  BY <1>17, Types DEF Exhausted, SessionType, EpochInv
<1>18. CASE PublishDropped
  BY <1>18, Types DEF PublishDropped, SessionType, EpochInv
<1>19. CASE QueueAccepted
  BY <1>19, Types DEF QueueAccepted, SessionType, EpochInv
<1>20. CASE QueueRefused
  BY <1>20, Types DEF QueueRefused, SessionType, EpochInv
<1>21. CASE StopActive
  BY <1>21, Types DEF StopActive, SessionType, EpochInv
<1>22. CASE StopStale
  BY <1>22, Types DEF StopStale, SessionType, EpochInv
<1>23. CASE StopNothing
  BY <1>23, Types DEF StopNothing, SessionType, EpochInv
<1>24. CASE StopCodec
  BY <1>24, Types DEF StopCodec, SessionType, EpochInv
<1>25. CASE Teardown
  BY <1>25, Types DEF Teardown, SessionType, EpochInv
<1>26. CASE Stopped
  BY <1>26, Types DEF Stopped, SessionType, EpochInv
<1>27. CASE PublishQueued
  BY <1>27
<1>28. CASE UNCHANGED session
  BY <1>28
<1> QED
  BY <1>1, <1>2, <1>3, <1>4, <1>5, <1>6, <1>7, <1>8, <1>9, <1>10, <1>11, <1>12, <1>13, <1>14,
     <1>15, <1>16, <1>17, <1>18, <1>19, <1>20, <1>21, <1>22, <1>23, <1>24, <1>25, <1>26,
     <1>27, <1>28, SessionSteps

\* A frame that was pending and still is has kept its picture.
LEMMA PendingKeeps ==
    ASSUME TypeOK, ThreadsInv, EpochInv, BatchInv, ReferencesCounted, OwnEnvelope, Steps,
           NEW i \in 1 .. Len(box'.pending), NEW j \in 1 .. Len(box.pending),
           box'.pending[i] = box.pending[j]
    PROVE  SameFrame(lease'[box'.pending[i]], lease[box.pending[j]])
<1>1. box.pending[j] \in Leases
  BY BoxFields
<1>2. lease[box.pending[j]].refs > 0
  BY <1>1, HeldLives
<1>3. lease'[box.pending[j]].refs > 0
  BY <1>1, HeldNext
<1> QED
  BY <1>1, <1>2, <1>3, Survives

\* The selected frame is the picture of the selected task.
LEMMA SelectionNext ==
    ASSUME TypeOK, ThreadsInv, EpochInv, BatchInv, ReferencesCounted, OwnEnvelope,
           PicturesInv, Steps
    PROVE  SelectionIsOwnPicture'
<1>1. CASE SameSelection
  <2>1. ASSUME render.sel.frame # 0
        PROVE  lease'[render.sel.frame].task = render.sel.task
    <3>1. render.sel.frame \in Leases
      BY <2>1, RenderFields, Bounds
    <3>2. lease[render.sel.frame].refs > 0
      BY <3>1, HeldLives
    <3>3. lease'[render.sel.frame].refs > 0
      BY <1>1, <3>1, HeldNext DEF SameSelection
    <3>4. lease'[render.sel.frame].task = lease[render.sel.frame].task
      BY <3>1, <3>2, <3>3, Survives DEF SameFrame
    <3> QED
      BY <2>1, <3>4 DEF PicturesInv, SelectionIsOwnPicture
  <2> QED
    BY <1>1, <2>1 DEF SameSelection, SelectionIsOwnPicture
<1>2. CASE Select
  <2>1. PICK n \in 1 .. Len(box.jobs), k \in 0 .. Len(box.pending) : Selects(n, k)
    BY <1>2, SelectParts
  <2>2. render'.sel.task = box.jobs[n].task /\ render'.sel.frame = Chosen(n, k)
    BY <2>1, Types DEF Selects, RenderType
  <2>3. ASSUME Chosen(n, k) # 0
        PROVE  lease'[Chosen(n, k)].task = box.jobs[n].task
    <3>1. OwnPicture(box.jobs[n], k) /\ Chosen(n, k) = box.pending[k]
      BY <2>3 DEF Chosen
    <3>2. k \in 1 .. Len(box.pending) /\ Chosen(n, k) \in Leases
      BY <3>1, ChosenTyped
    <3>3. lease[box.pending[k]].task = box.jobs[n].task
      BY <3>1, <3>2 DEF OwnPicture, PicturesInv
    <3>4. lease[Chosen(n, k)].refs > 0
      BY <3>1, <3>2, HeldLives
    <3>5. lease'[Chosen(n, k)].refs > 0
      BY <2>2, <3>2, HeldNext
    <3> QED
      BY <3>1, <3>2, <3>3, <3>4, <3>5, Survives DEF SameFrame
  <2> QED
    BY <2>2, <2>3 DEF SelectionIsOwnPicture
<1>3. CASE CheckVoid \/ PresentShown \/ PresentHeld
  <2>1. render'.sel = NoSelection
    BY <1>3, Types DEF CheckVoid, PresentShown, PresentHeld, RenderType
  <2> QED
    BY <2>1 DEF NoSelection, SelectionIsOwnPicture
<1> QED
  BY <1>1, <1>2, <1>3, SelectionSteps

\* The numbers and pictures when a step only takes from the queues.
LEMMA TakingPictures ==
    ASSUME TypeOK, ThreadsInv, EpochInv, BatchInv, ReferencesCounted, OwnEnvelope,
           PicturesInv, Taking, Steps,
           session'.seq = 0 \/ (session'.seq = session.seq /\ session'.task = session.task)
    PROVE  PicturesInv'
<1> USE BoxFields
<1>1. PICK k \in Nat : Behind(box'.pending, box.pending, k)
  BY DEF Taking
<1>2. PICK m \in Nat : Behind(box'.jobs, box.jobs, m)
  BY DEF Taking
<1>3. box'.seq = box.seq /\ SelectionIsOwnPicture'
  BY SelectionNext DEF Taking
<1>4. ASSUME NEW i \in 1 .. Len(box'.pending)
      PROVE  /\ i + k \in 1 .. Len(box.pending)
             /\ lease'[box'.pending[i]].seq = lease[box.pending[i + k]].seq
             /\ lease'[box'.pending[i]].task = lease[box.pending[i + k]].task
  <2>1. i + k \in 1 .. Len(box.pending) /\ box'.pending[i] = box.pending[i + k]
    BY <1>1 DEF Behind
  <2> QED
    BY <2>1, PendingKeeps DEF SameFrame
<1>5. ASSUME NEW n \in 1 .. Len(box'.jobs)
      PROVE  n + m \in 1 .. Len(box.jobs) /\ box'.jobs[n] = box.jobs[n + m]
  BY <1>2 DEF Behind
<1>6. \A i \in 1 .. Len(box'.pending) : lease'[box'.pending[i]].seq <= box'.seq
  BY <1>3, <1>4 DEF PicturesInv
<1>7. ASSUME NEW i \in 1 .. Len(box'.pending), NEW j \in 1 .. Len(box'.pending), i < j
      PROVE  lease'[box'.pending[i]].seq < lease'[box'.pending[j]].seq
  <2>1. i + k < j + k
    BY <1>7
  <2> QED
    BY <1>4, <2>1 DEF PicturesInv
<1>8. ASSUME NEW n \in 1 .. Len(box'.jobs), NEW i \in 1 .. Len(box'.pending),
             ~box'.jobs[n].placeholder, lease'[box'.pending[i]].seq = box'.jobs[n].seq
      PROVE  lease'[box'.pending[i]].task = box'.jobs[n].task
  BY <1>4, <1>5, <1>8 DEF PicturesInv
<1>9. \A n \in 1 .. Len(box'.jobs) : box'.jobs[n].seq <= box'.seq
  BY <1>3, <1>5 DEF PicturesInv
<1>10. ASSUME NEW i \in 1 .. Len(box'.pending),
              session'.seq # 0, lease'[box'.pending[i]].seq = session'.seq
       PROVE  lease'[box'.pending[i]].task = session'.task
  BY <1>4, <1>10 DEF PicturesInv
<1> QED
  BY <1>3, <1>6, <1>7, <1>8, <1>9, <1>10 DEF PicturesInv

\* The numbers and pictures when a frame is published: its number is new.
LEMMA PublishedPictures ==
    ASSUME TypeOK, ThreadsInv, EpochInv, BatchInv, ReferencesCounted, OwnEnvelope,
           PicturesInv, PublishQueued, Steps
    PROVE  PicturesInv'
<1> DEFINE N == Len(box.pending)
<1>1. /\ box'.pending = Append(box.pending, session.lease) /\ box'.jobs = box.jobs
      /\ box'.seq = box.seq + 1 /\ session'.seq = box.seq + 1 /\ session'.task = session.task
  BY Types DEF PublishQueued, BoxType, SessionType
<1>2. /\ session.lease \in Leases /\ lease'[session.lease].seq = box.seq + 1
      /\ lease'[session.lease].task = session.task
  BY Publishes
<1>3. box.pending \in Seq(Leases) /\ N \in Nat /\ box.seq \in Nat
  BY BoxFields, Bounds
<1>4. /\ Len(box'.pending) = N + 1 /\ box'.pending[N + 1] = session.lease
      /\ \A i \in 1 .. N : box'.pending[i] = box.pending[i]
  BY <1>1, <1>2, <1>3, AppendProperties
<1>5. SelectionIsOwnPicture'
  BY SelectionNext
<1>6. ASSUME NEW i \in 1 .. N
      PROVE  /\ i \in 1 .. Len(box'.pending)
             /\ lease'[box'.pending[i]].seq = lease[box.pending[i]].seq
             /\ lease'[box'.pending[i]].task = lease[box.pending[i]].task
             /\ lease'[box'.pending[i]].seq <= box.seq /\ lease'[box'.pending[i]].seq \in Nat
  <2>1. i \in 1 .. Len(box'.pending)
    BY <1>3, <1>4
  <2>2. SameFrame(lease'[box'.pending[i]], lease[box.pending[i]])
    BY <1>4, <2>1, PendingKeeps
  <2>3. box.pending[i] \in Leases
    BY <1>3
  <2>4. lease[box.pending[i]].seq \in Nat
    <3>1. lease[box.pending[i]].seq \in Tasks
      BY <2>3, LeaseFields
    <3>2. \A x \in Tasks : x \in Nat
      BY Bounds
    <3> QED
      BY <3>1, <3>2
  <2>5. lease[box.pending[i]].seq <= box.seq
    BY DEF PicturesInv
  <2> QED
    BY <2>1, <2>2, <2>4, <2>5 DEF SameFrame
<1>7. /\ lease'[box'.pending[N + 1]].seq = box.seq + 1
      /\ lease'[box'.pending[N + 1]].task = session.task
  BY <1>2, <1>4
<1>8. ASSUME NEW i \in 1 .. Len(box'.pending)
      PROVE  i \in 1 .. N \/ i = N + 1
  BY <1>3, <1>4
<1> HIDE DEF N
<1>9. ASSUME NEW i \in 1 .. Len(box'.pending)
      PROVE  lease'[box'.pending[i]].seq <= box'.seq
  <2>1. CASE i = N + 1
    <3>1. lease'[box'.pending[i]].seq = box.seq + 1
      BY <1>7, <2>1
    <3> QED
      BY ONLY <1>1, <1>3, <3>1
  <2>2. CASE i \in 1 .. N
    <3>1. lease'[box'.pending[i]].seq <= box.seq /\ lease'[box'.pending[i]].seq \in Nat
      BY <1>6, <2>2
    <3> QED
      BY ONLY <1>1, <1>3, <3>1
  <2> QED
    BY <1>8, <2>1, <2>2
<1>10. ASSUME NEW i \in 1 .. Len(box'.pending), NEW j \in 1 .. Len(box'.pending), i < j
       PROVE  lease'[box'.pending[i]].seq < lease'[box'.pending[j]].seq
  <2>1. i \in 1 .. N
    BY <1>3, <1>8, <1>10
  <2>2. CASE j \in 1 .. N
    <3>1. lease[box.pending[i]].seq < lease[box.pending[j]].seq
      BY <1>10, <2>1, <2>2 DEF PicturesInv, N
    <3> QED
      BY <1>6, <2>1, <2>2, <3>1
  <2>3. CASE j = N + 1
    BY <1>3, <1>6, <1>7, <2>1, <2>3
  <2> QED
    BY <1>8, <2>2, <2>3
<1>11. ASSUME NEW n \in 1 .. Len(box'.jobs)
       PROVE  box'.jobs[n] = box.jobs[n] /\ box.jobs[n].seq <= box.seq /\ box.jobs[n].seq \in Nat
  <2>1. box.jobs[n] \in JobType
    BY <1>1, BoxFields
  <2> QED
    BY <1>1, <2>1, Bounds DEF PicturesInv, JobType
<1>12. ASSUME NEW n \in 1 .. Len(box'.jobs), NEW i \in 1 .. Len(box'.pending),
              ~box'.jobs[n].placeholder, lease'[box'.pending[i]].seq = box'.jobs[n].seq
       PROVE  lease'[box'.pending[i]].task = box'.jobs[n].task
  <2>1. i # N + 1
    <3>1. box'.jobs[n].seq \in Nat /\ box'.jobs[n].seq <= box.seq
      BY <1>11
    <3>2. lease'[box'.pending[i]].seq \in Nat /\ lease'[box'.pending[i]].seq <= box.seq
      BY <1>12, <3>1
    <3>3. lease'[box'.pending[i]].seq # box.seq + 1
      BY ONLY <1>3, <3>2
    <3> QED
      BY <1>7, <3>3
  <2>2. i \in 1 .. N
    BY <1>8, <2>1
  <2> QED
    BY <1>1, <1>6, <1>11, <1>12, <2>2 DEF PicturesInv, N
<1>13. \A n \in 1 .. Len(box'.jobs) : box'.jobs[n].seq <= box'.seq
  BY <1>1, <1>3, <1>11
<1>14. ASSUME NEW i \in 1 .. Len(box'.pending), lease'[box'.pending[i]].seq = session'.seq
       PROVE  lease'[box'.pending[i]].task = session'.task
  <2>1. i \notin 1 .. N
    BY <1>1, <1>3, <1>6, <1>14
  <2> QED
    BY <1>1, <1>7, <1>8, <2>1
<1> QED
  BY <1>5, <1>9, <1>10, <1>12, <1>13, <1>14 DEF PicturesInv

\* The numbers and pictures when a task is queued: a task with a picture has the
\* number the picture was published under.
LEMMA QueuedPictures ==
    ASSUME TypeOK, ThreadsInv, EpochInv, BatchInv, ReferencesCounted, OwnEnvelope,
           PicturesInv, QueueAccepted, Steps
    PROVE  PicturesInv'
<1> DEFINE j == Task(session.task, IF session.seq = 0 THEN box.seq ELSE session.seq,
                     session.seq = 0)
           N == Len(box.jobs)
<1>1. /\ box'.pending = box.pending /\ box'.jobs = Append(box.jobs, j)
      /\ box'.seq = box.seq /\ session'.seq = 0 /\ lease' = lease /\ render' = render
  BY Types DEF QueueAccepted, BoxType, SessionType
<1>2. box.jobs \in Seq(JobType) /\ N \in Nat /\ box.seq \in Nat /\ session.seq \in Nat
  BY BoxFields, SessionFields, Bounds
<1>3. /\ j \in JobType /\ j.task = session.task /\ j.seq <= box.seq
      /\ ~j.placeholder => session.seq # 0 /\ j.seq = session.seq
  <2>1. j \in JobType
    BY BoxFields, SessionFields DEF Task, JobType
  <2>2. j.task = session.task /\ (~j.placeholder => session.seq # 0)
    BY DEF Task
  <2>3. /\ session.seq = 0 => j.seq = box.seq
        /\ session.seq # 0 => j.seq = session.seq
    BY DEF Task
  <2>4. session.seq <= box.seq
    BY DEF EpochInv
  <2> HIDE DEF j
  <2>5. j.seq <= box.seq
    BY ONLY <1>2, <2>3, <2>4
  <2> QED
    BY <2>1, <2>2, <2>3, <2>5
<1> HIDE DEF j
<1>4. /\ Len(box'.jobs) = N + 1 /\ box'.jobs[N + 1] = j
      /\ \A i \in 1 .. N : box'.jobs[i] = box.jobs[i]
  BY <1>1, <1>2, <1>3, AppendProperties
<1>5. ASSUME NEW n \in 1 .. Len(box'.jobs)
      PROVE  n \in 1 .. N \/ n = N + 1
  BY <1>2, <1>4
<1>6. ASSUME NEW n \in 1 .. Len(box'.jobs), NEW i \in 1 .. Len(box.pending),
             ~box'.jobs[n].placeholder, lease[box.pending[i]].seq = box'.jobs[n].seq
      PROVE  lease[box.pending[i]].task = box'.jobs[n].task
  <2>1. CASE n \in 1 .. N
    BY <1>4, <1>6, <2>1 DEF PicturesInv
  <2>2. CASE n = N + 1
    BY <1>3, <1>4, <1>6, <2>2 DEF PicturesInv
  <2> QED
    BY <1>5, <2>1, <2>2
<1>7. ASSUME NEW n \in 1 .. Len(box'.jobs)
      PROVE  box'.jobs[n].seq <= box.seq
  <2>1. CASE n \in 1 .. N
    BY <1>4, <2>1 DEF PicturesInv
  <2>2. CASE n = N + 1
    BY <1>3, <1>4, <2>2
  <2> QED
    BY <1>5, <2>1, <2>2
<1> QED
  BY <1>1, <1>6, <1>7 DEF PicturesInv, SelectionIsOwnPicture

\* The pictures.
LEMMA PicturesNext ==
    ASSUME TypeOK, ThreadsInv, EpochInv, MailboxInv, BatchInv, ReferencesCounted,
           OwnEnvelope, PicturesInv, Steps
    PROVE  PicturesInv'
<1>1. CASE OpenBare \/ OpenDomain
  <2>1. box.pending = <<>> /\ box.jobs = <<>>
    BY <1>1 DEF OpenBare, OpenDomain, Admissible, MailboxInv, Empty
  <2>2. box'.pending = <<>> /\ box'.jobs = <<>>
    BY <1>1, <2>1, Types DEF OpenBare, OpenDomain, BoxType
  <2>3. Len(<<>>) = 0 /\ \A i \in 1 .. 0 : FALSE
    OBVIOUS
  <2>4. SelectionIsOwnPicture'
    BY SelectionNext
  <2> QED
    BY <2>2, <2>3, <2>4 DEF PicturesInv
<1>2. CASE PublishQueued
  BY <1>2, PublishedPictures
<1>3. CASE QueueAccepted
  BY <1>3, QueuedPictures
<1>4. CASE Taking /\ ~PublishQueued
  <2>1. session'.seq = 0 \/ (session'.seq = session.seq /\ session'.task = session.task)
    BY <1>4, NumberSteps
  <2> QED
    BY <1>4, <2>1, TakingPictures
<1> QED
  BY <1>1, <1>2, <1>3, <1>4, QueueSteps

-----------------------------------------------------------------------------
(* The theorems.                                                           *)

\* At the start nothing is held, and nobody holds it.
LEMMA InitHolds ==
    ASSUME Init
    PROVE  IInv
<1>0. /\ 0 \in Keys /\ 0 \in Tasks /\ 0 \in Frames /\ 0 \in Nat /\ 0 \in 0 .. Domains
      /\ 0 \in 0 .. Domains + 1 /\ 0 \notin Leases /\ 0 \notin 1 .. Domains
  BY Bounds
<1>1. TypeOK
  <2>1. /\ lock \in Reapers \union {"none"} /\ owed \subseteq Tasks /\ session \in SessionType
        /\ worker \in {"idle", "runs", "frozen", "join", "clean"}
    BY <1>0 DEF Init, SessionType, SessionPc
  <2>2. box \in BoxType
    BY <1>0, EmptySeq DEF Init, BoxType
  <2>3. render \in RenderType
    BY <1>0 DEF Init, RenderType, RenderPc, SelectionType, NoSelection
  <2>4. /\ dom \in [1 .. Domains -> DomainType] /\ lease \in [Leases -> LeaseType]
        /\ groups \in [Groups -> GroupType]
    BY <1>0 DEF Init, DomainType, FreeDomain, LeaseType, FreeLease, GroupType, FreeGroup
  <2>5. batches \in [Batches -> BatchType] /\ reap \in [Reapers -> ReapType]
    BY <1>0 DEF Init, BatchType, FreeBatch, ReapType
  <2>6. drop \in [Threads -> Seq(Leases)]
    BY EmptySeq DEF Init
  <2> QED
    BY <2>1, <2>2, <2>3, <2>4, <2>5, <2>6, Types
<1>2. ThreadsInv
  BY <1>0 DEF Init, ThreadsInv, Holding, Reapers, NoSelection
<1>3. EpochInv
  BY DEF Init, EpochInv, HasEpoch
<1>4. MailboxInv
  BY DEF Init, MailboxInv, Empty
<1>5. BatchInv
  BY DEF Init, BatchInv, FreeBatch
<1>6. TicketsInv
  BY DEF Init, TicketsInv, NoTaskLost
<1>7. ReferencesCounted
  <2>1. ASSUME NEW l \in Leases
        PROVE  lease[l].refs = Holders(l)
    <3>1. Count(<<>>, l) = 0
      <4>1. {i \in DOMAIN <<>> : <<>>[i] = l} = {}
        OBVIOUS
      <4> QED
        BY <4>1, FS_EmptySet DEF Count
    <3>2. Cardinality({b \in Batches : l \in batches[b].frames}) = 0
      <4>1. \A b \in Batches : batches[b].frames = {}
        BY DEF Init, FreeBatch
      <4>2. {b \in Batches : l \in batches[b].frames} = {}
        BY <4>1
      <4> QED
        BY <4>2, FS_EmptySet
    <3>3. box.image # l /\ render.sel.frame # l /\ render.current # l
      BY <1>0 DEF Init, NoSelection
    <3>4. /\ box.pending = <<>> /\ drop["session"] = <<>> /\ drop["main"] = <<>>
          /\ drop["worker"] = <<>> /\ lease[l].refs = 0
      BY DEF Init, Threads, FreeLease
    <3> QED
      BY <3>1, <3>2, <3>3, <3>4 DEF Holders
  <2> QED
    BY <2>1 DEF ReferencesCounted
<1>8. OwnEnvelope
  BY DEF Init, OwnEnvelope
<1>9. DomainsInv /\ DomainOutlivesUse
  <2>1. /\ \A d \in 1 .. Domains : ~dom[d].occupied
        /\ \A l \in Leases : ~(lease[l].refs > 0)
        /\ \A g \in Groups : groups[g].key = 0
        /\ session.pc # "codec"
    BY <1>0 DEF Init, FreeDomain, FreeLease, FreeGroup
  <2> QED
    BY <2>1 DEF DomainsInv, DomainOutlivesUse
<1>10. ReapInv
  BY DEF Init, ReapInv
<1>11. PicturesInv
  <2>1. box.pending = <<>> /\ box.jobs = <<>> /\ render.sel.frame = 0
    BY DEF Init, NoSelection
  <2>2. Len(<<>>) = 0 /\ \A i \in 1 .. 0 : FALSE
    OBVIOUS
  <2> QED
    BY <2>1, <2>2 DEF PicturesInv, SelectionIsOwnPicture
<1>12. BatchKeepsGroups
  BY DEF Init, BatchKeepsGroups, FreeBatch
<1> QED
  BY <1>1, <1>2, <1>3, <1>4, <1>5, <1>6, <1>7, <1>8, <1>9, <1>10, <1>11, <1>12 DEF IInv

\* Every step keeps the invariant.
LEMMA StepKeeps ==
    ASSUME IInv, Next
    PROVE  IInv'
<1> USE DEF IInv
<1>1. Steps
  BY StepBranches
<1>2. TypeOK' /\ ThreadsInv' /\ EpochInv' /\ MailboxInv' /\ BatchInv' /\ TicketsInv'
  BY <1>1, StepTyped, ThreadsNext, EpochNext, MailboxNext, BatchNext, TicketsNext
<1>3. ReferencesCounted' /\ OwnEnvelope'
  BY <1>1, CountedNext, EnvelopeNext
<1>4. DomainsInv' /\ DomainOutlivesUse' /\ ReapInv'
  BY <1>1, DomainsNext, OutlivesNext, ReapNext
<1>5. PicturesInv' /\ BatchKeepsGroups'
  BY <1>1, PicturesNext, BatchGroupsNext
<1> QED
  BY <1>2, <1>3, <1>4, <1>5

\* A step that changes nothing keeps it.
LEMMA StutterKeeps ==
    ASSUME IInv, UNCHANGED vars
    PROVE  IInv'
<1>1. UNCHANGED <<lock, box, dom, lease, owed, session, render, groups, batches, worker,
                  drop, reap>>
  BY DEF vars
<1>2. TypeOK' /\ BatchInv' /\ OwnEnvelope' /\ DomainOutlivesUse' /\ ReapInv' /\ BatchKeepsGroups'
  BY <1>1 DEF IInv, TypeOK, BatchInv, OwnEnvelope, DomainOutlivesUse, ReapInv, BatchKeepsGroups
<1>3. ThreadsInv' /\ EpochInv' /\ DomainsInv'
  BY <1>1 DEF IInv, ThreadsInv, EpochInv, DomainsInv
<1>4. MailboxInv' /\ TicketsInv'
  BY <1>1 DEF IInv, MailboxInv, Empty, TicketsInv, NoTaskLost, QueuedTasks
<1>5. ReferencesCounted'
  BY <1>1 DEF IInv, ReferencesCounted, Holders, Count
<1>6. PicturesInv'
  BY <1>1 DEF IInv, PicturesInv, SelectionIsOwnPicture
<1> QED
  BY <1>2, <1>3, <1>4, <1>5, <1>6 DEF IInv

\* The inductive invariant holds for every number of envelopes, domains, groups,
\* batches, epochs and submissions (video_pipeline.c, frame_lifetime.c, gfx.c).
THEOREM Inductive == Spec => []IInv
<1>1. Init => IInv
  BY InitHolds
<1>2. IInv /\ [Next]_vars => IInv'
  BY StepKeeps, StutterKeeps
<1> QED
  BY <1>1, <1>2, PTL DEF Spec

\* Every variable keeps its type.
THEOREM PipelineTypes == Spec => []TypeOK
<1>1. IInv => TypeOK
  BY DEF IInv
<1> QED
  BY <1>1, Inductive, PTL

\* The storage of a domain with a frame or an imported group is neither freed
\* nor given to another epoch (sl_video_reap, sl_video_open_ex).
THEOREM DomainsOutlive == Spec => []DomainOutlivesUse
<1>1. IInv => DomainOutlivesUse
  BY DEF IInv
<1> QED
  BY <1>1, Inductive, PTL

\* Every reference that is counted is held by exactly one holder
\* (retain_frame and release_frame, and everyone who calls them).
THEOREM EveryReferenceHeld == Spec => []ReferencesCounted
<1>1. IInv => ReferencesCounted
  BY DEF IInv
<1> QED
  BY <1>1, Inductive, PTL

\* The GPU never reads a group that has been destroyed (sl_gfx_collect).
THEOREM BatchesKeep == Spec => []BatchKeepsGroups
<1>1. IInv => BatchKeepsGroups
  BY DEF IInv
<1> QED
  BY <1>1, Inductive, PTL

\* No ticket of an accepted task is lost (sl_video_submit, _select, _close).
THEOREM TicketsKept == Spec => []NoTaskLost
<1>1. IInv => NoTaskLost
  BY DEF IInv, TicketsInv
<1> QED
  BY <1>1, Inductive, PTL

\* A selection carries the picture of its own submission (sl_video_select).
THEOREM OwnPictures == Spec => []SelectionIsOwnPicture
<1>1. IInv => SelectionIsOwnPicture
  BY DEF IInv, PicturesInv
<1> QED
  BY <1>1, Inductive, PTL

\* After a freeze nothing is accepted until the runtime thaws (sl_video_freeze).
THEOREM FreezeHolds == Spec => []FrozenStaysEmpty
<1>1. IInv => FrozenStaysEmpty
  BY DEF IInv, MailboxInv, Empty, FrozenStaysEmpty
<1> QED
  BY <1>1, Inductive, PTL

\* When no domain is occupied, nothing that was made from one is held.
LEMMA NothingOccupied ==
    ASSUME IInv, \A d \in 1 .. Domains : ~dom[d].occupied
    PROVE  /\ \A l \in Leases : lease[l].refs = 0
           /\ \A g \in Groups : groups[g].key = 0
           /\ render.current = 0
<1> USE DEF IInv
<1>1. ASSUME NEW l \in Leases
      PROVE  lease[l].refs = 0
  <2>1. lease[l].dom \in 0 .. Domains /\ lease[l].refs \in Nat
    BY LeaseFields
  <2>2. ASSUME lease[l].refs > 0
        PROVE  FALSE
    <3>1. lease[l].dom # 0 /\ dom[lease[l].dom].occupied
      BY <2>2 DEF DomainsInv, DomainOutlivesUse
    <3>2. lease[l].dom \in 1 .. Domains
      BY <2>1, <3>1, Bounds
    <3> QED
      BY <3>1, <3>2
  <2> QED
    BY <2>1, <2>2
<1>2. ASSUME NEW g \in Groups, groups[g].key # 0
      PROVE  FALSE
  <2>1. groups[g].dom \in 0 .. Domains
    BY Types DEF GroupType
  <2>2. groups[g].dom # 0 /\ dom[groups[g].dom].occupied
    BY <1>2 DEF DomainsInv, DomainOutlivesUse
  <2>3. groups[g].dom \in 1 .. Domains
    BY <2>1, <2>2, Bounds
  <2> QED
    BY <2>2, <2>3
<1>3. ASSUME render.current # 0
      PROVE  FALSE
  <2>1. render.current \in Leases
    BY <1>3, RenderFields, Bounds
  <2>2. lease[render.current].refs > 0
    BY <2>1, HeldLives
  <2> QED
    BY <1>1, <2>1, <2>2
<1> QED
  BY <1>1, <1>2, <1>3

\* When the worker reports the video clean, nobody holds anything of it
\* (sl_media_video_clean, sl_video_has_owned).
THEOREM CleanHolds == Spec => CleanIsReturned
<1>1. ASSUME IInv, [Next]_vars, worker = "clean", worker' = "idle"
      PROVE  /\ \A l \in Leases : lease[l].refs = 0
             /\ \A g \in Groups : groups[g].key = 0
             /\ render.current = 0
  <2>1. Steps
    <3>1. vars' # vars
      BY <1>1 DEF vars
    <3> QED
      BY <1>1, <3>1, StepBranches DEF IInv
  <2>2. CleanedDone
    BY <1>1, <2>1, WorkerSteps DEF Thaw, WorkerFreezes, WorkerClosesActive, Joined
  <2> QED
    BY <1>1, <2>2, NothingOccupied DEF CleanedDone, Clean
<1> QED
  BY <1>1, Inductive, PTL DEF Spec, CleanIsReturned
-----------------------------------------------------------------------------
(* The pipeline as VideoLoan has it.                                       *)

\* While no request is served, no domain is occupied.
RestEmpty == worker = "idle" => \A d \in 1 .. Domains : ~dom[d].occupied

\* The worker rests only after it has looked, and a session that could open an epoch
\* needs a worker that serves.
LEMMA RestEmptyStep ==
    ASSUME IInv, RestEmpty, Steps
    PROVE  RestEmpty'
<1> USE DEF IInv, RestEmpty
<1>0. SUFFICES ASSUME worker' = "idle"
               PROVE  \A d \in 1 .. Domains : ~dom'[d].occupied
  OBVIOUS
<1>1. CASE CleanedDone
  <2>1. (\A d \in 1 .. Domains : ~dom[d].occupied) /\ dom' = dom
    BY <1>1 DEF CleanedDone, Clean
  <2> QED
    BY <2>1
<1>2. CASE ~CleanedDone
  <2>1. worker = "idle"
    BY <1>0, <1>2, WorkerSteps DEF Thaw, WorkerFreezes, WorkerClosesActive, Joined
  <2>2. ~(OpenedAccepted \/ OpenedInVain)
    BY <2>1 DEF ThreadsInv, OpenedAccepted, OpenedInVain
  <2>3. \A d \in 1 .. Domains : ~dom[d].occupied
    BY <2>1
  <2>4. \/ \A d \in 1 .. Domains : SameUse(d)
        \/ \E t \in Reapers : /\ ~dom'[reap[t].at].occupied
                              /\ \A d \in 1 .. Domains : d # reap[t].at => SameUse(d)
    BY <2>2, UseSteps
  <2> QED
    BY <2>3, <2>4 DEF SameUse
<1> QED
  BY <1>1, <1>2

\* The epochs with an occupied domain are all the epochs that something is in use of.
Occupied(dm) == {dm[d].key : d \in {e \in 1 .. Domains : dm[e].occupied}}

LEMMA UseNow ==
    ASSUME IInv
    PROVE  InUse = Occupied(dom)
<1>1. ASSUME NEW l \in Leases, lease[l].refs > 0
      PROVE  /\ lease[l].dom \in 1 .. Domains
             /\ dom[lease[l].dom].occupied /\ dom[lease[l].dom].key = lease[l].key
  <2>1. lease[l].dom \in 0 .. Domains /\ lease[l].dom # 0
    BY <1>1, LeaseFields DEF IInv, DomainsInv
  <2> QED
    BY <1>1, <2>1, Bounds DEF IInv, DomainOutlivesUse
<1>2. ASSUME NEW g \in Groups, groups[g].key # 0
      PROVE  /\ groups[g].dom \in 1 .. Domains
             /\ dom[groups[g].dom].occupied /\ dom[groups[g].dom].key = groups[g].key
  <2>1. groups[g].dom \in 0 .. Domains /\ groups[g].dom # 0
    BY <1>2, Types DEF IInv, DomainsInv, GroupType
  <2> QED
    BY <1>2, <2>1, Bounds DEF IInv, DomainOutlivesUse
<1>3. \A k \in {lease[l].key : l \in {k \in Leases : lease[k].refs > 0}} : k \in Occupied(dom)
  BY <1>1 DEF Occupied
<1>4. \A k \in {groups[g].key : g \in {h \in Groups : groups[h].key # 0}} : k \in Occupied(dom)
  BY <1>2 DEF Occupied
<1>5. InUse = Occupied(dom) \union {lease[l].key : l \in {k \in Leases : lease[k].refs > 0}}
                  \union {groups[g].key : g \in {h \in Groups : groups[h].key # 0}}
  BY Zenon DEF InUse, Occupied
<1> QED
  BY <1>3, <1>4, <1>5

\* The same after a step.
LEMMA UseThen ==
    ASSUME IInv'
    PROVE  InUse' = Occupied(dom')
<1>0. /\ lease' \in [Leases -> LeaseType] /\ groups' \in [Groups -> GroupType]
      /\ DomainsInv' /\ DomainOutlivesUse'
  BY DEF IInv, TypeOK, LeaseType, GroupType
<1>1. ASSUME NEW l \in Leases, lease'[l].refs > 0
      PROVE  /\ lease'[l].dom \in 1 .. Domains
             /\ dom'[lease'[l].dom].occupied /\ dom'[lease'[l].dom].key = lease'[l].key
  <2>1. lease'[l].dom \in 0 .. Domains /\ lease'[l].dom # 0
    BY <1>0, <1>1 DEF DomainsInv, LeaseType
  <2> QED
    BY <1>0, <1>1, <2>1, Bounds DEF DomainOutlivesUse
<1>2. ASSUME NEW g \in Groups, groups'[g].key # 0
      PROVE  /\ groups'[g].dom \in 1 .. Domains
             /\ dom'[groups'[g].dom].occupied /\ dom'[groups'[g].dom].key = groups'[g].key
  <2>1. groups'[g].dom \in 0 .. Domains /\ groups'[g].dom # 0
    BY <1>0, <1>2 DEF DomainsInv, GroupType
  <2> QED
    BY <1>0, <1>2, <2>1, Bounds DEF DomainOutlivesUse
<1>3. \A k \in {lease'[l].key : l \in {k \in Leases : lease'[k].refs > 0}} : k \in Occupied(dom')
  BY <1>1 DEF Occupied
<1>4. \A k \in {groups'[g].key : g \in {h \in Groups : groups'[h].key # 0}} : k \in Occupied(dom')
  BY <1>2 DEF Occupied
<1>5. InUse' = Occupied(dom') \union {lease'[l].key : l \in {k \in Leases : lease'[k].refs > 0}}
                   \union {groups'[g].key : g \in {h \in Groups : groups'[h].key # 0}}
  BY Zenon DEF InUse, Occupied
<1> QED
  BY <1>3, <1>4, <1>5

\* What the session's thread does to its epoch.
EpochBegins == OpenBare \/ OpenDomain
EpochStays == (EpochRuns' <=> EpochRuns) /\ (EpochRuns => session'.key = session.key)

LEMMA EpochSteps ==
    ASSUME TypeOK, Steps
    PROVE  \/ EpochStays
           \/ EpochBegins /\ ~EpochRuns /\ EpochRuns' /\ session'.key = session.key
           \/ /\ OpenFails \/ OpenedInVain \/ StopActive \/ StopStale
              /\ EpochRuns /\ ~EpochRuns' /\ session'.key = session.key
<1>0. session \in SessionType
  BY Types
<1> USE <1>0 DEF SessionType, SessionPc, EpochRuns, EpochStays, EpochBegins
<1>1. CASE Start \/ Name \/ OpenRefused \/ StopNothing \/ Stopped
  <2>1. ~EpochRuns /\ ~EpochRuns'
    BY <1>1 DEF Start, Name, OpenRefused, StopNothing, Stopped
  <2> QED
    BY <2>1
<1>2. CASE OpenBare \/ OpenDomain
  BY <1>2 DEF OpenBare, OpenDomain
<1>3. CASE OpenFails
  BY <1>3 DEF OpenFails
<1>4. CASE OpenedAccepted \/ OpenedInVain
  BY <1>4 DEF OpenedAccepted, OpenedInVain
<1>5. CASE SubmitReset \/ SubmitFails \/ SubmitAccepted \/ Rejected \/ NoPicture
  BY <1>5 DEF SubmitReset, SubmitFails, SubmitAccepted, Rejected, NoPicture
<1>6. CASE Acquire \/ EvictNone \/ EvictOldest \/ Exhausted
  BY <1>6 DEF Acquire, EvictNone, EvictOldest, Exhausted
<1>7. CASE PublishQueued \/ PublishDropped
  BY <1>7 DEF PublishQueued, PublishDropped
<1>8. CASE QueueAccepted \/ QueueRefused
  BY <1>8 DEF QueueAccepted, QueueRefused
<1>9. CASE StopActive \/ StopStale
  BY <1>9 DEF StopActive, StopStale
<1>10. CASE StopCodec \/ Teardown
  <2>1. ~EpochRuns /\ ~EpochRuns'
    BY <1>10 DEF StopCodec, Teardown
  <2> QED
    BY <2>1
<1>11. CASE UNCHANGED session
  BY <1>11
<1> QED
  BY <1>1, <1>2, <1>3, <1>4, <1>5, <1>6, <1>7, <1>8, <1>9, <1>10, <1>11, SessionSteps

\* Who freezes and who thaws.
LEMMA FreezeSteps ==
    ASSUME TypeOK, Steps
    PROVE  \/ box'.frozen = box.frozen
           \/ (MainFreezes \/ WorkerFreezes) /\ box'.frozen = TRUE
           \/ Thaw /\ box'.frozen = FALSE
<1>0. box \in BoxType
  BY Types
<1> USE <1>0 DEF BoxType
<1>1. CASE OpenBare \/ OpenDomain \/ OpenedAccepted \/ OpenedInVain
  BY <1>1 DEF OpenBare, OpenDomain, OpenedAccepted, OpenedInVain
<1>2. CASE EvictOldest \/ PublishQueued \/ QueueAccepted
  BY <1>2 DEF EvictOldest, PublishQueued, QueueAccepted
<1>3. CASE FlushActive \/ StopActive \/ MainClosesActive \/ CloseFailedActive
           \/ WorkerClosesActive
  <2>1. box' = ClosedBox
    BY <1>3 DEF FlushActive, StopActive, MainClosesActive, CloseFailedActive,
                WorkerClosesActive
  <2> QED
    BY <2>1 DEF ClosedBox
<1>4. CASE Select
  BY <1>4 DEF Select
<1>5. CASE MainFreezes \/ WorkerFreezes
  BY <1>5 DEF MainFreezes, WorkerFreezes, Freeze
<1>6. CASE Thaw
  BY <1>6 DEF Thaw
<1>7. CASE UNCHANGED box
  BY <1>7
<1> QED
  BY <1>1, <1>2, <1>3, <1>4, <1>5, <1>6, <1>7, BoxSteps

\* A step that only takes from what is in use returns it, or nothing changes.
LEMMA LoanKept ==
    ASSUME EpochStays, InUse' \subseteq InUse, box'.frozen = box.frozen
    PROVE  [Loan!Next]_(Loan!vars)
<1>1. Draining' # {} => Draining # {}
  BY DEF Draining, EpochStays
<1>2. CASE Draining' # {} \/ Draining = {}
  BY <1>1, <1>2 DEF EpochStays, Loan!vars
<1>3. CASE Draining' = {} /\ Draining # {}
  BY <1>3 DEF EpochStays, Loan!Return, Loan!Next
<1> QED
  BY <1>2, <1>3

\* The epoch ends, and may leave something behind.
LEMMA LoanEnds ==
    ASSUME EpochRuns, ~EpochRuns', InUse \subseteq InUse', box'.frozen = box.frozen
    PROVE  Loan!Next
<1>1. Draining' = {} => Draining = {}
  BY DEF Draining
<1> QED
  BY <1>1 DEF Loan!End, Loan!Next

\* Every step of the pipeline is a step of the loan, or none for it.
LEMMA LoanStep ==
    ASSUME IInv, IInv', RestEmpty, Steps
    PROVE  [Loan!Next]_(Loan!vars)
<1>0. TypeOK /\ ThreadsInv /\ EpochInv /\ DomainsInv
  BY DEF IInv
<1>1. InUse = Occupied(dom) /\ InUse' = Occupied(dom')
  BY UseNow, UseThen
<1>2. CASE OpenedAccepted \/ OpenedInVain
  <2>1. /\ session.dom \in 1 .. Domains
        /\ dom'[session.dom].occupied /\ dom'[session.dom].key = session.key
        /\ \A d \in 1 .. Domains : d # session.dom => SameUse(d)
        /\ ~dom[session.dom].occupied
    <3>1. session.pc = "codec"
      BY <1>2 DEF OpenedAccepted, OpenedInVain
    <3>2. session.dom \in 1 .. Domains
      BY <1>0, <3>1, SessionFields, Bounds DEF ThreadsInv
    <3>3. ~dom[session.dom].occupied
      BY <1>0, <3>1 DEF DomainsInv
    <3>4. PICK st \in BOOLEAN :
            dom' = [dom EXCEPT ![session.dom] = [occupied |-> TRUE, stopped |-> st,
                                                 reaping |-> FALSE, key |-> session.key]]
      BY <1>0, <1>2, Types DEF OpenedAccepted, OpenedInVain
    <3> QED
      BY <1>0, <3>2, <3>3, <3>4, Types DEF SameUse
  <2>2. InUse' = InUse \union {session.key}
    BY <1>1, <2>1 DEF Occupied, SameUse
  <2>3. box'.frozen = box.frozen
    BY <1>0, <1>2, Types DEF OpenedAccepted, OpenedInVain, BoxType
  <2>4. CASE EpochStays
    <3>1. session'.key = session.key /\ EpochRuns
      BY <1>2, <2>4 DEF OpenedAccepted, OpenedInVain, EpochRuns, EpochStays
    <3>2. Draining' = Draining
      BY <2>2, <2>4, <3>1 DEF Draining, EpochStays
    <3> QED
      BY <2>3, <2>4, <3>2 DEF EpochStays, Loan!vars
  <2>5. CASE EpochRuns /\ ~EpochRuns'
    BY <2>2, <2>3, <2>5, LoanEnds
  <2>6. ~EpochBegins
    BY <1>2 DEF EpochBegins, OpenBare, OpenDomain, OpenedAccepted, OpenedInVain
  <2> QED
    BY <1>0, <2>4, <2>5, <2>6, EpochSteps
<1>3. CASE /\ ~(OpenedAccepted \/ OpenedInVain)
           /\ ~\A d \in 1 .. Domains : SameUse(d)
  <2>1. PICK t \in Reapers :
            /\ UNCHANGED <<lease, groups, session, box>>
            /\ ~dom'[reap[t].at].occupied
            /\ \A d \in 1 .. Domains : d # reap[t].at => SameUse(d)
    BY <1>0, <1>3, UseSteps
  <2>2. InUse' \subseteq InUse
    BY <1>1, <2>1 DEF Occupied, SameUse
  <2>3. EpochStays /\ box'.frozen = box.frozen
    BY <2>1 DEF EpochStays, EpochRuns
  <2> QED
    BY <2>2, <2>3, LoanKept
<1>4. CASE /\ ~(OpenedAccepted \/ OpenedInVain)
           /\ \A d \in 1 .. Domains : SameUse(d)
  <2>1. InUse' = InUse
    BY <1>1, <1>4 DEF Occupied, SameUse
  <2>2. CASE EpochStays /\ box'.frozen = box.frozen
    BY <2>1, <2>2, LoanKept
  <2>3. CASE EpochStays /\ box'.frozen = TRUE
    <3>1. Draining' = Draining
      BY <2>1, <2>3 DEF Draining, EpochStays
    <3> QED
      BY <2>3, <3>1 DEF EpochStays, Loan!Freeze, Loan!Next
  <2>4. CASE EpochStays /\ Thaw /\ box'.frozen = FALSE
    <3>1. worker = "idle"
      BY <2>4 DEF Thaw
    <3>2. InUse = {}
      BY <1>1, <3>1 DEF RestEmpty, Occupied
    <3>3. ~EpochRuns
      BY <1>0, <3>1 DEF ThreadsInv, EpochRuns
    <3>4. Draining = {} /\ Draining' = {}
      BY <2>1, <3>2 DEF Draining
    <3> QED
      BY <2>4, <3>3, <3>4 DEF EpochStays, Loan!Thaw, Loan!Next
  <2>5. CASE EpochBegins /\ ~EpochRuns /\ EpochRuns' /\ session'.key = session.key
    <3>1. session.pc = "open" /\ ~box.frozen /\ box'.frozen = box.frozen
      BY <1>0, <2>5, Types DEF EpochBegins, OpenBare, OpenDomain, Admissible, BoxType
    <3>2. session.key \notin InUse
      <4>1. \A d \in 1 .. Domains : dom[d].occupied => dom[d].key <= box.active
        BY <1>0 DEF DomainsInv
      <4>2. box.active < session.key
        BY <1>0, <3>1 DEF EpochInv
      <4>3. \A d \in 1 .. Domains : dom[d].key \in Nat
        BY <1>0, Types, Bounds DEF DomainType, Keys
      <4>4. box.active \in Nat /\ session.key \in Nat
        BY <1>0, BoxFields, SessionFields, Bounds DEF Keys
      <4> QED
        BY <1>1, <4>1, <4>2, <4>3, <4>4 DEF Occupied
    <3>3. Draining' = Draining
      BY <2>1, <2>5, <3>2 DEF Draining
    <3> QED
      BY <2>5, <3>1, <3>3 DEF Loan!Start, Loan!Next
  <2>6. CASE /\ OpenFails \/ StopActive \/ StopStale
             /\ EpochRuns /\ ~EpochRuns'
    <3>1. box'.frozen = box.frozen
      BY <1>0, <2>6, Types DEF OpenFails, StopActive, StopStale, BoxType
    <3> QED
      BY <2>1, <2>6, <3>1, LoanEnds
  <2> QED
    BY <1>0, <1>4, <2>2, <2>3, <2>4, <2>5, <2>6, EpochSteps, FreezeSteps
<1> QED
  BY <1>2, <1>3, <1>4

\* The pipeline keeps what VideoLoan promises, for any number of envelopes, domains,
\* groups, batches, epochs and submissions (video_pipeline.c as the runtime uses it).
THEOREM PipelineLends == Spec => VideoIsLent
<1>1. Init => Loan!Init /\ RestEmpty
  <2> SUFFICES ASSUME Init PROVE Loan!Init /\ RestEmpty
    OBVIOUS
  <2>1. \A d \in 1 .. Domains : ~dom[d].occupied
    BY DEF Init, FreeDomain
  <2>2. InUse = {}
    BY <2>1, InitHolds, UseNow DEF Occupied
  <2>3. ~EpochRuns /\ box.frozen = FALSE
    BY DEF Init, EpochRuns
  <2> QED
    BY <2>1, <2>2, <2>3 DEF Draining, Loan!Init, RestEmpty
<1>2. IInv /\ RestEmpty /\ [Next]_vars => RestEmpty'
  <2>1. UNCHANGED vars => UNCHANGED <<worker, dom>>
    BY DEF vars
  <2> QED
    BY <2>1, StepBranches, RestEmptyStep DEF IInv, RestEmpty
<1>3. IInv /\ IInv' /\ RestEmpty /\ [Next]_vars => [Loan!Next]_(Loan!vars)
  <2>1. CASE UNCHANGED vars
    BY <2>1 DEF vars, Loan!vars, EpochRuns, Draining, InUse
  <2>2. CASE Next
    BY <2>2, StepBranches, LoanStep DEF IInv
  <2> QED
    BY <2>1, <2>2
<1> QED
  BY <1>1, <1>2, <1>3, Inductive, PTL DEF Spec, VideoIsLent, Loan!Spec
=============================================================================
