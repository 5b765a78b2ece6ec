------------------------- MODULE FormatHandoff_proofs -------------------------
(***************************************************************************)
(* The safety of the format handoff, for any number of sessions, epochs    *)
(* and requests.                                                           *)
(*                                                                         *)
(* Two invariants.  GatesInv follows the halves of a freeze and a thaw.    *)
(* RequestInv says who may be where (the decoder lock, the actor's key)    *)
(* and what a request under way looks like: why an answer that was chosen  *)
(* earlier, or by an earlier decoder, never reaches a later request.       *)
(***************************************************************************)
EXTENDS FormatHandoff, TLAPS

\* In the first half of a thaw no stop is waiting, so a gate that is frozen has
\* been frozen by a command that is still to be submitted.
GatesInv ==
    /\ worker = "thaw" => ~stop
    /\ (worker = "thaw" /\ main = "idle") => ~gate.frozen
    /\ GatesAgree

\* The actor holds the lock while it opens; a submission holds it, and keeps
\* the actor between the opening and the end of the join.
LockInv ==
    /\ actor.pc \in {"activate", "codec", "admit", "publish"} <=> lock = "actor"
    /\ decoder.pc # "idle" <=> lock = "decoder"
    /\ decoder.pc # "idle" => actor.pc \in {"up", "info", "join"}
    /\ worker \in {"idle", "thaw"} => actor.pc = "gone"
    /\ worker = "thaw" => Session(actor.key) < MaxSession

\* What is stored of the handoff belongs to the decoder it is stored for.
BackendInv ==
    /\ ~Newer(fmt.backend, actor.key)
    /\ (fmt.valid /\ fmt.backend = actor.key) => fmt.hardware = actor.key

\* A request under way, and an answer on its way to it.
RequestInv ==
    /\ fmt.waiters = (IF decoder.pc = "wait" THEN 1 ELSE 0)
    /\ decoder.pc = "wait" =>
          /\ fmt.serial = decoder.serial /\ fmt.offered = decoder.serial
          /\ fmt.result \in {NoFormat, Format(decoder.serial, actor.key)}
    /\ actor.serial <= fmt.serial
    /\ (actor.pc = "info" /\ actor.serial = fmt.serial) =>
          actor.answer = Format(fmt.offered, actor.key)
    /\ decoder.pc # "decode" => decoder.got = NoFormat
    /\ OwnFormat

IInv == TypeOK /\ LockInv /\ BackendInv /\ RequestInv

-----------------------------------------------------------------------------
\* Keys are ordered pairs of numbers, formats pairs of a number and a key.
LEMMA KeyFacts ==
    /\ NoKey \in Keys
    /\ \A s \in 0 .. MaxSession, e \in 0 .. MaxEpoch : <<s, e>> \in Keys
    /\ \A key \in Keys : Session(key) \in 0 .. MaxSession /\ key[2] \in 0 .. MaxEpoch
                         /\ ~Newer(key, key)
  BY BoundsAssumption DEF Keys, NoKey, Session, Newer

LEMMA FormatFacts ==
    /\ NoFormat \in Formats
    /\ \A offer \in 0 .. MaxSerial, key \in Keys : Format(offer, key) \in Formats
  BY KeyFacts, BoundsAssumption DEF Formats, Format, NoFormat

\* The next epoch of a session, and the next session, are newer than what is
\* not newer than the present key.
LEMMA NextKey ==
    ASSUME NEW key \in Keys, NEW old \in Keys, ~Newer(old, key)
    PROVE  /\ ~Newer(old, <<Session(key), key[2] + 1>>) /\ old # <<Session(key), key[2] + 1>>
           /\ ~Newer(old, <<Session(key) + 1, 0>>) /\ old # <<Session(key) + 1, 0>>
<1>1. key[1] \in Nat /\ key[2] \in Nat /\ old[1] \in Nat /\ old[2] \in Nat
  BY BoundsAssumption DEF Keys
<1>2. /\ <<Session(key), key[2] + 1>>[1] = key[1] /\ <<Session(key), key[2] + 1>>[2] = key[2] + 1
      /\ <<Session(key) + 1, 0>>[1] = key[1] + 1 /\ <<Session(key) + 1, 0>>[2] = 0
  BY DEF Session
<1>3. ~(old[1] > key[1]) /\ ~(old[1] = key[1] /\ old[2] > key[2])
  BY DEF Newer
<1> DEFINE a == <<Session(key), key[2] + 1>>
           b == <<Session(key) + 1, 0>>
<1> HIDE DEF a, b
<1>4. ~Newer(old, a) /\ old # a
  BY <1>1, <1>2, <1>3 DEF Newer, a
<1>5. ~Newer(old, b) /\ old # b
  BY <1>1, <1>2, <1>3 DEF Newer, b
<1> QED
  BY <1>4, <1>5 DEF a, b

LEMMA InitIInv == Init => IInv /\ GatesInv
<1> SUFFICES ASSUME Init PROVE IInv /\ GatesInv
  OBVIOUS
<1> USE BoundsAssumption DEF Init
<1>1. NoKey \in Keys /\ NoFormat \in Formats
  BY KeyFacts, FormatFacts
<1>2. TypeOK
  <2>1. 0 \in 0 .. MaxSerial /\ 0 \in 0 .. 1
    OBVIOUS
  <2>2. gate \in Gates /\ decoder \in Decoders /\ actor \in Actors
    BY <1>1, <2>1 DEF Gates, Decoders, Actors
  <2>3. fmt \in Handoffs
    BY <1>1, <2>1 DEF Handoffs
  <2> QED
    BY <2>2, <2>3 DEF TypeOK
<1>3. LockInv /\ GatesInv
  BY DEF LockInv, GatesInv, GatesAgree
<1>4. BackendInv
  BY KeyFacts DEF BackendInv
<1>5. RequestInv
  BY DEF RequestInv, OwnFormat, Format, NoFormat
<1> QED
  BY <1>2, <1>3, <1>4, <1>5 DEF IInv

\* The gates do not care what actor and decoder do.
LEMMA NextGates == TypeOK /\ GatesInv /\ [Next]_vars => GatesInv'
<1> SUFFICES ASSUME TypeOK, GatesInv, [Next]_vars PROVE GatesInv'
  OBVIOUS
<1> USE DEF TypeOK, Gates, Handoffs, GatesInv, GatesAgree
<1>1. CASE MainFreezes
  BY <1>1 DEF MainFreezes, FreezeGate
<1>2. CASE MainFreezesFormats
  BY <1>2 DEF MainFreezesFormats, FreezeFormats
<1>3. CASE MainSubmits
  BY <1>3 DEF MainSubmits
<1>4. CASE Thaw
  BY <1>4 DEF Thaw
<1>5. CASE ThawFormats
  BY <1>5 DEF ThawFormats
<1>6. CASE TakeStop
  BY <1>6 DEF TakeStop, FreezeGate
<1>7. CASE StopFreezesFormats \/ Joined
  BY <1>7 DEF StopFreezesFormats, Joined
<1>8. CASE Interrupt
  BY <1>8 DEF Interrupt
<1>9. CASE Actor \/ Cancel
  <2> USE DEF ActorAt, ActorTo
  <2>1. UNCHANGED <<main, worker, stop>>
    BY <1>9 DEF Actor, Open, Activate, CodecOpened, NoCodec, Admit, Publish, Think, Answer, Stop,
                End, Cancel
  <2>2. gate'.frozen = gate.frozen
    BY <1>9 DEF Actor, Open, Activate, CodecOpened, NoCodec, Admit, Publish, Think, Answer, Stop,
                End, Cancel
  <2>3. fmt'.frozen = fmt.frozen
    BY <1>9 DEF Actor, Open, Activate, CodecOpened, NoCodec, Admit, Publish, Think, Answer, Stop,
                End, Cancel, Cancelled
  <2> QED
    BY <2>1, <2>2, <2>3
<1>10. CASE Decoder
  <2> USE DEF DecoderAt
  <2>1. UNCHANGED <<gate, main, worker, stop>>
    BY <1>10 DEF Decoder, Submit, Ask, AskRefused, Woken, Decoded
  <2>2. fmt'.frozen = fmt.frozen
    BY <1>10 DEF Decoder, Submit, Ask, AskRefused, Woken, Decoded
  <2> QED
    BY <2>1, <2>2
<1>11. CASE UNCHANGED vars
  BY <1>11 DEF vars
<1> QED
  BY <1>1, <1>2, <1>3, <1>4, <1>5, <1>6, <1>7, <1>8, <1>9, <1>10, <1>11 DEF Next

\* Every step keeps the lock, the backend and the request under way in order.
LEMMA NextIInv == IInv /\ [Next]_vars => IInv'
<1> SUFFICES ASSUME IInv, [Next]_vars PROVE IInv'
  OBVIOUS
<1> USE BoundsAssumption, KeyFacts, FormatFacts DEF IInv
<1>1. CASE MainFreezes
  <2>1. TypeOK'
    BY <1>1 DEF MainFreezes, FreezeGate, TypeOK, Gates
  <2>2. LockInv'
    BY <1>1 DEF MainFreezes, FreezeGate, TypeOK, Gates, Handoffs, Actors, Decoders, LockInv
  <2>3. BackendInv'
    BY <1>1 DEF MainFreezes, FreezeGate, TypeOK, Gates, Handoffs, Actors, Decoders, BackendInv, LockInv
  <2>4. RequestInv'
    BY <1>1 DEF MainFreezes, FreezeGate, TypeOK, Gates, Handoffs, Actors, Decoders, LockInv, BackendInv, RequestInv, OwnFormat
  <2> QED
    BY <2>1, <2>2, <2>3, <2>4
<1>2. CASE MainFreezesFormats
  <2>1. TypeOK'
    BY <1>2 DEF MainFreezesFormats, FreezeFormats, TypeOK, Handoffs
  <2>2. LockInv'
    BY <1>2 DEF MainFreezesFormats, FreezeFormats, TypeOK, Gates, Handoffs, Actors, Decoders, LockInv
  <2>3. BackendInv'
    BY <1>2 DEF MainFreezesFormats, FreezeFormats, TypeOK, Gates, Handoffs, Actors, Decoders, BackendInv, LockInv
  <2>4. RequestInv'
    BY <1>2 DEF MainFreezesFormats, FreezeFormats, TypeOK, Gates, Handoffs, Actors, Decoders, LockInv, BackendInv, RequestInv, OwnFormat
  <2> QED
    BY <2>1, <2>2, <2>3, <2>4
<1>3. CASE MainSubmits
  <2>1. TypeOK'
    BY <1>3 DEF MainSubmits, TypeOK
  <2>2. LockInv'
    BY <1>3 DEF MainSubmits, TypeOK, Gates, Handoffs, Actors, Decoders, LockInv
  <2>3. BackendInv'
    BY <1>3 DEF MainSubmits, TypeOK, Gates, Handoffs, Actors, Decoders, BackendInv, LockInv
  <2>4. RequestInv'
    BY <1>3 DEF MainSubmits, TypeOK, Gates, Handoffs, Actors, Decoders, LockInv, BackendInv, RequestInv, OwnFormat
  <2> QED
    BY <2>1, <2>2, <2>3, <2>4
<1>4. CASE Thaw
  <2>1. TypeOK'
    BY <1>4 DEF Thaw, TypeOK, Gates
  <2>2. LockInv'
    BY <1>4 DEF Thaw, TypeOK, Gates, Handoffs, Actors, Decoders, LockInv
  <2>3. BackendInv'
    BY <1>4 DEF Thaw, TypeOK, Gates, Handoffs, Actors, Decoders, BackendInv, LockInv
  <2>4. RequestInv'
    BY <1>4 DEF Thaw, TypeOK, Gates, Handoffs, Actors, Decoders, LockInv, BackendInv, RequestInv, OwnFormat
  <2> QED
    BY <2>1, <2>2, <2>3, <2>4
<1>5. CASE ThawFormats
  <2>1. TypeOK'
    <3>1. fmt' \in Handoffs
      BY <1>5 DEF ThawFormats, TypeOK, LockInv, Handoffs, Actors
    <3>2. Session(actor.key) + 1 \in 0 .. MaxSession /\ 0 \in 0 .. MaxEpoch
      BY <1>5 DEF ThawFormats, TypeOK, LockInv, Actors
    <3> DEFINE key == <<Session(actor.key) + 1, 0>>
    <3>3. key \in Keys
      BY <3>2
    <3>4. actor' = [actor EXCEPT !.pc = "ready", !.key = key]
      BY <1>5 DEF ThawFormats
    <3> HIDE DEF key
    <3>5. actor' \in Actors
      BY <3>3, <3>4 DEF TypeOK, Actors
    <3> QED
      BY <1>5, <3>1, <3>5 DEF ThawFormats, TypeOK
  <2>2. LockInv'
    BY <1>5 DEF ThawFormats, TypeOK, Gates, Handoffs, Actors, Decoders, LockInv
  <2>3. BackendInv'
    <3>1. fmt.backend \in Keys /\ actor.key \in Keys /\ ~Newer(fmt.backend, actor.key)
      BY DEF TypeOK, Handoffs, Actors, BackendInv
    <3> QED
      BY <1>5, <3>1, NextKey DEF ThawFormats, TypeOK, Handoffs, Actors, BackendInv
  <2>4. RequestInv'
    BY <1>5 DEF ThawFormats, TypeOK, Gates, Handoffs, Actors, Decoders, LockInv, BackendInv, RequestInv, OwnFormat
  <2> QED
    BY <2>1, <2>2, <2>3, <2>4
<1>6. CASE TakeStop
  <2>1. TypeOK'
    BY <1>6 DEF TakeStop, FreezeGate, TypeOK, Gates
  <2>2. LockInv'
    BY <1>6 DEF TakeStop, FreezeGate, TypeOK, Gates, Handoffs, Actors, Decoders, LockInv
  <2>3. BackendInv'
    BY <1>6 DEF TakeStop, FreezeGate, TypeOK, Gates, Handoffs, Actors, Decoders, BackendInv, LockInv
  <2>4. RequestInv'
    BY <1>6 DEF TakeStop, FreezeGate, TypeOK, Gates, Handoffs, Actors, Decoders, LockInv, BackendInv, RequestInv, OwnFormat
  <2> QED
    BY <2>1, <2>2, <2>3, <2>4
<1>7. CASE StopFreezesFormats
  <2>1. TypeOK'
    BY <1>7 DEF StopFreezesFormats, FreezeFormats, TypeOK, Handoffs
  <2>2. LockInv'
    BY <1>7 DEF StopFreezesFormats, FreezeFormats, TypeOK, Gates, Handoffs, Actors, Decoders, LockInv
  <2>3. BackendInv'
    BY <1>7 DEF StopFreezesFormats, FreezeFormats, TypeOK, Gates, Handoffs, Actors, Decoders, BackendInv, LockInv
  <2>4. RequestInv'
    BY <1>7 DEF StopFreezesFormats, FreezeFormats, TypeOK, Gates, Handoffs, Actors, Decoders, LockInv, BackendInv, RequestInv, OwnFormat
  <2> QED
    BY <2>1, <2>2, <2>3, <2>4
<1>8. CASE Joined
  <2>1. TypeOK'
    BY <1>8 DEF Joined, TypeOK
  <2>2. LockInv'
    BY <1>8 DEF Joined, TypeOK, Gates, Handoffs, Actors, Decoders, LockInv
  <2>3. BackendInv'
    BY <1>8 DEF Joined, TypeOK, Gates, Handoffs, Actors, Decoders, BackendInv, LockInv
  <2>4. RequestInv'
    BY <1>8 DEF Joined, TypeOK, Gates, Handoffs, Actors, Decoders, LockInv, BackendInv, RequestInv, OwnFormat
  <2> QED
    BY <2>1, <2>2, <2>3, <2>4
<1>9. CASE Interrupt
  <2>1. TypeOK'
    BY <1>9 DEF Interrupt, Cancelled, TypeOK, Handoffs
  <2>2. LockInv'
    BY <1>9 DEF Interrupt, Cancelled, TypeOK, Gates, Handoffs, Actors, Decoders, LockInv
  <2>3. BackendInv'
    BY <1>9 DEF Interrupt, Cancelled, TypeOK, Gates, Handoffs, Actors, Decoders, BackendInv, LockInv
  <2>4. RequestInv'
    BY <1>9 DEF Interrupt, Cancelled, TypeOK, Gates, Handoffs, Actors, Decoders, LockInv, BackendInv, RequestInv, OwnFormat
  <2> QED
    BY <2>1, <2>2, <2>3, <2>4
<1>10. CASE Open
  <2> DEFINE key == <<Session(actor.key), actor.key[2] + 1>>
  <2>1. actor.key \in Keys /\ fmt.backend \in Keys
    BY DEF TypeOK, Handoffs, Actors
  <2>2. actor.key[2] + 1 \in 0 .. MaxEpoch /\ Session(actor.key) \in 0 .. MaxSession
    BY <1>10, <2>1 DEF Open
  <2>3. key \in Keys
    BY <2>2
  <2>4. ~Newer(fmt.backend, key) /\ fmt.backend # key
    BY <2>1, NextKey DEF BackendInv
  <2>5. /\ actor.pc = "ready" /\ lock = "none" /\ worker # "join"
        /\ UNCHANGED <<fmt, decoder, main, worker, stop>>
        /\ \/ /\ gate' = [gate EXCEPT !.active = key, !.cancelled = FALSE]
              /\ actor' = [actor EXCEPT !.pc = "activate", !.key = key, !.usable = FALSE]
              /\ lock' = "actor"
           \/ actor' = [actor EXCEPT !.key = key] /\ UNCHANGED <<gate, lock>>
    BY <1>10 DEF Open, ActorAt
  <2>6. Session(key) = Session(actor.key)
    BY DEF Session
  <2> HIDE DEF key
  <2>7. TypeOK'
    <3>1. gate' \in Gates
      BY <2>3, <2>5 DEF TypeOK, Gates
    <3>2. actor' \in Actors
      BY <2>3, <2>5 DEF TypeOK, Actors
    <3> QED
      BY <2>5, <3>1, <3>2 DEF TypeOK
  <2>8. LockInv'
    BY <2>5, <2>6 DEF TypeOK, Gates, Actors, Decoders, LockInv
  <2>9. BackendInv'
    BY <2>4, <2>5 DEF TypeOK, Actors, BackendInv
  <2>10. RequestInv'
    BY <2>5 DEF TypeOK, Actors, Decoders, LockInv, RequestInv, OwnFormat
  <2> QED
    BY <2>7, <2>8, <2>9, <2>10
<1>11. CASE Activate
  <2>1. TypeOK'
    <3>1. fmt' \in Handoffs
      BY <1>11 DEF Activate, ActorAt, ActorTo, TypeOK, Handoffs, Actors
    <3>2. actor' \in Actors
      BY <1>11 DEF Activate, ActorAt, ActorTo, TypeOK, Handoffs, Actors
    <3> QED
      BY <1>11, <3>1, <3>2 DEF Activate, ActorAt, ActorTo, TypeOK
  <2>2. LockInv'
    BY <1>11 DEF Activate, ActorAt, ActorTo, TypeOK, Gates, Handoffs, Actors, Decoders, LockInv
  <2>3. BackendInv'
    BY <1>11 DEF Activate, ActorAt, ActorTo, TypeOK, Gates, Handoffs, Actors, Decoders, BackendInv, LockInv
  <2>4. RequestInv'
    BY <1>11 DEF Activate, ActorAt, ActorTo, TypeOK, Gates, Handoffs, Actors, Decoders, LockInv, BackendInv, RequestInv, OwnFormat
  <2> QED
    BY <2>1, <2>2, <2>3, <2>4
<1>12. CASE CodecOpened
  <2>1. TypeOK'
    <3>1. fmt' \in Handoffs
      BY <1>12 DEF CodecOpened, ActorAt, ActorTo, TypeOK, Handoffs, Actors
    <3>2. actor' \in Actors
      BY <1>12 DEF CodecOpened, ActorAt, ActorTo, TypeOK, Handoffs, Actors
    <3> QED
      BY <1>12, <3>1, <3>2 DEF CodecOpened, ActorAt, ActorTo, TypeOK
  <2>2. LockInv'
    BY <1>12 DEF CodecOpened, ActorAt, ActorTo, TypeOK, Gates, Handoffs, Actors, Decoders, LockInv
  <2>3. BackendInv'
    BY <1>12 DEF CodecOpened, ActorAt, ActorTo, TypeOK, Gates, Handoffs, Actors, Decoders, BackendInv, LockInv
  <2>4. RequestInv'
    BY <1>12 DEF CodecOpened, ActorAt, ActorTo, TypeOK, Gates, Handoffs, Actors, Decoders, LockInv, BackendInv, RequestInv, OwnFormat
  <2> QED
    BY <2>1, <2>2, <2>3, <2>4
<1>13. CASE Admit
  <2>1. TypeOK'
    <3>1. gate' \in Gates
      BY <1>13 DEF Admit, ActorAt, TypeOK, Gates, Actors
    <3>2. actor' \in Actors
      BY <1>13 DEF Admit, ActorAt, TypeOK, Gates, Actors
    <3> QED
      BY <1>13, <3>1, <3>2 DEF Admit, ActorAt, TypeOK
  <2>2. LockInv'
    BY <1>13 DEF Admit, ActorAt, TypeOK, Gates, Handoffs, Actors, Decoders, LockInv
  <2>3. BackendInv'
    BY <1>13 DEF Admit, ActorAt, TypeOK, Gates, Handoffs, Actors, Decoders, BackendInv, LockInv
  <2>4. RequestInv'
    BY <1>13 DEF Admit, ActorAt, TypeOK, Gates, Handoffs, Actors, Decoders, LockInv, BackendInv, RequestInv, OwnFormat
  <2> QED
    BY <2>1, <2>2, <2>3, <2>4
<1>14. CASE Publish
  <2>1. TypeOK'
    <3>1. fmt' \in Handoffs
      BY <1>14 DEF Publish, ActorAt, ActorTo, TypeOK, Handoffs, Actors
    <3>2. actor' \in Actors
      BY <1>14 DEF Publish, ActorAt, ActorTo, TypeOK, Handoffs, Actors
    <3> QED
      BY <1>14, <3>1, <3>2 DEF Publish, ActorAt, ActorTo, TypeOK
  <2>2. LockInv'
    BY <1>14 DEF Publish, ActorAt, ActorTo, TypeOK, Gates, Handoffs, Actors, Decoders, LockInv
  <2>3. BackendInv'
    BY <1>14 DEF Publish, ActorAt, ActorTo, TypeOK, Gates, Handoffs, Actors, Decoders, BackendInv, LockInv
  <2>4. RequestInv'
    BY <1>14 DEF Publish, ActorAt, ActorTo, TypeOK, Gates, Handoffs, Actors, Decoders, LockInv, BackendInv, RequestInv, OwnFormat
  <2> QED
    BY <2>1, <2>2, <2>3, <2>4
<1>15. CASE Think
  <2>1. TypeOK'
    <3>1. fmt' \in Handoffs
      BY <1>15 DEF Think, ActorAt, TypeOK, Handoffs, Actors
    <3>2. actor' \in Actors
      BY <1>15 DEF Think, ActorAt, TypeOK, Handoffs, Actors
    <3> QED
      BY <1>15, <3>1, <3>2 DEF Think, ActorAt, TypeOK
  <2>2. LockInv'
    BY <1>15 DEF Think, ActorAt, TypeOK, Gates, Handoffs, Actors, Decoders, LockInv
  <2>3. BackendInv'
    BY <1>15 DEF Think, ActorAt, TypeOK, Gates, Handoffs, Actors, Decoders, BackendInv, LockInv
  <2>4. RequestInv'
    BY <1>15 DEF Think, ActorAt, TypeOK, Gates, Handoffs, Actors, Decoders, LockInv, BackendInv, RequestInv, OwnFormat
  <2> QED
    BY <2>1, <2>2, <2>3, <2>4
<1>16. CASE Answer
  <2>1. TypeOK'
    <3>1. fmt' \in Handoffs
      BY <1>16 DEF Answer, ActorAt, ActorTo, TypeOK, Handoffs, Actors
    <3>2. actor' \in Actors
      BY <1>16 DEF Answer, ActorAt, ActorTo, TypeOK, Handoffs, Actors
    <3> QED
      BY <1>16, <3>1, <3>2 DEF Answer, ActorAt, ActorTo, TypeOK
  <2>2. LockInv'
    BY <1>16 DEF Answer, ActorAt, ActorTo, TypeOK, Gates, Handoffs, Actors, Decoders, LockInv
  <2>3. BackendInv'
    BY <1>16 DEF Answer, ActorAt, ActorTo, TypeOK, Gates, Handoffs, Actors, Decoders, BackendInv, LockInv
  <2>4. RequestInv'
    BY <1>16 DEF Answer, ActorAt, ActorTo, TypeOK, Gates, Handoffs, Actors, Decoders, LockInv, BackendInv, RequestInv, OwnFormat
  <2> QED
    BY <2>1, <2>2, <2>3, <2>4
<1>17. CASE Cancel
  <2>1. TypeOK'
    <3>1. fmt' \in Handoffs
      <4>1. PICK restarting \in BOOLEAN : fmt' = Cancelled(actor.key, restarting)
        BY <1>17 DEF Cancel
      <4>2. /\ (fmt.active /\ fmt.backend # actor.key) \in BOOLEAN
            /\ (fmt.pending /\ (restarting \/ actor.key \notin {fmt.backend, fmt.request})) \in BOOLEAN
        BY DEF TypeOK, Handoffs
      <4> QED
        BY <4>1, <4>2 DEF Cancelled, TypeOK, Handoffs
    <3>2. actor' \in Actors
      BY <1>17 DEF Cancel, Cancelled, ActorAt, ActorTo, TypeOK, Handoffs, Actors
    <3> QED
      BY <1>17, <3>1, <3>2 DEF Cancel, Cancelled, ActorAt, ActorTo, TypeOK
  <2>2. LockInv'
    BY <1>17 DEF Cancel, Cancelled, ActorAt, ActorTo, TypeOK, Gates, Handoffs, Actors, Decoders, LockInv
  <2>3. BackendInv'
    BY <1>17 DEF Cancel, Cancelled, ActorAt, ActorTo, TypeOK, Gates, Handoffs, Actors, Decoders, BackendInv, LockInv
  <2>4. RequestInv'
    BY <1>17 DEF Cancel, Cancelled, ActorAt, ActorTo, TypeOK, Gates, Handoffs, Actors, Decoders, LockInv, BackendInv, RequestInv, OwnFormat
  <2> QED
    BY <2>1, <2>2, <2>3, <2>4
<1>18. CASE Stop
  <2>1. TypeOK'
    <3>1. gate' \in Gates
      BY <1>18 DEF Stop, Cancelled, ActorAt, TypeOK, Gates, Handoffs, Actors
    <3>2. fmt' \in Handoffs
      BY <1>18 DEF Stop, Cancelled, ActorAt, TypeOK, Gates, Handoffs, Actors
    <3>3. actor' \in Actors
      BY <1>18 DEF Stop, Cancelled, ActorAt, TypeOK, Gates, Handoffs, Actors
    <3> QED
      BY <1>18, <3>1, <3>2, <3>3 DEF Stop, Cancelled, ActorAt, TypeOK
  <2>2. LockInv'
    BY <1>18 DEF Stop, Cancelled, ActorAt, TypeOK, Gates, Handoffs, Actors, Decoders, LockInv
  <2>3. BackendInv'
    BY <1>18 DEF Stop, Cancelled, ActorAt, TypeOK, Gates, Handoffs, Actors, Decoders, BackendInv, LockInv
  <2>4. RequestInv'
    BY <1>18 DEF Stop, Cancelled, ActorAt, TypeOK, Gates, Handoffs, Actors, Decoders, LockInv, BackendInv, RequestInv, OwnFormat
  <2> QED
    BY <2>1, <2>2, <2>3, <2>4
<1>19. CASE End
  <2>1. TypeOK'
    BY <1>19 DEF End, ActorAt, ActorTo, TypeOK, Actors
  <2>2. LockInv'
    BY <1>19 DEF End, ActorAt, ActorTo, TypeOK, Gates, Handoffs, Actors, Decoders, LockInv
  <2>3. BackendInv'
    BY <1>19 DEF End, ActorAt, ActorTo, TypeOK, Gates, Handoffs, Actors, Decoders, BackendInv, LockInv
  <2>4. RequestInv'
    BY <1>19 DEF End, ActorAt, ActorTo, TypeOK, Gates, Handoffs, Actors, Decoders, LockInv, BackendInv, RequestInv, OwnFormat
  <2> QED
    BY <2>1, <2>2, <2>3, <2>4
<1>20. CASE Submit
  <2>1. TypeOK'
    BY <1>20 DEF Submit, DecoderAt, TypeOK, Decoders
  <2>2. LockInv'
    BY <1>20 DEF Submit, DecoderAt, TypeOK, Gates, Handoffs, Actors, Decoders, LockInv
  <2>3. BackendInv'
    BY <1>20 DEF Submit, DecoderAt, TypeOK, Gates, Handoffs, Actors, Decoders, BackendInv, LockInv
  <2>4. RequestInv'
    BY <1>20 DEF Submit, DecoderAt, TypeOK, Gates, Handoffs, Actors, Decoders, LockInv, BackendInv, RequestInv, OwnFormat
  <2> QED
    BY <2>1, <2>2, <2>3, <2>4
<1>21. CASE Ask
  <2>1. TypeOK'
    <3>1. fmt' \in Handoffs
      <4>1. fmt.serial + 1 \in 0 .. MaxSerial /\ fmt.waiters + 1 \in 0 .. 1
        BY <1>21 DEF Ask, DecoderAt, TypeOK, Handoffs, RequestInv
      <4> DEFINE number == fmt.serial + 1
                 count == fmt.waiters + 1
                 hardware == IF fmt.backend = actor.key THEN actor.key ELSE fmt.hardware
      <4>2. actor.key \in Keys /\ hardware \in Keys /\ NoFormat \in Formats
        BY DEF TypeOK, Actors, Handoffs
      <4>3. fmt' = [fmt EXCEPT !.serial = number, !.request = actor.key, !.result = NoFormat,
                               !.offered = number, !.pending = TRUE, !.waiters = count,
                               !.hardware = hardware]
        BY <1>21 DEF Ask
      <4> HIDE DEF number, count, hardware
      <4>4. fmt \in Handoffs
        BY DEF TypeOK
      <4>5. number \in 0 .. MaxSerial /\ count \in 0 .. 1
        BY <4>1 DEF number, count
      <4> QED
        BY <4>2, <4>3, <4>4, <4>5 DEF Handoffs
    <3>2. decoder' \in Decoders
      <4>1. fmt.serial + 1 \in 0 .. MaxSerial
        BY <1>21 DEF Ask, TypeOK, Handoffs
      <4> QED
        BY <1>21, <4>1 DEF Ask, TypeOK, Decoders
    <3> QED
      BY <1>21, <3>1, <3>2 DEF Ask, DecoderAt, TypeOK
  <2>2. LockInv'
    BY <1>21 DEF Ask, DecoderAt, TypeOK, Gates, Handoffs, Actors, Decoders, LockInv
  <2>3. BackendInv'
    BY <1>21 DEF Ask, DecoderAt, TypeOK, Gates, Handoffs, Actors, Decoders, BackendInv, LockInv
  <2>4. RequestInv'
    BY <1>21 DEF Ask, DecoderAt, TypeOK, Gates, Handoffs, Actors, Decoders, LockInv, BackendInv, RequestInv, OwnFormat
  <2> QED
    BY <2>1, <2>2, <2>3, <2>4
<1>22. CASE AskRefused
  <2>1. TypeOK'
    BY <1>22 DEF AskRefused, DecoderAt, TypeOK, Decoders
  <2>2. LockInv'
    BY <1>22 DEF AskRefused, DecoderAt, TypeOK, Gates, Handoffs, Actors, Decoders, LockInv
  <2>3. BackendInv'
    BY <1>22 DEF AskRefused, DecoderAt, TypeOK, Gates, Handoffs, Actors, Decoders, BackendInv, LockInv
  <2>4. RequestInv'
    BY <1>22 DEF AskRefused, DecoderAt, TypeOK, Gates, Handoffs, Actors, Decoders, LockInv, BackendInv, RequestInv, OwnFormat
  <2> QED
    BY <2>1, <2>2, <2>3, <2>4
<1>23. CASE Woken
  <2>1. TypeOK'
    <3>1. fmt' \in Handoffs
      <4>1. fmt.waiters - 1 \in 0 .. 1
        BY <1>23 DEF Woken, DecoderAt, RequestInv
      <4> QED
        BY <1>23, <4>1 DEF Woken, TypeOK, Handoffs
    <3>2. decoder' \in Decoders
      BY <1>23 DEF Woken, Mine, DecoderAt, TypeOK, Handoffs, Decoders
    <3> QED
      BY <1>23, <3>1, <3>2 DEF Woken, Mine, DecoderAt, TypeOK
  <2>2. LockInv'
    BY <1>23 DEF Woken, Mine, DecoderAt, TypeOK, Gates, Handoffs, Actors, Decoders, LockInv
  <2>3. BackendInv'
    BY <1>23 DEF Woken, Mine, DecoderAt, TypeOK, Gates, Handoffs, Actors, Decoders, BackendInv, LockInv
  <2>4. RequestInv'
    BY <1>23 DEF Woken, Mine, DecoderAt, TypeOK, Gates, Handoffs, Actors, Decoders, LockInv, BackendInv, RequestInv, OwnFormat
  <2> QED
    BY <2>1, <2>2, <2>3, <2>4
<1>24. CASE Decoded
  <2>1. TypeOK'
    BY <1>24 DEF Decoded, DecoderAt, TypeOK, Decoders
  <2>2. LockInv'
    BY <1>24 DEF Decoded, DecoderAt, TypeOK, Gates, Handoffs, Actors, Decoders, LockInv
  <2>3. BackendInv'
    BY <1>24 DEF Decoded, DecoderAt, TypeOK, Gates, Handoffs, Actors, Decoders, BackendInv, LockInv
  <2>4. RequestInv'
    BY <1>24 DEF Decoded, DecoderAt, TypeOK, Gates, Handoffs, Actors, Decoders, LockInv, BackendInv, RequestInv, OwnFormat
  <2> QED
    BY <2>1, <2>2, <2>3, <2>4
<1>25. CASE UNCHANGED vars
  <2>1. TypeOK'
    BY <1>25 DEF vars, TypeOK
  <2>2. LockInv'
    BY <1>25 DEF vars, TypeOK, Gates, Handoffs, Actors, Decoders, LockInv
  <2>3. BackendInv'
    BY <1>25 DEF vars, TypeOK, Gates, Handoffs, Actors, Decoders, BackendInv, LockInv
  <2>4. RequestInv'
    BY <1>25 DEF vars, TypeOK, Gates, Handoffs, Actors, Decoders, LockInv, BackendInv, RequestInv, OwnFormat
  <2> QED
    BY <2>1, <2>2, <2>3, <2>4
<1>26. CASE NoCodec
  <2>1. TypeOK'
    BY <1>26 DEF NoCodec, ActorAt, ActorTo, TypeOK, Actors
  <2>2. LockInv'
    BY <1>26 DEF NoCodec, ActorAt, ActorTo, TypeOK, Actors, Decoders, LockInv
  <2>3. BackendInv'
    BY <1>26 DEF NoCodec, ActorAt, ActorTo, TypeOK, Handoffs, Actors, BackendInv
  <2>4. RequestInv'
    BY <1>26 DEF NoCodec, ActorAt, ActorTo, TypeOK, Handoffs, Actors, LockInv, RequestInv, OwnFormat
  <2> QED
    BY <2>1, <2>2, <2>3, <2>4
<1> QED
  BY <1>1, <1>2, <1>3, <1>4, <1>5, <1>6, <1>7, <1>8, <1>9, <1>10, <1>11, <1>12, <1>13,
     <1>14, <1>15, <1>16, <1>17, <1>18, <1>19, <1>20, <1>21, <1>22, <1>23, <1>24, <1>25,
     <1>26 DEF Next, Actor, Decoder

-----------------------------------------------------------------------------
\* What a request and its answer look like holds in every reachable state.
THEOREM HandoffInvariant == Spec => []IInv
  BY InitIInv, NextIInv, PTL DEF Spec

\* The gates, followed through the halves of freeze and thaw.
THEOREM GatesInvariant == Spec => []GatesInv
<1>1. Init => GatesInv
  BY InitIInv
<1>2. TypeOK /\ GatesInv /\ [Next]_vars => GatesInv'
  BY NextGates
<1>3. Spec => []TypeOK
  BY HandoffInvariant, PTL DEF IInv
<1> QED
  BY <1>1, <1>2, <1>3, PTL DEF Spec

\* The state of video_pipeline.c's gates and of its handoff keeps its types;
\* among them, that never more than one submission waits for a format.
THEOREM FormatTypeCorrect == Spec => []TypeOK
  BY HandoffInvariant, PTL DEF IInv

\* hardware_format returns nothing but a format that this very request offered,
\* chosen for the hardware of the decoder that asks: an answer of an earlier
\* request or of an earlier decoder never gets through.
THEOREM OwnFormatHolds == Spec => []OwnFormat
<1>1. IInv => OwnFormat
  BY DEF IInv, RequestInv
<1> QED
  BY <1>1, HandoffInvariant, PTL

\* No running stream is left with one gate of a freeze still closed.
THEOREM GatesAgreeHolds == Spec => []GatesAgree
<1>1. GatesInv => GatesAgree
  BY DEF GatesInv
<1> QED
  BY <1>1, GatesInvariant, PTL

=============================================================================
