----------------------------- MODULE StreamOwner -----------------------------
(***************************************************************************)
(* What the application promises about the device: at most one streaming   *)
(* request owns it, the next one is admitted only after every resource of  *)
(* the previous owner has been reported returned, at most one newer intent *)
(* waits, and nothing is admitted once the device is shut.                 *)
(*                                                                         *)
(* AppLifecycle implements this specification (AppLifecycle!OwnerSlot).    *)
(***************************************************************************)
EXTENDS Naturals

CONSTANT Ids       \* identifiers a request may carry; 0 never names a request

VARIABLES
    owner,         \* the owning request, 0 for none
    stage,         \* "free", "open" or "closing"
    returned,      \* the resources of the owner that really are returned
    evidence,      \* the part of them that has been reported
    intent,        \* the waiting request, 0 for none
    newest,        \* the largest request identifier accepted so far
    shut           \* no admission any more

vars == <<owner, stage, returned, evidence, intent, newest, shut>>

Resources == {"requests", "protocol", "video"}

Init ==
    /\ owner = 0
    /\ stage = "free"
    /\ returned = Resources
    /\ evidence = Resources
    /\ intent = 0
    /\ newest = 0
    /\ shut = FALSE

Admit(id) ==
    /\ stage = "free" /\ ~shut /\ id > newest
    /\ owner' = id /\ stage' = "open" /\ newest' = id
    /\ returned' = {} /\ evidence' = {}
    /\ UNCHANGED <<intent, shut>>

Intend(id) ==
    /\ stage \in {"open", "closing"} /\ ~shut /\ id > newest
    /\ intent' = id /\ newest' = id /\ stage' = "closing"
    /\ UNCHANGED <<owner, returned, evidence, shut>>

Close ==
    /\ intent' = 0
    /\ stage' = IF stage = "open" THEN "closing" ELSE stage
    /\ UNCHANGED <<owner, returned, evidence, newest, shut>>

\* A resource comes back, whoever notices.
Return(r) ==
    /\ r \notin returned
    /\ returned' = returned \union {r}
    /\ UNCHANGED <<owner, stage, evidence, intent, newest, shut>>

\* A report may be late and partial, but it is true.
Report(seen) ==
    /\ stage = "closing" /\ seen \subseteq returned
    /\ shut \/ evidence \union seen # Resources
    /\ evidence' = evidence \union seen
    /\ UNCHANGED <<owner, stage, returned, intent, newest, shut>>

\* The last evidence arrives: the device goes to the waiting intent, or is free.
Release(seen) ==
    /\ stage = "closing" /\ ~shut /\ seen \subseteq returned
    /\ evidence \union seen = Resources
    /\ owner' = intent
    /\ stage' = IF intent = 0 THEN "free" ELSE "open"
    /\ returned' = IF intent = 0 THEN returned ELSE {}
    /\ evidence' = IF intent = 0 THEN Resources ELSE {}
    /\ intent' = 0
    /\ UNCHANGED <<newest, shut>>

Shut ==
    /\ shut' = TRUE /\ intent' = 0 /\ stage' = "closing"
    /\ UNCHANGED <<owner, returned, evidence, newest>>

Next ==
    \/ \E id \in Ids : Admit(id) \/ Intend(id)
    \/ Close
    \/ \E r \in Resources : Return(r)
    \/ \E seen \in SUBSET Resources : Report(seen) \/ Release(seen)
    \/ Shut

Spec == Init /\ [][Next]_vars
=============================================================================
