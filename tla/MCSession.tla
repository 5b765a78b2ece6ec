----------------------------- MODULE MCSession -----------------------------
(***************************************************************************)
(* The session with a second epoch of video in the first request and two   *)
(* more generations, which stop it, start again or take the owner over.    *)
(***************************************************************************)
EXTENDS StreamSession

\* The requests after the first need no second epoch.
EpochsBound == facts.request_id <= 1 \/ facts.epoch <= 1
=============================================================================
