----------------------------- MODULE UploadGate -----------------------------
(***************************************************************************)
(* What the two document routes promise to their callers, whatever happens *)
(* inside: at most MaxUploads documents are in process, a document is      *)
(* turned away as busy only when that many are, nothing queues, and a      *)
(* document that was let in is answered.                                   *)
(***************************************************************************)
EXTENDS Integers, FiniteSets

CONSTANTS Uploads, MaxUploads

VARIABLE phase   \* upload -> "waiting", "admitted", "served", "refused"

InProcess == { u \in Uploads : phase[u] = "admitted" }
Full      == Cardinality(InProcess) >= MaxUploads

Init == phase = [ u \in Uploads |-> "waiting" ]

Refuse(u) ==
  /\ phase[u] = "waiting"
  /\ Full
  /\ phase' = [ phase EXCEPT ![u] = "refused" ]

Admit(u) ==
  /\ phase[u] = "waiting"
  /\ ~ Full
  /\ phase' = [ phase EXCEPT ![u] = "admitted" ]

\* an answer that needs no waiting
ServeAtOnce(u) ==
  /\ phase[u] = "waiting"
  /\ ~ Full
  /\ phase' = [ phase EXCEPT ![u] = "served" ]

Serve(u) ==
  /\ phase[u] = "admitted"
  /\ phase' = [ phase EXCEPT ![u] = "served" ]

Next == \E u \in Uploads : Refuse(u) \/ Admit(u) \/ ServeAtOnce(u) \/ Serve(u)

Safe == Init /\ [][Next]_phase
Spec == Safe /\ \A u \in Uploads : WF_phase(Serve(u))
=============================================================================
