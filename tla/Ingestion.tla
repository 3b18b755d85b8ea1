------------------------------ MODULE Ingestion ------------------------------
(***************************************************************************)
(* What a client that has uploaded a document may rely on: the pipeline    *)
(* works on it, and in the end it is indexed or has failed, for good.  The *)
(* document list of the front end polls the status until then.             *)
(***************************************************************************)
VARIABLE outcome

Outcomes == {"working", "indexed", "failed"}

Init == outcome = "working"

Finish ==
    /\ outcome = "working"
    /\ outcome' \in Outcomes \ {"working"}

Spec == Init /\ [][Finish]_outcome

FairSpec == Spec /\ WF_outcome(Finish)
=============================================================================
