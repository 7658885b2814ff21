----------------------------- MODULE MCAdmission -----------------------------
(* A model-checking instance of Admission.                                   *)
EXTENDS Admission

AllLinked == [rm \in Roadmaps |-> Tasks]

\* Who asks is the first machine.
CallsFromFirst == [b \in Batches |-> 1]
=============================================================================
