----------------------------- MODULE MCPipeline -----------------------------
(* Instances of Pipeline for TLC. *)
EXTENDS Pipeline

\* Every event is for the one instance.
OneInst == [e \in Events |-> CHOOSE k \in Insts : TRUE]

\* Every request is its own, or every odd and every even event a retry.
Distinct == [e \in Events |-> e]
Retries == [e \in Events |-> e % 2]
SameReq == [e \in Events |-> 0]
SameHash == [e \in Events |-> 0]

\* Every slot runs one build, or each slot a newer one than the last.
OneVersion == [s \in Slots |-> 1]
MixedVersions == [s \in Slots |-> s]
=============================================================================
