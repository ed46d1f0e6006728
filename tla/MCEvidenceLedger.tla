--------------------------- MODULE MCEvidenceLedger ---------------------------
(* Instances of EvidenceLedger for TLC. *)
EXTENDS EvidenceLedger, TLC

\* A retrieval that an action depends on, and one beside it.
MCDependsOn == "r1" :> {} @@ "r2" :> {} @@ "a1" :> {"r1"}
MCNames == "r1" :> {"o1"} @@ "r2" :> {} @@ "a1" :> {"o1"}
MCOneField == <<"status">>
MCPassage ==
  {[id |-> "p1", subjects |-> {}, scope |-> "global", version |-> "none",
    from |-> NotGiven, until |-> NotGiven, asOf |-> NotGiven],
   [id |-> "p2", subjects |-> {}, scope |-> "global", version |-> "none",
    from |-> 0, until |-> 1, asOf |-> NotGiven]}
=============================================================================
