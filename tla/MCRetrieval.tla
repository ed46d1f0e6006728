----------------------------- MODULE MCRetrieval ------------------------------
(* Instance of Retrieval for TLC: a chunk about an order, one of a policy version
   and one of both that names two; an order that was signed and one that was not. *)
EXTENDS Retrieval, TLC

MCAbout == "a" :> {"o1"} @@ "b" :> {} @@ "c" :> {"o2"}
MCVersions == "a" :> {} @@ "b" :> {"v1"} @@ "c" :> {"v1", "v2"}
MCFaces == "a" :> {"rule"} @@ "b" :> {"rule"} @@ "c" :> {"order", "rule"}
MCWindow == "v1" :> {"d1"} @@ "v2" :> {"d2"}
MCSigned == "o1" :> "d1" @@ "o2" :> "none"
MCFaceOrder == <<"order", "rule">>

=============================================================================
