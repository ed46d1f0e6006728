------------------------------ MODULE Retrieval ------------------------------
(***************************************************************************)
(* One call of query_faq (app/tools/builtin.py) through the retrieval       *)
(* service (app/retrieval.py) with the strategy that it and every node of   *)
(* the graph pass, hybrid_rerank: candidates from both indexes, those that  *)
(* contradict the scope removed, a rerank, a slate that keeps places for    *)
(* the facets of the question (app/evidence_slate.py), the judge or the     *)
(* score gate, and the rows that are shown.  The rows are read three times, *)
(* and builds change them in between.                                       *)
(*                                                                         *)
(* A chunk is an id with fixed contents: builds never write a row in place. *)
(* What a query says is the facets it asks for and the scope it is given.   *)
(***************************************************************************)
EXTENDS Integers, Sequences, FiniteSets, SequencesExt, Subsequences

CONSTANTS
  ChunkId,    \* ids of knowledge_chunks
  About,      \* the orders a chunk names
  Versions,   \* the policy versions in its section path
  Faces,      \* the facets it can fill
  Subject,    \* orders
  Version,    \* policy versions
  Day,        \* dates
  Window,     \* the days on which a version holds; none for some
  SignedOn,   \* the day an order was signed, or "none"
  FaceOrder,  \* the facets in the order of the rules
  TopK,       \* rerank_top_k
  Pool,       \* retrieval_rerank_pool_k
  JudgeTop,   \* evidence_entailment_top_n
  MaxEdits    \* bound: changes of the knowledge base during the call

ASSUME RetrievalAssumption ==
  /\ {TopK, Pool, JudgeTop, MaxEdits} \subseteq Nat
  /\ TopK > 0 /\ Pool >= TopK /\ JudgeTop > 0
  /\ "none" \notin Subject \cup Version \cup Day
  /\ IsFiniteSet(ChunkId)
  /\ About \in [ChunkId -> SUBSET Subject]
  /\ Versions \in [ChunkId -> SUBSET Version]
  /\ SignedOn \in [Subject -> Day \cup {"none"}]
  /\ Window \in [Version -> SUBSET Day]
  /\ FaceOrder \in Seq(Range(FaceOrder))

VARIABLES
  library,  \* where a chunk is: "new", "row", "both", "vector" or "gone"
  edits,    \* changes so far
  slate,    \* retrieval_evidence_slate_enabled
  call

retrievalVars == <<library, edits, slate, call>>

NoScope == [subject |-> "none", version |-> "none", day |-> "none"]

NoCall == [pc |-> "idle", scope |-> NoScope, asks |-> <<>>,
           filter |-> FALSE, fallback |-> FALSE, cand |-> <<>>, status |-> "not_requested",
           texts |-> {}, ranked |-> <<>>, items |-> <<>>, low |-> FALSE,
           degraded |-> FALSE, shown |-> <<>>]

Rows == {c \in ChunkId : library[c] \in {"row", "both"}}
Vectors == {c \in ChunkId : library[c] \in {"both", "vector"}}

\* get_chunks: in the order of the ids; an id without a row is skipped.
GetChunks(ids) == Only(ids, Rows)

RetrievalInit ==
  /\ library \in [ChunkId -> {"new", "both"}]
  /\ edits = 0
  /\ slate \in BOOLEAN
  /\ call = NoCall

-----------------------------------------------------------------------------
(* The scope. *)

\* policy_version_for_date: the only version that holds on the day.
VersionOn(day) ==
  IF \E v \in Version : {w \in Version : day \in Window[w]} = {v}
  THEN CHOOSE v \in Version : day \in Window[v] ELSE "none"

\* query_faq: what is known of the order decides; what the model said of version
\* and date counts only without an order.
ScopeOf(order, version, day) ==
  IF order = "none" THEN [subject |-> "none", version |-> version, day |-> day]
  ELSE [subject |-> order, version |-> VersionOn(SignedOn[order]), day |-> SignedOn[order]]

\* filter_scoped_documents: an order, a version or a date that contradicts.  A
\* chunk of several versions contradicts none.
Conflicts(c, scope) ==
  \/ scope.subject # "none" /\ About[c] # {} /\ scope.subject \notin About[c]
  \/ \E v \in Version :
       /\ Versions[c] = {v}
       /\ \/ scope.version # "none" /\ scope.version # v
          \/ scope.day # "none" /\ Window[v] # {} /\ scope.day \notin Window[v]

Explicit(c) == About[c] # {} \/ Versions[c] # {}

Status(kept, all) ==
  CASE kept = {}                       -> "empty"
    [] kept # {} /\ kept # all         -> "partial"
    [] kept # {} /\ kept = all /\ (\E c \in kept : Explicit(c)) -> "verified"
    [] OTHER                           -> "unknown"

-----------------------------------------------------------------------------
(* The slate. *)

\* best and add: the first in the rank that fills the facet and is not taken.
Place(taken, face, ordered) ==
  LET fits == Only(ordered, {c \in ChunkId : face \in Faces[c] /\ c \notin Range(taken)})
  IN  IF fits = <<>> THEN taken ELSE Append(taken, fits[1])

FirstOf(s, n) == SubSeq(s, 1, Min({n, Len(s)}))
Without(s, S) == Only(s, ChunkId \ S)

\* MUTATED: the facets take what the rank has left over.
RankFirst(asks, ordered) ==
  LET first == FirstOf(ordered, TopK)
      places == FoldLeft(LAMBDA taken, face : Place(taken, face, ordered), first, asks)
  IN  FirstOf(places, TopK)

\* select_evidence_slate.
SelectSlate(asks, ordered) ==
  LET placed[n \in 0 .. Len(asks)] ==
        IF n = 0 THEN <<>> ELSE Place(placed[n - 1], asks[n], ordered)
      places == placed[Len(asks)]
  IN  FirstOf(places \o Without(ordered, Range(places)), TopK)

-----------------------------------------------------------------------------
(* The call. *)

\* prepare_query, and the scope that query_faq makes of its arguments.
Ask ==
  /\ call.pc = "idle"
  /\ \E order \in Subject \cup {"none"}, version \in Version \cup {"none"},
        day \in Day \cup {"none"}, filter \in BOOLEAN,
        asks \in {Only(FaceOrder, S) : S \in SUBSET Range(FaceOrder)} :
       /\ order # "none" => version = "none" /\ day = "none"
       /\ call' = [NoCall EXCEPT !.pc = "recall", !.filter = filter, !.asks = asks,
                                 !.scope = ScopeOf(order, version, day)]
  /\ UNCHANGED <<library, edits, slate>>

\* A filtered search that finds nothing or fails is repeated without the filter.
Recall ==
  /\ call.pc = "recall"
  /\ \E S \in SUBSET Vectors : \E cand \in SetToSeqs(S), fallback \in BOOLEAN :
       /\ fallback => call.filter
       /\ cand = <<>> /\ call.filter => fallback
       /\ call' = [call EXCEPT !.pc = "scope", !.cand = cand, !.fallback = fallback]
  /\ UNCHANGED <<library, edits, slate>>

\* MUTATED: a scope that nothing is left in is given up.
GivesUpScope(kept) ==
  [call EXCEPT !.pc = "texts", !.cand = IF kept = <<>> THEN @ ELSE kept]

\* Nothing left in scope is an answer with no evidence.
Scoped(kept) ==
  IF kept = <<>> THEN [call EXCEPT !.pc = "answer", !.cand = <<>>, !.low = TRUE]
  ELSE [call EXCEPT !.pc = "texts", !.cand = kept]

\* apply_scope.
ApplyScope ==
  /\ call.pc = "scope"
  /\ \/ /\ call.scope = NoScope
        /\ call' = Scoped(call.cand)
     \/ /\ call.scope # NoScope
        /\ LET rows == GetChunks(call.cand)
               kept == Only(rows, {c \in ChunkId : ~Conflicts(c, call.scope)})
           IN  call' = [Scoped(kept) EXCEPT !.status = Status(Range(kept), Range(rows))]
  /\ UNCHANGED <<library, edits, slate>>

\* The texts for the reranker; one that is gone is ranked by an empty text.
ReadTexts ==
  /\ call.pc = "texts"
  /\ call' = [call EXCEPT !.pc = "rank", !.texts = Range(GetChunks(call.cand))]
  /\ UNCHANGED <<library, edits, slate>>

\* No reranker, or it fails: the order of the search, for diagnosis only.
RankFails ==
  /\ call.pc = "rank"
  /\ call' = [call EXCEPT !.pc = "answer", !.items = FirstOf(call.cand, TopK), !.cand = <<>>,
                          !.low = TRUE, !.degraded = TRUE]
  /\ UNCHANGED <<library, edits, slate>>

Ranked(ranked) ==
  IF ranked = <<>> THEN [call EXCEPT !.pc = "answer", !.cand = <<>>, !.low = TRUE]
  ELSE [call EXCEPT !.pc = "judge", !.cand = <<>>, !.ranked = ranked,
          !.items = IF slate THEN SelectSlate(call.asks, Only(ranked, call.texts))
                    ELSE FirstOf(ranked, TopK)]

Rerank ==
  /\ call.pc = "rank"
  /\ \E S \in SUBSET Range(call.cand) : \E ranked \in SetToSeqs(S) :
       /\ Len(ranked) <= IF slate THEN Pool ELSE TopK
       /\ call' = Ranked(ranked)
  /\ UNCHANGED <<library, edits, slate>>

\* The judge is asked about the texts of the first items, if there are any; the
\* scores decide where it says nothing.  Empty items never pass the gate.
Judge ==
  /\ call.pc = "judge"
  /\ \E verdict \in {"yes", "no", "none"}, passed \in BOOLEAN :
       /\ verdict # "none" => Range(FirstOf(call.items, JudgeTop)) \cap call.texts # {}
       /\ passed => call.items # <<>>
       /\ call' = [call EXCEPT !.pc = "answer",
                     !.low = (verdict = "no" \/ (verdict = "none" /\ ~passed))]
  /\ UNCHANGED <<library, edits, slate>>

\* zip of the visible items and their rows: query_faq, and in the same words
\* retrieve_node and agentic_retrieve_node.
Zipped(visible) ==
  [i \in DOMAIN GetChunks(visible) |-> [item |-> visible[i], row |-> GetChunks(visible)[i]]]

\* What query_faq makes of it.
Show ==
  /\ call.pc = "answer"
  /\ LET visible == IF call.low THEN <<>> ELSE call.items IN
       call' = [call EXCEPT !.pc = "shown", !.texts = {}, !.ranked = <<>>,
                            !.shown = Zipped(visible)]
  /\ UNCHANGED <<library, edits, slate>>

\* An exception, a budget that is exceeded included: no evidence.
Fail ==
  /\ call.pc \notin {"idle", "shown"}
  /\ call' = [NoCall EXCEPT !.pc = "shown", !.low = TRUE]
  /\ UNCHANGED <<library, edits, slate>>

-----------------------------------------------------------------------------
(* What builds and reviews do to a chunk meanwhile: see KnowledgeFlywheel.    *)

Edit ==
  /\ edits < MaxEdits
  /\ call.pc \notin {"idle", "shown"}
  /\ edits' = edits + 1
  /\ \E c \in ChunkId, to \in {"row", "both", "vector", "gone"} :
       /\ <<library[c], to>> \in {<<"new", "row">>, <<"row", "both">>, <<"row", "gone">>,
                                  <<"both", "vector">>, <<"vector", "gone">>}
       /\ library' = [library EXCEPT ![c] = to]
  /\ UNCHANGED <<slate, call>>

RetrievalNext ==
  \/ Ask \/ Recall \/ ApplyScope \/ ReadTexts \/ RankFails \/ Rerank \/ Judge \/ Show
  \/ Fail \/ Edit

RetrievalSpec == RetrievalInit /\ [][RetrievalNext]_retrievalVars

-----------------------------------------------------------------------------
(* Properties. *)

\* No row that is shown contradicts the order, the policy version or the date
\* that the question is about, whatever disappears between the three reads and
\* although rows may be shown beside another item's id (retrieval.py:523-565,
\* builtin.py:112-124).
ShownIsInScope ==
  \A i \in DOMAIN call.shown : ~Conflicts(call.shown[i].row, call.scope)

\* Each item is shown with its own row.  builtin.py:115 says that n is the rank the
\* reranker gave and that [1] is always the strongest evidence; the text under
\* [n] is then that of the item ranked n.
EvidenceIsPaired == \A i \in DOMAIN call.shown : call.shown[i].item = call.shown[i].row

\* A facet that the question asks for and that a ranked chunk can fill is filled
\* in the slate, if there are places for all of them (evidence_slate.py:45-48).
FacetsSurvive ==
  call.pc = "judge" /\ slate /\ Len(call.asks) <= TopK =>
    \A face \in Range(call.asks) :
      (\E c \in Range(call.ranked) \cap call.texts : face \in Faces[c]) =>
        \E c \in Range(call.items) : face \in Faces[c]

=============================================================================
