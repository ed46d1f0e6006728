-------------------------- MODULE KnowledgeFlywheel --------------------------
(***************************************************************************)
(* The knowledge base and those who write it (app/flywheel.py, app/kb.py,  *)
(* app/vector_store.py, scripts/build_kb.py, scripts/mine_qa.py): review   *)
(* approvals, document builds and the mining of old conversations each     *)
(* write rows of knowledge_chunks and then vectors into Milvus, in         *)
(* transactions of their own and in processes of their own.  The module    *)
(* Retrieval has the questions that are answered from both meanwhile.      *)
(*                                                                         *)
(* A writer is one request or one script run.  A chunk's text is the       *)
(* answer it holds; what is asked, how often, and how similar texts are    *)
(* are left out: the deduplication of captured questions and of mined      *)
(* pairs may go either way.                                                *)
(***************************************************************************)
EXTENDS Integers, Sequences, FiniteSets, SequencesExt

CONSTANTS
  Writer,      \* requests and builds that may be under way together
  Miner,       \* the hourly run of mine_qa, one at a time
  Review,      \* ids of review_queue
  Solution,      \* answers an operator may approve
  Talk,        \* conversations with one pair to mine
  MaxChunks,   \* bound: ids of knowledge_chunks ever given out
  DocChunks,   \* chunks of the document that builds write
  Batch,       \* batch_size of vectorize_pending (16 in the source)
  MaxStops   \* bound: writers that die or fail

ASSUME SizesAssumption ==
  /\ MaxChunks \in Nat
  /\ DocChunks \in Nat
  /\ Batch \in Nat \ {0}
  /\ MaxStops \in Nat
ASSUME ReviewAssumption == Review \subseteq Nat \ {0}
ASSUME NameAssumption ==
  /\ {"none", "doc", "mined"} \cap Solution = {}
  /\ IsFiniteSet(Talk) /\ "none" \notin Talk
  /\ Miner \notin Writer

VARIABLES
  reviews,    \* review_queue
  chunks,     \* knowledge_chunks by id; an id is never given out again
  last,       \* the last id given out
  vectors,    \* ids in the Milvus collection
  talks,      \* qa_extraction_staging, one row per conversation
  work,        \* what each writer is doing
  stops     \* writers that died or failed so far

knowledgeVars == <<reviews, chunks, last, vectors, talks, work, stops>>

ChunkId == 1 .. MaxChunks
Runner == Writer \cup {Miner}

\* Bound: what others take leaves room for the pairs still to be mined.
Room(n) ==
  last + n + Cardinality({t \in Talk : talks[t] # "discarded"
                            /\ \A c \in ChunkId : chunks[c].talk # t}) <= MaxChunks

\* text |-> "none" is an id not given out, or a row deleted.
NoChunk == [text |-> "none", review |-> 0, talk |-> "none", status |-> "none"]
Live(c) == chunks[c].text # "none"
ChunkOf(r) == {c \in ChunkId : Live(c) /\ chunks[c].review = r}
DocRows == {c \in ChunkId : chunks[c].text = "doc"}

NoWork == [op |-> "none", pc |-> "idle", review |-> 0, answer |-> "none",
         saw |-> "none", own |-> {}, ids |-> {}]

Does(w, pc) == work[w].pc = pc
Go(w, pc) == work' = [work EXCEPT ![w].pc = pc]
Quit(w) == work' = [work EXCEPT ![w] = NoWork]
Begun(w, op, pc) == [NoWork EXCEPT !.op = op, !.pc = pc]

KnowledgeInit ==
  /\ reviews = [r \in Review |-> [status |-> "none", answer |-> "none"]]
  /\ chunks = [c \in ChunkId |-> NoChunk]
  /\ last = 0
  /\ vectors = {}
  /\ talks = [t \in Talk |-> "new"]
  /\ work = [w \in Runner |-> NoWork]
  /\ stops = 0

-----------------------------------------------------------------------------
(* The review queue. *)

\* A question nobody could answer makes a row, unless the deduplication finds
\* one that is open: then only its count changes.
Capture(r) ==
  /\ reviews[r].status = "none"
  /\ reviews' = [reviews EXCEPT ![r].status = "open"]
  /\ UNCHANGED <<chunks, last, vectors, talks, work, stops>>

\* _save_approval reads the review and its chunk.  Another answer is refused
\* here.  FOR UPDATE is left out: SQLite ignores it, MySQL only takes steps away
\* from what is shown here, and the unique constraint is to hold without it.
ApproveRead(w, r, a) ==
  /\ Does(w, "idle")
  /\ reviews[r].status # "none"
  /\ \A c \in ChunkOf(r) : chunks[c].text = a
  /\ work' = [work EXCEPT ![w] = [Begun(w, "approve", "save") EXCEPT
               !.review = r, !.answer = a, !.saw = reviews[r].status,
               !.own = ChunkOf(r)]]
  /\ UNCHANGED <<reviews, chunks, last, vectors, talks, stops>>

\* The flush writes the status only if it is not the one that was read.
Approved(w) ==
  [status |-> IF work[w].saw = "approved" THEN reviews[work[w].review].status
              ELSE "approved",
   answer |-> work[w].answer]

ReviewRow(w) ==
  [text |-> work[w].answer, review |-> work[w].review, talk |-> "none",
   status |-> "pending"]

\* The chunk was there when it was read.
ApproveAgain(w) ==
  /\ Does(w, "save")
  /\ work[w].own # {}
  /\ reviews' = [reviews EXCEPT ![work[w].review] = Approved(w)]
  /\ Go(w, "index")
  /\ UNCHANGED <<chunks, last, vectors, talks, stops>>

ApproveFirst(w) ==
  /\ Does(w, "save")
  /\ work[w].own = {}
  /\ ChunkOf(work[w].review) = {}
  /\ Room(1)
  /\ reviews' = [reviews EXCEPT ![work[w].review] = Approved(w)]
  /\ chunks' = [chunks EXCEPT ![last + 1] = ReviewRow(w)]
  /\ last' = last + 1
  /\ work' = [work EXCEPT ![w].pc = "index", ![w].own = {last + 1}]
  /\ UNCHANGED <<vectors, talks, stops>>

\* uk_knowledge_review: somebody else inserted it since.  The transaction is
\* rolled back.
Duplicate(w) == work[w].own = {} /\ ChunkOf(work[w].review) # {}

ApproveRefused(w) ==
  /\ Does(w, "save")
  /\ Duplicate(w)
  /\ Go(w, "reread")
  /\ UNCHANGED <<reviews, chunks, last, vectors, talks, stops>>

\* MUTATED: whatever the other's chunk says.
TakesAnyAnswer(w) == TRUE

\* The handler of IntegrityError takes the other's chunk if it says the same.
SameAnswer(w) == \A c \in ChunkOf(work[w].review) : chunks[c].text = work[w].answer

ApproveReread(w) ==
  /\ Does(w, "reread")
  /\ \/ /\ SameAnswer(w)
        /\ work' = [work EXCEPT ![w].pc = "index", ![w].own = ChunkOf(work[w].review)]
     \/ /\ ~SameAnswer(w)
        /\ Quit(w)
  /\ UNCHANGED <<reviews, chunks, last, vectors, talks, stops>>

RetryIndex(w, r) ==
  /\ Does(w, "idle")
  /\ reviews[r].status = "approved"
  /\ ChunkOf(r) # {}
  /\ work' = [work EXCEPT ![w] = [Begun(w, "retry", "index") EXCEPT !.own = ChunkOf(r)]]
  /\ UNCHANGED <<reviews, chunks, last, vectors, talks, stops>>

\* Whatever the status is.
Reject(r) ==
  /\ reviews[r].status \notin {"none", "rejected"}
  /\ reviews' = [reviews EXCEPT ![r].status = "rejected"]
  /\ UNCHANGED <<chunks, last, vectors, talks, work, stops>>

-----------------------------------------------------------------------------
(* Indexing: vectorize_pending, of one chunk after a review and of all that *)
(* are pending after a build or a mining run.                               *)

\* _try_index returns at once when the chunk is done.
TryIndex(w) ==
  /\ Does(w, "index")
  /\ \/ /\ \A c \in work[w].own : chunks[c].status = "done"
        /\ Quit(w)
     \/ /\ \E c \in work[w].own : chunks[c].status # "done"
        /\ Go(w, "pending")
  /\ UNCHANGED <<reviews, chunks, last, vectors, talks, stops>>

\* A review indexes its own chunk, a script whatever is pending.
PendingChunks(w) ==
  {c \in ChunkId : /\ chunks[c].status = "pending"
                   /\ work[w].op \in {"approve", "retry"} => c \in work[w].own}

FirstOf(S) == {c \in S : Cardinality({d \in S : d < c}) < Batch}

\* The top of the loop; build stops here when --max-chunks are done.
ReadPending(w) ==
  /\ Does(w, "pending")
  /\ \/ /\ PendingChunks(w) # {}
        /\ work' = [work EXCEPT ![w].pc = "upsert", ![w].ids = FirstOf(PendingChunks(w))]
     \/ /\ PendingChunks(w) = {} \/ work[w].op = "build"
        /\ Quit(w)
  /\ UNCHANGED <<reviews, chunks, last, vectors, talks, stops>>

Upsert(w) ==
  /\ Does(w, "upsert")
  /\ vectors' = vectors \cup work[w].ids
  /\ Go(w, "mark")
  /\ UNCHANGED <<reviews, chunks, last, talks, stops>>

\* MUTATED: one UPDATE of all that is pending.
MarkAllPending(w) ==
  /\ Does(w, "mark")
  /\ chunks' = [c \in ChunkId |->
                  IF chunks[c].status = "pending"
                  THEN [chunks[c] EXCEPT !.status = "done"] ELSE chunks[c]]
  /\ work' = [work EXCEPT ![w].pc = "pending", ![w].ids = {}]
  /\ UNCHANGED <<reviews, last, vectors, talks, stops>>

\* A row that is gone is skipped.
MarkVectorized(w) ==
  /\ Does(w, "mark")
  /\ chunks' = [c \in ChunkId |->
                  IF c \in work[w].ids /\ Live(c)
                  THEN [chunks[c] EXCEPT !.status = "done"] ELSE chunks[c]]
  /\ work' = [work EXCEPT ![w].pc = "pending", ![w].ids = {}]
  /\ UNCHANGED <<reviews, last, vectors, talks, stops>>

-----------------------------------------------------------------------------
(* Builds: replace the rows of the document, delete their vectors, index.   *)

NewIds == last + 1 .. last + DocChunks

ReplaceDocChunks(w) ==
  /\ Does(w, "idle")
  /\ Room(DocChunks)
  /\ chunks' = [c \in ChunkId |->
                  CASE c \in DocRows -> NoChunk
                    [] c \in NewIds -> [text |-> "doc", review |-> 0, talk |-> "none",
                                        status |-> "pending"]
                    [] OTHER -> chunks[c]]
  /\ last' = last + DocChunks
  /\ work' = [work EXCEPT ![w] = [Begun(w, "build", "sweep") EXCEPT !.ids = DocRows]]
  /\ UNCHANGED <<reviews, vectors, talks, stops>>

DeleteOldVectors(w) ==
  /\ Does(w, "sweep")
  /\ vectors' = vectors \ work[w].ids
  /\ work' = [work EXCEPT ![w].pc = "pending", ![w].ids = {}]
  /\ UNCHANGED <<reviews, chunks, last, talks, stops>>

\* --resume-only.
ResumeBuild(w) ==
  /\ Does(w, "idle")
  /\ work' = [work EXCEPT ![w] = Begun(w, "build", "pending")]
  /\ UNCHANGED <<reviews, chunks, last, vectors, talks, stops>>

-----------------------------------------------------------------------------
(* Mining: stage the pairs of new conversations, decide about all that are  *)
(* staged, mark the decisions, insert what was kept, index.                 *)

StartMining ==
  /\ Does(Miner, "idle")
  /\ work' = [work EXCEPT ![Miner] = Begun(Miner, "mine", "stage")]
  /\ UNCHANGED <<reviews, chunks, last, vectors, talks, stops>>

InsertStaging(t) ==
  /\ Does(Miner, "stage")
  /\ talks[t] = "new"
  /\ talks' = [talks EXCEPT ![t] = "extracted"]
  /\ UNCHANGED <<reviews, chunks, last, vectors, work, stops>>

\* MUTATED: what an earlier run kept is taken up again, in case it was lost.
KeptOrExtracted == {t \in Talk : talks[t] \in {"extracted", "kept"}}

Extracted == {t \in Talk : talks[t] = "extracted"}

\* The batch is over: own is what the similarity to the library and to the
\* other pairs lets it keep, ids the rest.
Deduplicate ==
  /\ Does(Miner, "stage")
  /\ \E kept \in SUBSET Extracted :
       work' = [work EXCEPT ![Miner].pc = "keep", ![Miner].own = kept,
                          ![Miner].ids = Extracted \ kept]
  /\ UNCHANGED <<reviews, chunks, last, vectors, talks, stops>>

MarkStaged(T, status) ==
  talks' = [t \in Talk |-> IF t \in T THEN status ELSE talks[t]]

MarkKept ==
  /\ Does(Miner, "keep")
  /\ MarkStaged(work[Miner].own, "kept")
  /\ Go(Miner, "discard")
  /\ UNCHANGED <<reviews, chunks, last, vectors, stops>>

MarkDiscarded ==
  /\ Does(Miner, "discard")
  /\ MarkStaged(work[Miner].ids, "discarded")
  /\ Go(Miner, "insert")
  /\ UNCHANGED <<reviews, chunks, last, vectors, stops>>

MinedRow(t) == [text |-> "mined", review |-> 0, talk |-> t, status |-> "pending"]

InsertMinedChunks ==
  /\ Does(Miner, "insert")
  /\ LET kept == SetToSeq(work[Miner].own) IN
       /\ last + Len(kept) <= MaxChunks
       /\ chunks' = [c \in ChunkId |->
                       IF c - last \in DOMAIN kept THEN MinedRow(kept[c - last])
                       ELSE chunks[c]]
       /\ last' = last + Len(kept)
  /\ work' = [work EXCEPT ![Miner].pc = "pending", ![Miner].own = {}, ![Miner].ids = {}]
  /\ UNCHANGED <<reviews, vectors, talks, stops>>

-----------------------------------------------------------------------------
\* A call to the model, the embedder, Milvus or the database fails, or the
\* process ends.  Approvals and retries answer although the index failed.
Abandon(w) ==
  /\ ~Does(w, "idle")
  /\ stops < MaxStops
  /\ stops' = stops + 1
  /\ Quit(w)
  /\ UNCHANGED <<reviews, chunks, last, vectors, talks>>

Index(w) == TryIndex(w) \/ ReadPending(w) \/ Upsert(w) \/ MarkVectorized(w)

MineNext ==
  \/ \E t \in Talk : InsertStaging(t)
  \/ Deduplicate \/ MarkKept \/ MarkDiscarded \/ InsertMinedChunks

KnowledgeNext ==
  \/ \E r \in Review : Capture(r) \/ Reject(r)
  \/ \E w \in Writer :
       \/ \E r \in Review, a \in Solution : ApproveRead(w, r, a)
       \/ \E r \in Review : RetryIndex(w, r)
       \/ ApproveAgain(w) \/ ApproveFirst(w) \/ ApproveRefused(w) \/ ApproveReread(w)
       \/ ReplaceDocChunks(w) \/ DeleteOldVectors(w) \/ ResumeBuild(w)
  \/ StartMining \/ MineNext
  \/ \E w \in Runner : Index(w) \/ Abandon(w)

KnowledgeSpec == KnowledgeInit /\ [][KnowledgeNext]_knowledgeVars

-----------------------------------------------------------------------------
(* Properties. *)

\* Type correctness.
KnowledgeTypeOK ==
  /\ reviews \in [Review -> [status : {"none", "open", "approved", "rejected"},
                             answer : Solution \cup {"none"}]]
  /\ chunks \in [ChunkId -> [text : Solution \cup {"none", "doc", "mined"},
                             review : Review \cup {0}, talk : Talk \cup {"none"},
                             status : {"none", "pending", "done"}]]
  /\ last \in 0 .. MaxChunks
  /\ vectors \subseteq ChunkId
  /\ talks \in [Talk -> {"new", "extracted", "kept", "discarded"}]

\* What an operator approved is what the knowledge base says, once: a review
\* with an approved answer has one chunk and it holds that answer, and a
\* request that is past the commit, by whichever of the three ways, works on
\* the chunk that holds the answer it sent (flywheel.py:146-191).
ApprovalHolds ==
  /\ \A r \in Review : reviews[r].answer # "none" =>
       \E c \in ChunkId : ChunkOf(r) = {c} /\ chunks[c].text = reviews[r].answer
  /\ \A w \in Writer : work[w].op = "approve" /\ work[w].own # {} =>
       \A c \in work[w].own : chunks[c].text = work[w].answer

\* A chunk marked done is in the vector store, whatever was replaced, deleted
\* or interrupted in between: nothing else would index it again (kb.py:188-210,
\* build_kb.py:142-147).
DoneIsSearchable ==
  \A c \in ChunkId : chunks[c].status = "done" => c \in vectors

\* The pair of a conversation becomes knowledge at most once, although a run
\* may end between any two of its transactions and the next one starts over
\* (mine_qa.py:97-108).
MinedOnce ==
  \A t \in Talk : Cardinality({c \in ChunkId : chunks[c].talk = t}) <= 1

=============================================================================
