-------------------------- MODULE KnowledgeProofs ---------------------------
(***************************************************************************)
(* Proofs about the knowledge base and the caches of what is found in it.  *)
(*                                                                         *)
(* KnowledgeFlywheel: for any number of writers, reviews and               *)
(* conversations and with a stop between any two steps, an approved review *)
(* has the one chunk with its answer, a chunk that is done is searchable,  *)
(* and a conversation becomes knowledge at most once.                      *)
(*                                                                         *)
(* RetrievalCache: for any numbers of threads, keys and calls a key is     *)
(* asked for by one thread at a time, and a flight that somebody waits for *)
(* is never lost.                                                          *)
(***************************************************************************)
EXTENDS KnowledgeFlywheel, RetrievalCache, FiniteSetTheorems, WellFoundedInduction, TLAPS

-----------------------------------------------------------------------------
(* The rows of the knowledge base.                                         *)

ReviewStatus == {"none", "open", "approved", "rejected"}
Text == Solution \cup {"none", "doc", "mined"}
RowReview == Review \cup {0}
RowTalk == Talk \cup {"none"}
ChunkStatus == {"none", "pending", "done"}
Chunk == [text : Text, review : RowReview, talk : RowTalk, status : ChunkStatus]

WorkOp == {"none", "approve", "retry", "build", "mine"}
WorkPc == {"idle", "save", "index", "reread", "pending", "upsert", "mark", "sweep",
           "stage", "keep", "discard", "insert"}
GivenAnswer == Solution \cup {"none"}
Things == SUBSET (ChunkId \cup Talk)
Work == [op : WorkOp, pc : WorkPc, review : RowReview, answer : GivenAnswer,
         saw : ReviewStatus, own : Things, ids : Things]

\* Ids that were not given out have no row, a row that is deleted leaves nothing;
\* a review's row holds an answer, a conversation's a mined pair.
RowsOK ==
  /\ \A c \in ChunkId : ~Live(c) => chunks[c] = NoChunk
  /\ \A c \in ChunkId : Live(c) => c <= last
  /\ \A c \in ChunkId : chunks[c].review # 0 => chunks[c].text \in Solution
  /\ \A c \in ChunkId : chunks[c].talk # "none" => chunks[c].text = "mined"

OneRowOfReview ==
  \A c, d \in ChunkId : chunks[c].review = chunks[d].review /\ chunks[c].review # 0 => c = d
OneRowOfTalk ==
  \A c, d \in ChunkId : chunks[c].talk = chunks[d].talk /\ chunks[c].talk # "none" => c = d

\* What is true of a writer between two of its steps.
Indexes(w) ==
  /\ work[w].pc \in {"upsert", "mark", "sweep"} => \A c \in work[w].ids : c \in ChunkId /\ c <= last
  /\ work[w].pc = "mark" => \A c \in work[w].ids : Live(c) => c \in vectors
  /\ work[w].pc = "sweep" => \A c \in work[w].ids : ~Live(c)

Approves(w) ==
  /\ w \in Writer /\ work[w].pc \in {"save", "reread"} => work[w].op = "approve"
  /\ w \in Writer /\ work[w].op = "approve" =>
       /\ work[w].review \in Review /\ work[w].answer \in Solution
       /\ work[w].own # {} => /\ work[w].own = ChunkOf(work[w].review)
                              /\ \A c \in work[w].own : chunks[c].text = work[w].answer

\* What the run of mine_qa has in hand is not in the knowledge base.
Mines ==
  /\ \A w \in Writer : work[w].pc \notin {"stage", "keep", "discard", "insert"}
  /\ work[Miner].pc \in {"keep", "discard", "insert"} =>
       \A t \in work[Miner].own : t \in Talk /\ \A c \in ChunkId : chunks[c].talk # t
  /\ work[Miner].pc = "keep" => work[Miner].own \subseteq Extracted
  /\ work[Miner].pc \in {"keep", "discard"} => work[Miner].ids \subseteq Extracted
  /\ work[Miner].pc = "keep" => work[Miner].ids \cap work[Miner].own = {}
  /\ work[Miner].pc \in {"discard", "insert"} =>
       \A t \in work[Miner].own : talks[t] = "kept"

MinedIsKept ==
  \A c \in ChunkId : chunks[c].talk # "none" => talks[chunks[c].talk] = "kept"

AnswersHold ==
  \A r \in Review : reviews[r].answer # "none" =>
    \E c \in ChunkId : ChunkOf(r) = {c} /\ chunks[c].text = reviews[r].answer

KnowledgeInv ==
  /\ KnowledgeTypeOK /\ work \in [Runner -> Work]
  /\ RowsOK /\ OneRowOfReview /\ OneRowOfTalk
  /\ \A w \in Runner : Indexes(w) /\ Approves(w)
  /\ Mines /\ MinedIsKept
  /\ AnswersHold
  /\ DoneIsSearchable

-----------------------------------------------------------------------------
(* What a step does to the rows: what is there stays what it is, or is a   *)
(* row of the document that is replaced.                                   *)

SameRow(c) ==
  /\ chunks'[c].text = chunks[c].text /\ chunks'[c].review = chunks[c].review
  /\ chunks'[c].talk = chunks[c].talk

RowsStay ==
  /\ chunks' \in [ChunkId -> Chunk]
  /\ last' \in 0 .. MaxChunks /\ last <= last'
  /\ \A c \in ChunkId : c <= last => SameRow(c) \/ (chunks[c].text = "doc" /\ chunks'[c] = NoChunk)
  /\ RowsOK' /\ OneRowOfReview' /\ OneRowOfTalk'

\* Only vectors without a row are deleted.
VectorsStay == \A c \in vectors : Live(c) => c \in vectors'

LEMMA Types ==
  ASSUME KnowledgeInv
  PROVE  /\ chunks \in [ChunkId -> Chunk] /\ last \in 0 .. MaxChunks
         /\ work \in [Runner -> Work]
         /\ Miner \in Runner /\ Writer \subseteq Runner
         /\ \A c \in ChunkId : chunks[c].review \in RowReview /\ chunks[c].talk \in RowTalk
  BY DEF KnowledgeInv, KnowledgeTypeOK, Chunk, Text, RowReview, RowTalk, ChunkStatus, Runner

LEMMA NothingMoves ==
  ASSUME KnowledgeInv, UNCHANGED <<chunks, last>>
  PROVE  RowsStay
  BY Types DEF RowsStay, SameRow, KnowledgeInv, RowsOK, OneRowOfReview, OneRowOfTalk, Live

\* The row of a review stays the one.
LEMMA ReviewRowStays ==
  ASSUME KnowledgeInv, RowsStay, NEW r \in Review, ChunkOf(r) # {}
  PROVE  ChunkOf(r)' = ChunkOf(r) /\ \A c \in ChunkOf(r) : chunks'[c].text = chunks[c].text
<1>1. r # 0
  BY ReviewAssumption
<1>2. ASSUME NEW c \in ChunkOf(r)
      PROVE  SameRow(c) /\ c \in ChunkOf(r)'
  <2>1. c \in ChunkId /\ Live(c) /\ chunks[c].review = r
    BY DEF ChunkOf
  <2>2. c <= last /\ chunks[c].text \in Solution
    BY <1>1, <2>1 DEF KnowledgeInv, RowsOK
  <2>3. chunks[c].text # "doc"
    BY <2>2, NameAssumption
  <2>4. SameRow(c)
    BY <2>1, <2>2, <2>3 DEF RowsStay
  <2> QED
    BY <2>1, <2>4 DEF SameRow, ChunkOf, Live
<1>3. ASSUME NEW d \in ChunkOf(r)'
      PROVE  d \in ChunkOf(r)
  <2>1. PICK c \in ChunkOf(r) : c \in ChunkOf(r)'
    BY <1>2
  <2>2. /\ c \in ChunkId /\ d \in ChunkId
        /\ chunks'[c].review = r /\ chunks'[d].review = r
    BY <2>1 DEF ChunkOf
  <2>3. c = d
    BY <1>1, <2>2 DEF RowsStay, OneRowOfReview
  <2> QED
    BY <2>1, <2>3
<1> QED
  BY <1>2, <1>3 DEF SameRow

\* A writer that does nothing meanwhile.
LEMMA OthersStay ==
  ASSUME KnowledgeInv, RowsStay, VectorsStay, NEW w \in Runner, work'[w] = work[w]
  PROVE  Indexes(w)' /\ Approves(w)'
<1>1. \A c \in ChunkId : c <= last /\ ~Live(c) => ~Live(c)'
  <2> SUFFICES ASSUME NEW c \in ChunkId, c <= last, ~Live(c) PROVE ~Live(c)'
    OBVIOUS
  <2>1. chunks[c].text = "none"
    BY DEF Live
  <2> QED
    BY <2>1 DEF RowsStay, SameRow, Live
<1>2. Indexes(w)'
  <2>1. Indexes(w) /\ last \in Int /\ last' \in Int /\ last <= last'
    BY Types DEF KnowledgeInv, RowsStay
  <2>2. \A c \in ChunkId : c <= last => c <= last'
    BY <2>1 DEF ChunkId
  <2> QED
    BY <1>1, <2>1, <2>2 DEF Indexes, VectorsStay
<1>3. Approves(w)'
  <2>1. Approves(w)
    BY DEF KnowledgeInv
  <2>2. CASE w \in Writer /\ work[w].op = "approve" /\ work[w].own # {}
    <3>1. ChunkOf(work[w].review)' = ChunkOf(work[w].review)
          /\ \A c \in ChunkOf(work[w].review) : chunks'[c].text = chunks[c].text
      BY <2>1, <2>2, ReviewRowStays DEF Approves
    <3> QED
      BY <2>1, <2>2, <3>1 DEF Approves, ChunkOf, Live
  <2>3. CASE ~(w \in Writer /\ work[w].op = "approve" /\ work[w].own # {})
    BY <2>1, <2>3 DEF Approves
  <2> QED
    BY <2>2, <2>3
<1> QED
  BY <1>2, <1>3

LEMMA AnswersStay ==
  ASSUME KnowledgeInv, RowsStay, NEW r \in Review, reviews'[r].answer = reviews[r].answer,
         reviews'[r].answer # "none"
  PROVE  \E c \in ChunkId : ChunkOf(r)' = {c} /\ chunks'[c].text = reviews'[r].answer
<1>1. PICK c \in ChunkId : ChunkOf(r) = {c} /\ chunks[c].text = reviews[r].answer
  BY DEF KnowledgeInv, AnswersHold
<1> QED
  BY <1>1, ReviewRowStays

-----------------------------------------------------------------------------
(* What the steps make of a writer's record.                               *)

MiningPc == {"stage", "keep", "discard", "insert"}

LEMMA NoWorkType == NoWork \in Work /\ NoWork.op = "none" /\ NoWork.pc = "idle"
  BY DEF NoWork, Work, WorkOp, WorkPc, RowReview, GivenAnswer, ReviewStatus, Things

LEMMA BegunType ==
  ASSUME NEW w, NEW op \in WorkOp, NEW pc \in WorkPc
  PROVE  /\ Begun(w, op, pc) \in Work
         /\ Begun(w, op, pc).op = op /\ Begun(w, op, pc).pc = pc
         /\ Begun(w, op, pc).own = {} /\ Begun(w, op, pc).ids = {}
  BY DEF Begun, NoWork, Work, WorkOp, WorkPc, RowReview, GivenAnswer, ReviewStatus, Things

\* Records of the forms the actions give them.
LEMMA Moved ==
  ASSUME NEW t \in Work, NEW pc \in WorkPc
  PROVE  /\ [t EXCEPT !.pc = pc] \in Work
         /\ [t EXCEPT !.pc = pc].pc = pc
         /\ [t EXCEPT !.pc = pc].own = t.own /\ [t EXCEPT !.pc = pc].ids = t.ids
         /\ [t EXCEPT !.pc = pc].op = t.op /\ [t EXCEPT !.pc = pc].review = t.review
         /\ [t EXCEPT !.pc = pc].answer = t.answer
  BY DEF Work

WithOwn(t, pc, own) == [t EXCEPT !.pc = pc, !.own = own]
WithIds(t, pc, ids) == [t EXCEPT !.pc = pc, !.ids = ids]
WithBoth(t, pc, own, ids) == [t EXCEPT !.pc = pc, !.own = own, !.ids = ids]

LEMMA MovedOwn ==
  ASSUME NEW t \in Work, NEW pc \in WorkPc, NEW own \in Things
  PROVE  /\ WithOwn(t, pc, own) \in Work /\ WithOwn(t, pc, own).pc = pc
         /\ WithOwn(t, pc, own).own = own /\ WithOwn(t, pc, own).ids = t.ids
         /\ WithOwn(t, pc, own).op = t.op /\ WithOwn(t, pc, own).review = t.review
         /\ WithOwn(t, pc, own).answer = t.answer
  BY DEF Work, WithOwn

LEMMA MovedIds ==
  ASSUME NEW t \in Work, NEW pc \in WorkPc, NEW ids \in Things
  PROVE  /\ WithIds(t, pc, ids) \in Work /\ WithIds(t, pc, ids).pc = pc
         /\ WithIds(t, pc, ids).own = t.own /\ WithIds(t, pc, ids).ids = ids
         /\ WithIds(t, pc, ids).op = t.op /\ WithIds(t, pc, ids).review = t.review
         /\ WithIds(t, pc, ids).answer = t.answer
  BY DEF Work, WithIds

LEMMA MovedBoth ==
  ASSUME NEW t \in Work, NEW pc \in WorkPc, NEW own \in Things, NEW ids \in Things
  PROVE  /\ WithBoth(t, pc, own, ids) \in Work /\ WithBoth(t, pc, own, ids).pc = pc
         /\ WithBoth(t, pc, own, ids).own = own /\ WithBoth(t, pc, own, ids).ids = ids
         /\ WithBoth(t, pc, own, ids).op = t.op
  BY DEF Work, WithBoth

\* A step of one writer that leaves it with the record new.
LEMMA OneStep ==
  ASSUME KnowledgeInv, RowsStay, VectorsStay, NEW w \in Runner, NEW new \in Work,
         work' = [work EXCEPT ![w] = new],
         KnowledgeTypeOK', AnswersHold', DoneIsSearchable', Mines', MinedIsKept',
         Indexes(w)', Approves(w)'
  PROVE  KnowledgeInv'
<1>1. work \in [Runner -> Work]
  BY DEF KnowledgeInv
<1>2. work' \in [Runner -> Work] /\ \A v \in Runner : v # w => work'[v] = work[v]
  BY <1>1
<1>3. \A v \in Runner : Indexes(v)' /\ Approves(v)'
  <2> SUFFICES ASSUME NEW v \in Runner PROVE Indexes(v)' /\ Approves(v)'
    OBVIOUS
  <2>1. CASE v = w
    BY <2>1
  <2>2. CASE v # w
    BY <1>2, <2>2, OthersStay
  <2> QED
    BY <2>1, <2>2
<1> QED
  BY <1>2, <1>3 DEF KnowledgeInv, RowsStay

\* A step that is not of the run of mine_qa and adds no mined row.
LEMMA MinesStay ==
  ASSUME KnowledgeInv, NEW w \in Runner, NEW new \in Work,
         work' = [work EXCEPT ![w] = new], new.pc \notin MiningPc, talks' = talks,
         \A c \in ChunkId : chunks'[c].talk \in {chunks[c].talk, "none"}
  PROVE  Mines' /\ MinedIsKept'
<1>1. Mines /\ MinedIsKept /\ work \in [Runner -> Work]
      /\ Miner \in Runner /\ Writer \subseteq Runner
  BY Types DEF KnowledgeInv
<1>2. \A v \in Runner : work'[v].pc \notin MiningPc \/ work'[v] = work[v]
  BY <1>1
<1>3. \A t \in Talk : t # "none"
  BY NameAssumption
<1>4. \A t \in Talk : (\A c \in ChunkId : chunks[c].talk # t)
                        => \A c \in ChunkId : chunks'[c].talk # t
  BY <1>3
<1>5. Extracted' = Extracted
  BY DEF Extracted
<1>6. \A v \in Writer : work'[v].pc \notin {"stage", "keep", "discard", "insert"}
  BY <1>1, <1>2 DEF Mines, MiningPc
<1>7. CASE work'[Miner] = work[Miner]
  BY <1>1, <1>4, <1>5, <1>6, <1>7 DEF Mines, MinedIsKept
<1>8. CASE work'[Miner].pc \notin MiningPc
  BY <1>1, <1>6, <1>8 DEF Mines, MinedIsKept, MiningPc
<1> QED
  BY <1>1, <1>2, <1>7, <1>8

\* One that leaves rows, vectors and conversations alone.
LEMMA QuietStep ==
  ASSUME KnowledgeInv, NEW w \in Runner, NEW new \in Work,
         work' = [work EXCEPT ![w] = new], new.pc \notin MiningPc,
         UNCHANGED <<chunks, last, vectors, talks>>,
         KnowledgeTypeOK', AnswersHold', Indexes(w)', Approves(w)'
  PROVE  KnowledgeInv'
<1>1. RowsStay /\ VectorsStay
  BY NothingMoves DEF VectorsStay
<1>2. DoneIsSearchable' /\ MinedIsKept'
  BY DEF KnowledgeInv, DoneIsSearchable, MinedIsKept
<1>3. work \in [Runner -> Work] /\ Miner \in Runner /\ Writer \subseteq Runner
  BY Types
<1>4. Mines'
  BY <1>3 DEF KnowledgeInv, Mines, MiningPc, Extracted
<1> QED
  BY <1>1, <1>2, <1>4, OneStep

\* The reviews are as they were.
LEMMA SilentStep ==
  ASSUME KnowledgeInv, NEW w \in Runner, NEW new \in Work,
         work' = [work EXCEPT ![w] = new], new.pc \notin MiningPc,
         UNCHANGED <<reviews, chunks, last, vectors, talks>>,
         Indexes(w)', Approves(w)'
  PROVE  KnowledgeInv'
<1>1. KnowledgeTypeOK'
  BY DEF KnowledgeInv, KnowledgeTypeOK
<1>2. AnswersHold'
  BY DEF KnowledgeInv, AnswersHold, ChunkOf, Live
<1> QED
  BY <1>1, <1>2, QuietStep

-----------------------------------------------------------------------------
(* Reviews.                                                                *)

LEMMA WriterRecord ==
  ASSUME KnowledgeInv, NEW w \in Runner
  PROVE  /\ work \in [Runner -> Work] /\ work[w] \in Work
         /\ work[w].own \in Things /\ work[w].ids \in Things
         /\ Indexes(w) /\ Approves(w)
         /\ \A r : ChunkOf(r) \in Things
<1>1. work \in [Runner -> Work] /\ work[w] \in Work
  BY DEF KnowledgeInv
<1>2. work[w].own \in Things /\ work[w].ids \in Things
  BY <1>1 DEF Work
<1> QED
  BY <1>1, <1>2 DEF KnowledgeInv, ChunkOf, Things

\* No writer and no row moves.
LEMMA ReviewKeeps ==
  ASSUME KnowledgeInv, NEW r \in Review, Capture(r) \/ Reject(r)
  PROVE  KnowledgeInv'
<1>1. UNCHANGED <<chunks, last, vectors, talks, work, stops>>
  BY DEF Capture, Reject
<1>2. /\ reviews' \in [Review -> [status : ReviewStatus, answer : Solution \cup {"none"}]]
      /\ \A q \in Review : reviews'[q].answer = reviews[q].answer
  BY SMTT(30) DEF Capture, Reject, KnowledgeInv, KnowledgeTypeOK, ReviewStatus
<1>3. KnowledgeTypeOK'
  BY <1>1, <1>2 DEF KnowledgeInv, KnowledgeTypeOK, ReviewStatus
<1>4. AnswersHold'
  BY <1>1, <1>2 DEF KnowledgeInv, AnswersHold, ChunkOf, Live
<1>5. \A w \in Runner : Indexes(w)' /\ Approves(w)'
  BY <1>1 DEF KnowledgeInv, Indexes, Approves, ChunkOf, Live
<1> QED
  BY <1>1, <1>3, <1>4, <1>5
     DEF KnowledgeInv, RowsOK, OneRowOfReview, OneRowOfTalk, Live, Mines, MinedIsKept,
         Extracted, DoneIsSearchable

LEMMA ApproveReadKeeps ==
  ASSUME KnowledgeInv, NEW w \in Writer, NEW r \in Review, NEW a \in Solution,
         ApproveRead(w, r, a)
  PROVE  KnowledgeInv'
<1> DEFINE new == [Begun(w, "approve", "save") EXCEPT
                     !.review = r, !.answer = a, !.saw = reviews[r].status,
                     !.own = ChunkOf(r)]
<1>1. /\ work' = [work EXCEPT ![w] = new]
      /\ \A c \in ChunkOf(r) : chunks[c].text = a
      /\ UNCHANGED <<reviews, chunks, last, vectors, talks>>
  BY DEF ApproveRead
<1>2. w \in Runner /\ work \in [Runner -> Work] /\ ChunkOf(r) \in Things
  BY WriterRecord DEF Runner
<1>3. reviews[r].status \in ReviewStatus
  BY DEF KnowledgeInv, KnowledgeTypeOK, ReviewStatus
<1>4. /\ new \in Work /\ new.pc = "save" /\ new.op = "approve" /\ new.review = r
      /\ new.answer = a /\ new.own = ChunkOf(r)
  BY <1>2, <1>3 DEF Begun, NoWork, Work, WorkOp, WorkPc, RowReview, GivenAnswer, Things
<1> HIDE DEF new
<1>5. work'[w] = new
  BY <1>1, <1>2
<1>6. Indexes(w)' /\ Approves(w)'
  BY <1>1, <1>4, <1>5 DEF Indexes, Approves, ChunkOf, Live
<1> QED
  BY <1>1, <1>2, <1>4, <1>6, SilentStep DEF MiningPc

\* The row of the review has the answer that is written.
LEMMA ApproveAgainKeeps ==
  ASSUME KnowledgeInv, NEW w \in Writer, ApproveAgain(w)
  PROVE  KnowledgeInv'
<1> DEFINE new == [work[w] EXCEPT !.pc = "index"]
           rev == work[w].review
<1>1. /\ work' = [work EXCEPT ![w] = new] /\ work[w].pc = "save" /\ work[w].own # {}
      /\ reviews' = [reviews EXCEPT ![rev] = Approved(w)]
      /\ UNCHANGED <<chunks, last, vectors, talks>>
  BY DEF ApproveAgain, Does, Go
<1>2. w \in Runner /\ work \in [Runner -> Work] /\ work[w] \in Work
      /\ Indexes(w) /\ Approves(w)
  BY WriterRecord DEF Runner
<1>3. /\ new \in Work /\ new.pc = "index" /\ new.op = work[w].op /\ new.own = work[w].own
      /\ new.review = rev /\ new.answer = work[w].answer
  BY <1>2, Moved, ZenonT(30) DEF WorkPc
<1>4. /\ work[w].op = "approve" /\ rev \in Review /\ work[w].answer \in Solution
      /\ work[w].own = ChunkOf(rev)
      /\ \A c \in ChunkOf(rev) : chunks[c].text = work[w].answer
  BY <1>1, <1>2 DEF Approves
<1>5. Approved(w).answer = work[w].answer /\ Approved(w).status \in ReviewStatus
      /\ Approved(w) \in [status : ReviewStatus, answer : GivenAnswer]
  BY <1>4 DEF Approved, KnowledgeInv, KnowledgeTypeOK, ReviewStatus, GivenAnswer
<1>6. KnowledgeTypeOK'
  BY <1>1, <1>4, <1>5 DEF KnowledgeInv, KnowledgeTypeOK, ReviewStatus, GivenAnswer
<1>7. PICK c \in ChunkId : ChunkOf(rev) = {c}
  <2>1. PICK c \in ChunkOf(rev) : TRUE
    BY <1>1, <1>4
  <2>2. rev # 0 /\ c \in ChunkId
    BY <1>4, ReviewAssumption DEF ChunkOf
  <2>3. \A d \in ChunkOf(rev) : d = c
    BY <2>1, <2>2 DEF ChunkOf, KnowledgeInv, OneRowOfReview
  <2> QED
    BY <2>2, <2>3
<1>8. \A r \in Review : ChunkOf(r)' = ChunkOf(r)
  BY <1>1 DEF ChunkOf, Live
<1>9. ASSUME NEW r \in Review, reviews'[r].answer # "none"
      PROVE  \E d \in ChunkId : ChunkOf(r)' = {d} /\ chunks'[d].text = reviews'[r].answer
  <2>1. CASE r = rev
    <3>1. reviews'[r].answer = work[w].answer
      BY <1>1, <1>4, <1>5, <2>1 DEF KnowledgeInv, KnowledgeTypeOK
    <3> QED
      BY <1>1, <1>4, <1>7, <1>8, <2>1, <3>1
  <2>2. CASE r # rev
    <3>1. reviews'[r] = reviews[r]
      BY <1>1, <2>2 DEF KnowledgeInv, KnowledgeTypeOK
    <3> QED
      BY <1>1, <1>8, <1>9, <3>1 DEF KnowledgeInv, AnswersHold
  <2> QED
    BY <2>1, <2>2
<1>10. AnswersHold'
  BY <1>9 DEF AnswersHold
<1> HIDE DEF new
<1>11. work'[w] = new
  BY <1>1, <1>2
<1>12. Indexes(w)' /\ Approves(w)'
  BY <1>1, <1>3, <1>4, <1>11 DEF Indexes, Approves, ChunkOf, Live
<1> QED
  BY <1>1, <1>2, <1>3, <1>6, <1>10, <1>12, QuietStep DEF MiningPc

LEMMA RefusedKeeps ==
  ASSUME KnowledgeInv, NEW w \in Writer, ApproveRefused(w)
  PROVE  KnowledgeInv'
<1> DEFINE new == [work[w] EXCEPT !.pc = "reread"]
<1>1. /\ work' = [work EXCEPT ![w] = new] /\ work[w].pc = "save"
      /\ UNCHANGED <<reviews, chunks, last, vectors, talks>>
  BY DEF ApproveRefused, Does, Go
<1>2. w \in Runner /\ work \in [Runner -> Work] /\ work[w] \in Work
      /\ Indexes(w) /\ Approves(w)
  BY WriterRecord DEF Runner
<1>3. /\ new \in Work /\ new.pc = "reread" /\ new.op = work[w].op
      /\ new.own = work[w].own
      /\ new.review = work[w].review /\ new.answer = work[w].answer
  BY <1>2, Moved, ZenonT(30) DEF WorkPc
<1> HIDE DEF new
<1>4. work'[w] = new
  BY <1>1, <1>2
<1>5. Indexes(w)' /\ Approves(w)'
  BY <1>1, <1>2, <1>3, <1>4 DEF Indexes, Approves, ChunkOf, Live
<1> QED
  BY <1>1, <1>2, <1>3, <1>5, SilentStep DEF MiningPc

\* The other's row is taken only if it has the same answer.
LEMMA RereadKeeps ==
  ASSUME KnowledgeInv, NEW w \in Writer, ApproveReread(w)
  PROVE  KnowledgeInv'
<1>1. work[w].pc = "reread" /\ UNCHANGED <<reviews, chunks, last, vectors, talks>>
  BY DEF ApproveReread, Does
<1>2. w \in Runner /\ work \in [Runner -> Work] /\ work[w] \in Work
      /\ Indexes(w) /\ Approves(w) /\ ChunkOf(work[w].review) \in Things
  BY WriterRecord DEF Runner
<1>3. CASE /\ SameAnswer(w)
           /\ work' = [work EXCEPT ![w].pc = "index", ![w].own = ChunkOf(work[w].review)]
  <2> DEFINE new == WithOwn(work[w], "index", ChunkOf(work[w].review))
  <2>1. /\ new \in Work /\ new.pc = "index" /\ new.op = work[w].op
        /\ new.own = ChunkOf(work[w].review)
        /\ new.review = work[w].review /\ new.answer = work[w].answer
    <3>1. "index" \in WorkPc
      BY DEF WorkPc
    <3> QED
      BY <1>2, <3>1, MovedOwn
  <2>2. work' = [work EXCEPT ![w] = new]
    BY <1>2, <1>3 DEF WithOwn
  <2> HIDE DEF new
  <2>3. work'[w] = new
    BY <1>2, <2>2
  <2>4. Indexes(w)' /\ Approves(w)'
    BY <1>1, <1>2, <1>3, <2>1, <2>3, ZenonT(30)
       DEF Indexes, Approves, SameAnswer, ChunkOf, Live
  <2> QED
    BY <1>1, <1>2, <2>1, <2>2, <2>4, SilentStep DEF MiningPc
<1>4. CASE Quit(w)
  <2>1. work' = [work EXCEPT ![w] = NoWork] /\ work'[w] = NoWork
    BY <1>2, <1>4 DEF Quit
  <2>2. Indexes(w)' /\ Approves(w)'
    BY <2>1, NoWorkType DEF Indexes, Approves
  <2> QED
    BY <1>1, <1>2, <2>1, <2>2, NoWorkType, SilentStep DEF MiningPc
<1> QED
  BY <1>3, <1>4 DEF ApproveReread

\* What the bound leaves room for has an id.
LEMMA RoomIsLeft ==
  ASSUME KnowledgeInv, NEW n \in Nat, Room(n)
  PROVE  last + n <= MaxChunks
<1> DEFINE others == {t \in Talk : talks[t] # "discarded"
                            /\ \A c \in ChunkId : chunks[c].talk # t}
<1>1. IsFiniteSet(others)
  BY FS_Subset, NameAssumption
<1>2. Cardinality(others) \in Nat
  BY <1>1, FS_CardinalityType
<1>3. last + n + Cardinality(others) <= MaxChunks
  BY DEF Room
<1> HIDE DEF others
<1> QED
  BY <1>2, <1>3, Types, SizesAssumption

\* A new row for a review that has none.
LEMMA ReviewRowGoesIn ==
  ASSUME KnowledgeInv, NEW row \in Chunk, row.text \in Solution, row.review \in Review,
         row.talk = "none", row.status = "pending", last + 1 <= MaxChunks,
         ChunkOf(row.review) = {},
         chunks' = [chunks EXCEPT ![last + 1] = row], last' = last + 1
  PROVE  /\ RowsStay /\ ChunkOf(row.review)' = {last + 1} /\ last + 1 \in ChunkId
         /\ chunks'[last + 1] = row
         /\ \A c \in ChunkId : c # last + 1 => chunks'[c] = chunks[c]
<1>1. /\ chunks \in [ChunkId -> Chunk] /\ last \in 0 .. MaxChunks /\ MaxChunks \in Nat
      /\ RowsOK /\ OneRowOfReview /\ OneRowOfTalk
  BY Types, SizesAssumption DEF KnowledgeInv
<1>2. last + 1 \in ChunkId /\ last' \in 0 .. MaxChunks /\ last <= last'
  BY <1>1 DEF ChunkId
<1>3. /\ chunks' \in [ChunkId -> Chunk] /\ chunks'[last + 1] = row
      /\ \A c \in ChunkId : c # last + 1 => chunks'[c] = chunks[c]
  BY <1>1, <1>2
<1>4. row.text # "none" /\ row.text # "doc" /\ row.review # 0
  BY NameAssumption, ReviewAssumption
<1>5. \A c \in ChunkId : chunks[c].review # row.review
  <2> SUFFICES ASSUME NEW c \in ChunkId, chunks[c].review = row.review PROVE FALSE
    OBVIOUS
  <2>1. chunks[c].text \in Solution
    BY <1>1, <1>4 DEF RowsOK
  <2>2. c \in ChunkOf(row.review)
    BY <2>1, NameAssumption DEF ChunkOf, Live
  <2> QED
    BY <2>2
<1>6. RowsOK'
  <2>1. \A c \in ChunkId : c <= last => c <= last'
    BY <1>1 DEF ChunkId
  <2> QED
    BY <1>1, <1>2, <1>3, <1>4, <2>1 DEF RowsOK, Live
<1>7. OneRowOfReview' /\ OneRowOfTalk'
  <2>1. OneRowOfReview'
    BY <1>1, <1>3, <1>5 DEF OneRowOfReview
  <2>2. OneRowOfTalk'
    BY <1>1, <1>3 DEF OneRowOfTalk
  <2> QED
    BY <2>1, <2>2
<1>8. \A c \in ChunkId : c <= last => c # last + 1
  BY <1>1 DEF ChunkId
<1>9. RowsStay
  BY <1>2, <1>3, <1>6, <1>7, <1>8 DEF RowsStay, SameRow
<1>10. ChunkOf(row.review)' = {last + 1}
  <2>1. \A c \in ChunkId : c \in ChunkOf(row.review)' <=>
                             chunks'[c].text # "none" /\ chunks'[c].review = row.review
    BY DEF ChunkOf, Live
  <2>2. ChunkOf(row.review)' \subseteq ChunkId
    BY DEF ChunkOf
  <2> QED
    BY <1>2, <1>3, <1>4, <1>5, <2>1, <2>2
<1> QED
  BY <1>2, <1>3, <1>9, <1>10

LEMMA ApproveFirstKeeps ==
  ASSUME KnowledgeInv, NEW w \in Writer, ApproveFirst(w)
  PROVE  KnowledgeInv'
<1> DEFINE new == WithOwn(work[w], "index", {last + 1})
<1>0. PICK rev, row : rev = work[w].review /\ row = ReviewRow(w)
  OBVIOUS
<1>1. /\ work[w].pc = "save" /\ ChunkOf(rev) = {} /\ Room(1)
      /\ reviews' = [reviews EXCEPT ![rev] = Approved(w)]
      /\ chunks' = [chunks EXCEPT ![last + 1] = row]
      /\ last' = last + 1
      /\ work' = [work EXCEPT ![w].pc = "index", ![w].own = {last + 1}]
      /\ UNCHANGED <<vectors, talks>>
  BY <1>0 DEF ApproveFirst, Does
<1>2. w \in Runner /\ w # Miner /\ work \in [Runner -> Work] /\ work[w] \in Work
      /\ Indexes(w) /\ Approves(w)
  BY WriterRecord, NameAssumption DEF Runner
<1>3. work[w].op = "approve" /\ rev \in Review /\ work[w].answer \in Solution
  BY <1>0, <1>1, <1>2 DEF Approves
<1>4. /\ row \in Chunk /\ row.text = work[w].answer /\ row.review = rev
      /\ row.talk = "none" /\ row.status = "pending"
  BY <1>0, <1>3 DEF ReviewRow, Chunk, Text, RowReview, RowTalk, ChunkStatus
<1>5. last + 1 <= MaxChunks
  BY <1>1, RoomIsLeft
<1>6. /\ RowsStay /\ ChunkOf(rev)' = {last + 1} /\ last + 1 \in ChunkId
      /\ chunks'[last + 1] = row
      /\ \A c \in ChunkId : c # last + 1 => chunks'[c] = chunks[c]
  BY <1>1, <1>3, <1>4, <1>5, ReviewRowGoesIn
<1>7. /\ new \in Work /\ new.pc = "index" /\ new.op = work[w].op
      /\ new.own = {last + 1}
      /\ new.review = rev /\ new.answer = work[w].answer
  <2> DEFINE own == {last + 1}
  <2>1. "index" \in WorkPc /\ own \in Things
    BY <1>6 DEF WorkPc, Things
  <2> HIDE DEF own
  <2>2. /\ WithOwn(work[w], "index", own) \in Work
        /\ WithOwn(work[w], "index", own).pc = "index"
        /\ WithOwn(work[w], "index", own).op = work[w].op
        /\ WithOwn(work[w], "index", own).own = own
        /\ WithOwn(work[w], "index", own).review = work[w].review
        /\ WithOwn(work[w], "index", own).answer = work[w].answer
    BY <1>2, <2>1, MovedOwn
  <2> QED
    BY <1>0, <2>2 DEF own
<1>8. work' = [work EXCEPT ![w] = new]
  BY <1>1, <1>2 DEF WithOwn
<1> HIDE DEF new
<1>9. work'[w] = new /\ \A v \in Runner : v # w => work'[v] = work[v]
  BY <1>2, <1>8
<1>10. Approved(w).answer = work[w].answer /\ Approved(w) \in [status : ReviewStatus, answer : GivenAnswer]
  BY <1>0, <1>3 DEF Approved, KnowledgeInv, KnowledgeTypeOK, ReviewStatus, GivenAnswer
<1>11. KnowledgeTypeOK'
  <2>1. reviews' \in [Review -> [status : ReviewStatus, answer : GivenAnswer]]
    BY <1>1, <1>3, <1>10 DEF KnowledgeInv, KnowledgeTypeOK, ReviewStatus, GivenAnswer
  <2> QED
    BY <1>1, <1>6, <2>1 DEF RowsStay, KnowledgeInv, KnowledgeTypeOK, ReviewStatus, GivenAnswer,
       Chunk, Text, RowReview, RowTalk, ChunkStatus
<1>12. AnswersHold'
  <2> SUFFICES ASSUME NEW r \in Review, reviews'[r].answer # "none"
               PROVE  \E d \in ChunkId : ChunkOf(r)' = {d} /\ chunks'[d].text = reviews'[r].answer
    BY DEF AnswersHold
  <2>1. CASE r = rev
    <3>1. reviews'[r].answer = work[w].answer
      BY <1>1, <1>3, <1>10, <2>1 DEF KnowledgeInv, KnowledgeTypeOK
    <3> QED
      BY <1>4, <1>6, <2>1, <3>1
  <2>2. CASE r # rev
    <3>1. reviews'[r] = reviews[r]
      BY <1>1, <2>2 DEF KnowledgeInv, KnowledgeTypeOK
    <3> QED
      BY <1>6, <3>1, AnswersStay
  <2> QED
    BY <2>1, <2>2
<1>13. DoneIsSearchable'
  BY <1>1, <1>4, <1>6 DEF KnowledgeInv, DoneIsSearchable
<1>14. Mines' /\ MinedIsKept'
  <2>1. \A c \in ChunkId : chunks'[c].talk \in {chunks[c].talk, "none"}
    BY <1>4, <1>6
  <2> QED
    BY <1>1, <1>2, <1>7, <1>8, <2>1, MinesStay DEF MiningPc
<1>15. Indexes(w)' /\ Approves(w)'
  BY <1>3, <1>4, <1>6, <1>7, <1>9 DEF Indexes, Approves
<1>16. VectorsStay
  BY <1>1 DEF VectorsStay
<1> QED
  BY <1>2, <1>6, <1>7, <1>8, <1>11, <1>12, <1>13, <1>14, <1>15, <1>16, OneStep

LEMMA BeginIndexKeeps ==
  ASSUME KnowledgeInv, NEW w \in Writer,
         ResumeBuild(w) \/ \E r \in Review : RetryIndex(w, r)
  PROVE  KnowledgeInv'
<1>1. UNCHANGED <<reviews, chunks, last, vectors, talks>>
  BY DEF ResumeBuild, RetryIndex
<1>2. w \in Runner /\ work \in [Runner -> Work] /\ \A r : ChunkOf(r) \in Things
  BY WriterRecord DEF Runner
<1>3. \E new \in Work : /\ work' = [work EXCEPT ![w] = new]
                        /\ new.op # "approve" /\ new.pc \in {"index", "pending"}
  <2>1. CASE ResumeBuild(w)
    <3>1. "build" \in WorkOp /\ "pending" \in WorkPc
      BY DEF WorkOp, WorkPc
    <3>2. /\ Begun(w, "build", "pending") \in Work
          /\ Begun(w, "build", "pending").op = "build"
          /\ Begun(w, "build", "pending").pc = "pending"
      BY <3>1, BegunType
    <3>3. work' = [work EXCEPT ![w] = Begun(w, "build", "pending")]
      BY <2>1 DEF ResumeBuild
    <3> QED
      BY <3>2, <3>3
  <2>2. ASSUME NEW r \in Review, RetryIndex(w, r)
        PROVE  \E new \in Work : /\ work' = [work EXCEPT ![w] = new]
                                 /\ new.op # "approve" /\ new.pc \in {"index", "pending"}
    <3> DEFINE new == [Begun(w, "retry", "index") EXCEPT !.own = ChunkOf(r)]
    <3>1. work' = [work EXCEPT ![w] = new]
      BY <2>2 DEF RetryIndex
    <3>2. new \in Work /\ new.op = "retry" /\ new.pc = "index"
      BY <1>2 DEF Begun, NoWork, Work, WorkOp, WorkPc, RowReview, GivenAnswer, ReviewStatus, Things
    <3> HIDE DEF new
    <3> QED
      BY <3>1, <3>2
  <2> QED
    BY <2>1, <2>2
<1>4. PICK new \in Work : /\ work' = [work EXCEPT ![w] = new]
                          /\ new.op # "approve" /\ new.pc \in {"index", "pending"}
  BY <1>3
<1>5. Indexes(w)' /\ Approves(w)'
  BY <1>2, <1>4 DEF Indexes, Approves
<1> QED
  BY <1>1, <1>2, <1>4, <1>5, SilentStep DEF MiningPc

-----------------------------------------------------------------------------
(* Indexing.                                                               *)

LEMMA QuitKeeps ==
  ASSUME KnowledgeInv, NEW w \in Runner, Quit(w),
         UNCHANGED <<reviews, chunks, last, vectors, talks>>
  PROVE  KnowledgeInv'
<1>1. work' = [work EXCEPT ![w] = NoWork] /\ work'[w] = NoWork
  BY WriterRecord DEF Quit
<1>2. Indexes(w)' /\ Approves(w)'
  BY <1>1, NoWorkType DEF Indexes, Approves
<1> QED
  BY <1>1, <1>2, NoWorkType, SilentStep DEF MiningPc

LEMMA TryIndexKeeps ==
  ASSUME KnowledgeInv, NEW w \in Runner, TryIndex(w)
  PROVE  KnowledgeInv'
<1>1. UNCHANGED <<reviews, chunks, last, vectors, talks>>
  BY DEF TryIndex
<1>2. CASE Quit(w)
  BY <1>1, <1>2, QuitKeeps
<1>3. CASE Go(w, "pending")
  <2> DEFINE new == [work[w] EXCEPT !.pc = "pending"]
  <2>1. /\ work \in [Runner -> Work] /\ work[w] \in Work /\ Approves(w)
        /\ work' = [work EXCEPT ![w] = new]
    BY <1>3, WriterRecord DEF Go
  <2>2. /\ new \in Work /\ new.pc = "pending" /\ new.op = work[w].op
        /\ new.own = work[w].own
        /\ new.review = work[w].review /\ new.answer = work[w].answer
    BY <2>1, Moved DEF WorkPc
  <2> HIDE DEF new
  <2>3. work'[w] = new
    BY <2>1
  <2>4. Indexes(w)' /\ Approves(w)'
    BY <1>1, <2>1, <2>2, <2>3 DEF Indexes, Approves, ChunkOf, Live
  <2> QED
    BY <1>1, <2>1, <2>2, <2>4, SilentStep DEF MiningPc
<1> QED
  BY <1>2, <1>3 DEF TryIndex

\* What is pending has a row.
LEMMA ReadPendingKeeps ==
  ASSUME KnowledgeInv, NEW w \in Runner, ReadPending(w)
  PROVE  KnowledgeInv'
<1>1. UNCHANGED <<reviews, chunks, last, vectors, talks>>
  BY DEF ReadPending
<1>2. CASE Quit(w)
  BY <1>1, <1>2, QuitKeeps
<1>3. CASE work' = [work EXCEPT ![w].pc = "upsert", ![w].ids = FirstOf(PendingChunks(w))]
  <2>1. PICK ids : ids = FirstOf(PendingChunks(w))
    OBVIOUS
  <2>2. \A c \in ids : c \in ChunkId /\ c <= last
    <3>1. \A c \in ids : c \in ChunkId /\ chunks[c].status = "pending"
      BY <2>1 DEF FirstOf, PendingChunks
    <3>2. \A c \in ids : Live(c)
      BY <3>1 DEF KnowledgeInv, RowsOK, NoChunk
    <3> QED
      BY <3>1, <3>2 DEF KnowledgeInv, RowsOK
  <2>3. ids \in Things /\ "upsert" \in WorkPc
    BY <2>2 DEF Things, WorkPc
  <2> DEFINE new == WithIds(work[w], "upsert", ids)
  <2>4. /\ work \in [Runner -> Work] /\ work[w] \in Work /\ Approves(w)
        /\ work' = [work EXCEPT ![w] = new]
    BY <1>3, <2>1, WriterRecord DEF WithIds
  <2>5. /\ new \in Work /\ new.pc = "upsert" /\ new.op = work[w].op
        /\ new.own = work[w].own /\ new.ids = ids
        /\ new.review = work[w].review /\ new.answer = work[w].answer
    BY <2>3, <2>4, MovedIds
  <2> HIDE DEF new
  <2>6. work'[w] = new
    BY <2>4
  <2>7. Indexes(w)' /\ Approves(w)'
    BY <1>1, <2>2, <2>4, <2>5, <2>6 DEF Indexes, Approves, ChunkOf, Live
  <2> QED
    BY <1>1, <2>4, <2>5, <2>7, SilentStep DEF MiningPc
<1> QED
  BY <1>2, <1>3 DEF ReadPending

LEMMA UpsertKeeps ==
  ASSUME KnowledgeInv, NEW w \in Runner, Upsert(w)
  PROVE  KnowledgeInv'
<1> DEFINE new == [work[w] EXCEPT !.pc = "mark"]
<1>1. /\ work' = [work EXCEPT ![w] = new] /\ work[w].pc = "upsert"
      /\ vectors' = vectors \cup work[w].ids
      /\ UNCHANGED <<reviews, chunks, last, talks>>
  BY DEF Upsert, Does, Go
<1>2. work \in [Runner -> Work] /\ work[w] \in Work /\ Indexes(w) /\ Approves(w)
  BY WriterRecord
<1>3. /\ new \in Work /\ new.pc = "mark" /\ new.op = work[w].op
      /\ new.own = work[w].own /\ new.ids = work[w].ids
      /\ new.review = work[w].review /\ new.answer = work[w].answer
  BY <1>2, Moved DEF WorkPc
<1> HIDE DEF new
<1>4. work'[w] = new
  BY <1>1, <1>2
<1>5. \A c \in work[w].ids : c \in ChunkId /\ c <= last
  BY <1>1, <1>2 DEF Indexes
<1>6. Indexes(w)' /\ Approves(w)'
  BY <1>1, <1>2, <1>3, <1>4, <1>5 DEF Indexes, Approves, ChunkOf, Live
<1>7. RowsStay /\ VectorsStay
  BY <1>1, NothingMoves DEF VectorsStay
<1>8. KnowledgeTypeOK' /\ AnswersHold' /\ DoneIsSearchable'
  <2>1. KnowledgeTypeOK'
    BY <1>1, <1>5 DEF KnowledgeInv, KnowledgeTypeOK
  <2>2. AnswersHold'
    BY <1>1 DEF KnowledgeInv, AnswersHold, ChunkOf, Live
  <2>3. DoneIsSearchable'
    BY <1>1 DEF KnowledgeInv, DoneIsSearchable
  <2> QED
    BY <2>1, <2>2, <2>3
<1>9. Mines' /\ MinedIsKept'
  BY <1>1, <1>3, MinesStay DEF MiningPc
<1> QED
  BY <1>1, <1>3, <1>6, <1>7, <1>8, <1>9, OneStep

\* Only rows whose vectors went in are marked.
LEMMA MarkKeeps ==
  ASSUME KnowledgeInv, NEW w \in Runner, MarkVectorized(w)
  PROVE  KnowledgeInv'
<1> DEFINE new == WithIds(work[w], "pending", {})
<1>1. /\ work[w].pc = "mark"
      /\ chunks' = [c \in ChunkId |->
                      IF c \in work[w].ids /\ Live(c)
                      THEN [chunks[c] EXCEPT !.status = "done"] ELSE chunks[c]]
      /\ work' = [work EXCEPT ![w].pc = "pending", ![w].ids = {}]
      /\ UNCHANGED <<reviews, last, vectors, talks>>
  BY DEF MarkVectorized, Does
<1>2. /\ work \in [Runner -> Work] /\ work[w] \in Work /\ Indexes(w) /\ Approves(w)
      /\ chunks \in [ChunkId -> Chunk]
  BY WriterRecord, Types
<1>3. work' = [work EXCEPT ![w] = new]
  BY <1>1, <1>2 DEF WithIds
<1>4. /\ new \in Work /\ new.pc = "pending" /\ new.op = work[w].op
      /\ new.own = work[w].own
      /\ new.review = work[w].review /\ new.answer = work[w].answer
  <2>1. "pending" \in WorkPc /\ {} \in Things
    BY DEF WorkPc, Things
  <2> QED
    BY <1>2, <2>1, MovedIds
<1> HIDE DEF new
<1>5. work'[w] = new
  BY <1>2, <1>3
<1>6. \A c \in ChunkId :
        LET done == [chunks[c] EXCEPT !.status = "done"] IN
        /\ done \in Chunk
        /\ done.text = chunks[c].text /\ done.review = chunks[c].review
        /\ done.talk = chunks[c].talk
  BY <1>2 DEF Chunk, ChunkStatus
<1>7. /\ chunks' \in [ChunkId -> Chunk]
      /\ \A c \in ChunkId : SameRow(c)
      /\ \A c \in ChunkId : ~Live(c) => chunks'[c] = chunks[c]
      /\ \A c \in ChunkId : chunks'[c].status = "done" =>
           chunks[c].status = "done" \/ (c \in work[w].ids /\ Live(c))
  BY <1>1, <1>2, <1>6 DEF SameRow
<1>8. RowsOK' /\ OneRowOfReview' /\ OneRowOfTalk'
  BY <1>1, <1>7 DEF SameRow, KnowledgeInv, RowsOK, OneRowOfReview, OneRowOfTalk, Live, NoChunk
<1>9. RowsStay /\ VectorsStay
  BY <1>1, <1>7, <1>8, Types DEF RowsStay, VectorsStay
<1>10. KnowledgeTypeOK'
  BY <1>1, <1>7 DEF KnowledgeInv, KnowledgeTypeOK, Chunk, Text, RowReview, RowTalk, ChunkStatus
<1>11. AnswersHold'
  BY <1>1, <1>9, AnswersStay DEF AnswersHold
<1>12. DoneIsSearchable'
  BY <1>1, <1>2, <1>7 DEF KnowledgeInv, DoneIsSearchable, Indexes
<1>13. Mines' /\ MinedIsKept'
  BY <1>1, <1>3, <1>4, <1>7, MinesStay DEF MiningPc, SameRow
<1>14. Indexes(w)' /\ Approves(w)'
  BY <1>1, <1>2, <1>4, <1>5, <1>7 DEF Indexes, Approves, ChunkOf, Live, SameRow
<1> QED
  BY <1>3, <1>4, <1>9, <1>10, <1>11, <1>12, <1>13, <1>14, OneStep

-----------------------------------------------------------------------------
(* Builds.                                                                 *)

\* Ids are not given out twice, so what is swept later has no row then either.
LEMMA ReplaceKeeps ==
  ASSUME KnowledgeInv, NEW w \in Writer, ReplaceDocChunks(w)
  PROVE  KnowledgeInv'
<1>1. PICK gone, fresh : gone = DocRows /\ fresh = NewIds
  OBVIOUS
<1> DEFINE docRow == [text |-> "doc", review |-> 0, talk |-> "none", status |-> "pending"]
           new == [Begun(w, "build", "sweep") EXCEPT !.ids = gone]
<1>2. /\ Room(DocChunks)
      /\ chunks' = [c \in ChunkId |-> CASE c \in gone -> NoChunk
                                        [] c \in fresh -> docRow
                                        [] OTHER -> chunks[c]]
      /\ last' = last + DocChunks
      /\ work' = [work EXCEPT ![w] = new]
      /\ UNCHANGED <<reviews, vectors, talks>>
  BY <1>1 DEF ReplaceDocChunks
<1>3. /\ w \in Runner /\ work \in [Runner -> Work]
      /\ chunks \in [ChunkId -> Chunk] /\ last \in 0 .. MaxChunks
      /\ RowsOK /\ OneRowOfReview /\ OneRowOfTalk
  BY WriterRecord, Types DEF Runner, KnowledgeInv
<1>4. DocChunks \in Nat /\ MaxChunks \in Nat /\ last + DocChunks <= MaxChunks
  BY <1>2, RoomIsLeft, SizesAssumption
<1>5. last' \in 0 .. MaxChunks /\ last <= last' /\ last \in Int /\ last' \in Int
  BY <1>2, <1>3, <1>4
<1>6. /\ gone \subseteq ChunkId /\ \A c \in ChunkId : c \in gone <=> chunks[c].text = "doc"
      /\ \A c \in gone : c <= last
      /\ \A c \in fresh : c > last /\ c <= last'
  BY <1>1, <1>2, <1>3, <1>4, NameAssumption DEF DocRows, NewIds, RowsOK, Live
<1>7. NoChunk \in Chunk /\ docRow \in Chunk /\ docRow # NoChunk
  BY DEF NoChunk, Chunk, Text, RowReview, RowTalk, ChunkStatus
<1> DEFINE Becomes(c) == \/ c \in gone /\ chunks'[c] = NoChunk
                         \/ c \notin gone /\ c \in fresh /\ chunks'[c] = docRow
                         \/ c \notin gone /\ c \notin fresh /\ chunks'[c] = chunks[c]
<1>8. chunks' \in [ChunkId -> Chunk] /\ \A c \in ChunkId : Becomes(c)
  <2> HIDE DEF docRow
  <2>1. ASSUME NEW c \in ChunkId PROVE Becomes(c) /\ chunks'[c] \in Chunk
    <3>1. chunks'[c] = CASE c \in gone -> NoChunk
                         [] c \in fresh -> docRow
                         [] OTHER -> chunks[c]
      BY <1>2
    <3>2. CASE c \in gone
      <4>1. c \notin fresh
        BY <1>3, <1>5, <1>6, <3>2 DEF ChunkId
      <4> QED
        BY <1>7, <3>1, <3>2, <4>1
    <3>3. CASE c \notin gone /\ c \in fresh
      BY <1>7, <3>1, <3>3
    <3>4. CASE c \notin gone /\ c \notin fresh
      BY <1>3, <3>1, <3>4
    <3> QED
      BY <3>2, <3>3, <3>4
  <2> QED
    BY <1>2, <2>1
<1>9. /\ NoChunk.text = "none" /\ NoChunk.review = 0 /\ NoChunk.talk = "none"
      /\ NoChunk.status = "none"
      /\ docRow.text = "doc" /\ docRow.review = 0 /\ docRow.talk = "none"
      /\ docRow.status = "pending"
  BY DEF NoChunk
<1> HIDE DEF docRow
<1>10. RowsOK'
  <2>1. \A c \in ChunkId : c <= last => c <= last'
    BY <1>5 DEF ChunkId
  <2> QED
    BY <1>3, <1>6, <1>8, <1>9, <2>1 DEF RowsOK, Live
<1>11. OneRowOfReview' /\ OneRowOfTalk'
  BY <1>3, <1>8, <1>9 DEF OneRowOfReview, OneRowOfTalk
<1>12. \A c \in ChunkId : c <= last => c \notin fresh
  BY <1>5, <1>6 DEF ChunkId
<1>13. RowsStay /\ VectorsStay
  BY <1>2, <1>5, <1>6, <1>8, <1>10, <1>11, <1>12 DEF RowsStay, SameRow, VectorsStay
<1>14. /\ new \in Work /\ new.pc = "sweep" /\ new.op = "build" /\ new.ids = gone
  BY <1>6 DEF Begun, NoWork, Work, WorkOp, WorkPc, RowReview, GivenAnswer, ReviewStatus, Things
<1> HIDE DEF new
<1>15. work'[w] = new
  BY <1>2, <1>3
<1>16. KnowledgeTypeOK'
  BY <1>2, <1>5, <1>8 DEF KnowledgeInv, KnowledgeTypeOK, Chunk, Text, RowReview, RowTalk,
     ChunkStatus
<1>17. AnswersHold'
  BY <1>2, <1>13, AnswersStay DEF AnswersHold
<1>18. DoneIsSearchable'
  BY <1>2, <1>8, <1>9 DEF KnowledgeInv, DoneIsSearchable
<1>19. Mines' /\ MinedIsKept'
  <2>1. \A c \in ChunkId : chunks'[c].talk \in {chunks[c].talk, "none"}
    BY <1>8, <1>9
  <2> QED
    BY <1>2, <1>3, <1>14, <2>1, MinesStay DEF MiningPc
<1>20. Indexes(w)' /\ Approves(w)'
  <2>1. \A c \in gone : c \in ChunkId /\ c <= last'
    <3> TAKE c \in gone
    <3>1. c \in ChunkId /\ c \in Nat /\ c <= last
      BY <1>5, <1>6 DEF ChunkId
    <3>2. last \in Int /\ last' \in Int /\ last <= last'
      BY <1>5
    <3> QED BY <3>1, <3>2
  <2>2. \A c \in gone : ~Live(c)'
    BY <1>6, <1>8, <1>9 DEF Live
  <2> QED
    BY <1>14, <1>15, <2>1, <2>2 DEF Indexes, Approves
<1> QED
  BY <1>2, <1>3, <1>13, <1>14, <1>16, <1>17, <1>18, <1>19, <1>20, OneStep

LEMMA SweepKeeps ==
  ASSUME KnowledgeInv, NEW w \in Writer, DeleteOldVectors(w)
  PROVE  KnowledgeInv'
<1> DEFINE new == WithIds(work[w], "pending", {})
<1>1. /\ work[w].pc = "sweep" /\ vectors' = vectors \ work[w].ids
      /\ work' = [work EXCEPT ![w].pc = "pending", ![w].ids = {}]
      /\ UNCHANGED <<reviews, chunks, last, talks>>
  BY DEF DeleteOldVectors, Does
<1>2. w \in Runner /\ work \in [Runner -> Work] /\ work[w] \in Work
      /\ Indexes(w) /\ Approves(w)
  BY WriterRecord DEF Runner
<1>3. work' = [work EXCEPT ![w] = new]
  BY <1>1, <1>2 DEF WithIds
<1>4. /\ new \in Work /\ new.pc = "pending" /\ new.op = work[w].op
      /\ new.own = work[w].own
      /\ new.review = work[w].review /\ new.answer = work[w].answer
  <2>1. "pending" \in WorkPc /\ {} \in Things
    BY DEF WorkPc, Things
  <2> QED
    BY <1>2, <2>1, MovedIds
<1> HIDE DEF new
<1>5. work'[w] = new
  BY <1>2, <1>3
<1>6. \A c \in work[w].ids : ~Live(c)
  BY <1>1, <1>2 DEF Indexes
<1>7. RowsStay /\ VectorsStay
  BY <1>1, <1>6, NothingMoves DEF VectorsStay
<1>8. KnowledgeTypeOK' /\ AnswersHold'
  BY <1>1 DEF KnowledgeInv, KnowledgeTypeOK, AnswersHold, ChunkOf, Live
<1>9. DoneIsSearchable'
  <2>1. \A c \in ChunkId : chunks[c].status = "done" => Live(c)
    BY DEF KnowledgeInv, RowsOK, NoChunk
  <2> QED
    BY <1>1, <1>6, <2>1 DEF KnowledgeInv, DoneIsSearchable
<1>10. Mines' /\ MinedIsKept'
  BY <1>1, <1>2, <1>3, <1>4, MinesStay DEF MiningPc
<1>11. Indexes(w)' /\ Approves(w)'
  BY <1>1, <1>2, <1>4, <1>5 DEF Indexes, Approves, ChunkOf, Live
<1> QED
  BY <1>2, <1>3, <1>4, <1>7, <1>8, <1>9, <1>10, <1>11, OneStep

-----------------------------------------------------------------------------
(* Mining.                                                                 *)

\* A step of the run that leaves the rows alone.
LEMMA MiningStep ==
  ASSUME KnowledgeInv, NEW new \in Work, work' = [work EXCEPT ![Miner] = new],
         UNCHANGED <<reviews, chunks, last, vectors>>,
         new.pc \in MiningPc,
         KnowledgeTypeOK', Mines', MinedIsKept'
  PROVE  KnowledgeInv'
<1>1. Miner \in Runner /\ work \in [Runner -> Work]
  BY Types
<1>2. work'[Miner] = new
  BY <1>1
<1>3. Indexes(Miner)' /\ Approves(Miner)'
  BY <1>2, NameAssumption DEF Indexes, Approves, MiningPc
<1>4. RowsStay /\ VectorsStay
  BY NothingMoves DEF VectorsStay
<1>5. AnswersHold' /\ DoneIsSearchable'
  BY DEF KnowledgeInv, AnswersHold, ChunkOf, Live, DoneIsSearchable
<1> QED
  BY <1>1, <1>3, <1>4, <1>5, OneStep

LEMMA MinerRecord ==
  ASSUME KnowledgeInv
  PROVE  /\ work \in [Runner -> Work] /\ work[Miner] \in Work /\ Miner \in Runner
         /\ \A w \in Writer : w \in Runner /\ w # Miner
         /\ Indexes(Miner) /\ Approves(Miner) /\ Mines /\ MinedIsKept
         /\ talks \in [Talk -> {"new", "extracted", "kept", "discarded"}]
  BY WriterRecord, NameAssumption DEF Runner, KnowledgeInv, KnowledgeTypeOK

LEMMA StageKeeps ==
  ASSUME KnowledgeInv, StartMining \/ \E t \in Talk : InsertStaging(t)
  PROVE  KnowledgeInv'
<1> USE MinerRecord
<1>1. CASE StartMining
  <2>1. "mine" \in WorkOp /\ "stage" \in WorkPc
    BY DEF WorkOp, WorkPc
  <2> DEFINE new == Begun(Miner, "mine", "stage")
  <2>2. new \in Work /\ new.pc = "stage"
    BY <2>1, BegunType
  <2>3. /\ work' = [work EXCEPT ![Miner] = new]
        /\ UNCHANGED <<reviews, chunks, last, vectors, talks>>
    BY <1>1 DEF StartMining
  <2> HIDE DEF new
  <2>4. work'[Miner] = new /\ \A w \in Writer : work'[w] = work[w]
    BY <2>3
  <2>5. Mines' /\ MinedIsKept'
    BY <2>2, <2>3, <2>4 DEF Mines, MinedIsKept
  <2>6. KnowledgeTypeOK'
    BY <2>3 DEF KnowledgeInv, KnowledgeTypeOK
  <2> QED
    BY <2>2, <2>3, <2>5, <2>6, MiningStep DEF MiningPc
<1>2. ASSUME NEW t \in Talk, InsertStaging(t)
      PROVE  KnowledgeInv'
  <2>1. /\ work[Miner].pc = "stage" /\ talks[t] = "new"
        /\ talks' = [talks EXCEPT ![t] = "extracted"]
        /\ UNCHANGED <<reviews, chunks, last, vectors, work>>
    BY <1>2 DEF InsertStaging, Does
  <2>2. work' = [work EXCEPT ![Miner] = work[Miner]]
    BY <2>1
  <2>3. KnowledgeTypeOK'
    BY <2>1 DEF KnowledgeInv, KnowledgeTypeOK
  <2>4. Mines'
    BY <2>1 DEF Mines
  <2>5. MinedIsKept'
    BY <2>1, Types DEF MinedIsKept, RowTalk
  <2> QED
    BY <2>1, <2>2, <2>3, <2>4, <2>5, MiningStep DEF MiningPc
<1> QED
  BY <1>1, <1>2

LEMMA DeduplicateKeeps ==
  ASSUME KnowledgeInv, Deduplicate
  PROVE  KnowledgeInv'
<1> USE MinerRecord
<1>1. work[Miner].pc = "stage" /\ UNCHANGED <<reviews, chunks, last, vectors, talks>>
  BY DEF Deduplicate, Does
<1>2. PICK kept \in SUBSET Extracted :
        work' = [work EXCEPT ![Miner].pc = "keep", ![Miner].own = kept,
                             ![Miner].ids = Extracted \ kept]
  BY DEF Deduplicate
<1>3. PICK rest : rest = Extracted \ kept
  OBVIOUS
<1> DEFINE new == WithBoth(work[Miner], "keep", kept, rest)
<1>4. work' = [work EXCEPT ![Miner] = new]
  BY <1>2, <1>3 DEF WithBoth
<1>5. new \in Work /\ new.pc = "keep" /\ new.own = kept /\ new.ids = rest
  <2>1. "keep" \in WorkPc /\ kept \in Things /\ rest \in Things
    BY <1>3 DEF WorkPc, Things, Extracted
  <2> QED
    BY <2>1, MovedBoth
<1> HIDE DEF new
<1>6. work'[Miner] = new /\ \A w \in Writer : work'[w] = work[w]
  BY <1>4
<1>7. \A t \in kept : t \in Talk /\ \A c \in ChunkId : chunks[c].talk # t
  BY NameAssumption DEF Extracted, MinedIsKept
<1>8. Mines' /\ MinedIsKept'
  BY <1>1, <1>3, <1>5, <1>6, <1>7 DEF Mines, MinedIsKept, Extracted
<1>9. KnowledgeTypeOK'
  BY <1>1 DEF KnowledgeInv, KnowledgeTypeOK
<1> QED
  BY <1>1, <1>4, <1>5, <1>8, <1>9, MiningStep DEF MiningPc

LEMMA DecideKeeps ==
  ASSUME KnowledgeInv, MarkKept \/ MarkDiscarded
  PROVE  KnowledgeInv'
<1> USE MinerRecord
<1>1. CASE MarkKept
  <2> DEFINE new == [work[Miner] EXCEPT !.pc = "discard"]
  <2>1. /\ work[Miner].pc = "keep"
        /\ talks' = [t \in Talk |-> IF t \in work[Miner].own THEN "kept" ELSE talks[t]]
        /\ work' = [work EXCEPT ![Miner] = new]
        /\ UNCHANGED <<reviews, chunks, last, vectors>>
    BY <1>1 DEF MarkKept, MarkStaged, Go, Does
  <2>2. /\ new \in Work /\ new.pc = "discard"
        /\ new.own = work[Miner].own /\ new.ids = work[Miner].ids
    BY Moved DEF WorkPc
  <2> HIDE DEF new
  <2>3. work'[Miner] = new /\ \A w \in Writer : work'[w] = work[w]
    BY <2>1
  <2>4. Mines' /\ MinedIsKept'
    <3>1. MinedIsKept'
      BY <2>1, Types DEF MinedIsKept, RowTalk
    <3> QED
      BY <2>1, <2>2, <2>3, <3>1 DEF Mines, Extracted
  <2>5. KnowledgeTypeOK'
    BY <2>1 DEF KnowledgeInv, KnowledgeTypeOK
  <2> QED
    BY <2>1, <2>2, <2>4, <2>5, MiningStep DEF MiningPc
<1>2. CASE MarkDiscarded
  <2> DEFINE new == [work[Miner] EXCEPT !.pc = "insert"]
  <2>1. /\ work[Miner].pc = "discard"
        /\ talks' = [t \in Talk |-> IF t \in work[Miner].ids THEN "discarded" ELSE talks[t]]
        /\ work' = [work EXCEPT ![Miner] = new]
        /\ UNCHANGED <<reviews, chunks, last, vectors>>
    BY <1>2 DEF MarkDiscarded, MarkStaged, Go, Does
  <2>2. /\ new \in Work /\ new.pc = "insert"
        /\ new.own = work[Miner].own /\ new.ids = work[Miner].ids
    BY Moved DEF WorkPc
  <2> HIDE DEF new
  <2>3. work'[Miner] = new /\ \A w \in Writer : work'[w] = work[w]
    BY <2>1
  <2>4. \A t \in Talk : talks[t] = "kept" => talks'[t] = "kept"
    BY <2>1 DEF Mines, Extracted
  <2>5. Mines' /\ MinedIsKept'
    <3>1. MinedIsKept'
      BY <2>1, <2>4, Types DEF MinedIsKept, RowTalk
    <3> QED
      BY <2>1, <2>2, <2>3, <2>4, <3>1 DEF Mines
  <2>6. KnowledgeTypeOK'
    BY <2>1 DEF KnowledgeInv, KnowledgeTypeOK
  <2> QED
    BY <2>1, <2>2, <2>5, <2>6, MiningStep DEF MiningPc
<1> QED
  BY <1>1, <1>2

\* A set that is finite is the range of a sequence without repetitions.
LEMMA SetToSeqFacts ==
  ASSUME NEW S, IsFiniteSet(S)
  PROVE  /\ Cardinality(S) \in Nat
         /\ SetToSeq(S) \in [1 .. Cardinality(S) -> S]
         /\ \A i, j \in 1 .. Cardinality(S) : SetToSeq(S)[i] = SetToSeq(S)[j] => i = j
<1>1. Cardinality(S) \in Nat /\ ExistsBijection(1 .. Cardinality(S), S)
  BY FS_CardinalityType
<1>2. \E f \in [1 .. Cardinality(S) -> S] : IsInjective(f)
  BY <1>1 DEF ExistsBijection, Bijection, Injection, Surjection, IsInjective
<1>3. SetToSeq(S) \in [1 .. Cardinality(S) -> S] /\ IsInjective(SetToSeq(S))
  BY <1>2 DEF SetToSeq
<1> QED
  BY <1>1, <1>3 DEF IsInjective

\* Each pair in hand gets a row, and none of them had one.
LEMMA InsertKeeps ==
  ASSUME KnowledgeInv, InsertMinedChunks
  PROVE  KnowledgeInv'
<1> USE MinerRecord
<1>1. PICK own, kept, n : own = work[Miner].own /\ kept = SetToSeq(own) /\ n = Len(kept)
  OBVIOUS
<1>2. /\ work[Miner].pc = "insert" /\ last + n <= MaxChunks /\ last' = last + n
      /\ chunks' = [c \in ChunkId |-> IF c - last \in DOMAIN kept
                                      THEN MinedRow(kept[c - last]) ELSE chunks[c]]
      /\ work' = [work EXCEPT ![Miner].pc = "pending", ![Miner].own = {}, ![Miner].ids = {}]
      /\ UNCHANGED <<reviews, vectors, talks>>
  BY <1>1 DEF InsertMinedChunks, Does
<1>3. /\ own \subseteq Talk /\ \A t \in own : talks[t] = "kept"
      /\ \A t \in own, c \in ChunkId : chunks[c].talk # t
  BY <1>1, <1>2 DEF Mines
<1>4. /\ n \in Nat /\ kept \in [1 .. n -> own]
      /\ \A i, j \in 1 .. n : kept[i] = kept[j] => i = j
  <2>1. IsFiniteSet(own)
    BY <1>3, FS_Subset, NameAssumption
  <2>2. /\ Cardinality(own) \in Nat /\ kept \in [1 .. Cardinality(own) -> own]
        /\ \A i, j \in 1 .. Cardinality(own) : kept[i] = kept[j] => i = j
    BY <1>1, <2>1, SetToSeqFacts
  <2>3. n = Cardinality(own)
    BY <1>1, <2>2
  <2> QED
    BY <2>2, <2>3
<1>5. /\ chunks \in [ChunkId -> Chunk] /\ last \in 0 .. MaxChunks /\ MaxChunks \in Nat
      /\ RowsOK /\ OneRowOfReview /\ OneRowOfTalk
  BY Types, SizesAssumption DEF KnowledgeInv
<1>6. last' \in 0 .. MaxChunks /\ last <= last' /\ last \in Int /\ last' \in Int
  BY <1>2, <1>4, <1>5
<1>7. ASSUME NEW t \in own
      PROVE  /\ MinedRow(t) \in Chunk /\ MinedRow(t).text = "mined"
             /\ MinedRow(t).review = 0 /\ MinedRow(t).talk = t
             /\ MinedRow(t).status = "pending"
  BY <1>3, <1>7 DEF MinedRow, Chunk, Text, RowReview, RowTalk, ChunkStatus
<1> DEFINE place(c) == c - last
           Fresh(c) == /\ c > last /\ c <= last' /\ place(c) \in 1 .. n /\ kept[place(c)] \in own
                       /\ chunks'[c] = MinedRow(kept[place(c)])
           Stays(c) == (c <= last \/ c > last') /\ chunks'[c] = chunks[c]
<1>8. ASSUME NEW c \in ChunkId
      PROVE  (Fresh(c) \/ Stays(c)) /\ chunks'[c] \in Chunk
  <2>1. DOMAIN kept = 1 .. n /\ c \in Int
    BY <1>4 DEF ChunkId
  <2>2. CASE c > last /\ c <= last'
    <3>1. c - last \in 1 .. n
      BY <1>2, <1>4, <1>6, <2>1, <2>2
    <3>2. kept[c - last] \in own /\ chunks'[c] = MinedRow(kept[c - last])
      BY <1>2, <1>4, <2>1, <3>1
    <3> QED
      BY <1>7, <2>2, <3>1, <3>2
  <2>3. CASE ~(c > last /\ c <= last')
    <3>1. c - last \notin 1 .. n
      BY <1>2, <1>4, <1>6, <2>1, <2>3
    <3>2. chunks'[c] = chunks[c]
      BY <1>2, <2>1, <3>1
    <3> QED
      BY <1>5, <1>6, <2>1, <2>3, <3>2
  <2> QED
    BY <2>2, <2>3
<1>9. chunks' \in [ChunkId -> Chunk]
  BY <1>2, <1>8
<1>10. ASSUME NEW c \in ChunkId, Fresh(c)
       PROVE  /\ chunks'[c].text = "mined" /\ chunks'[c].review = 0
              /\ chunks'[c].talk \in own /\ chunks'[c].status = "pending"
              /\ chunks'[c].talk = kept[place(c)] /\ ~Live(c)
  <2>1. c \in Int
    BY DEF ChunkId
  <2> QED
    BY <1>5, <1>6, <1>7, <1>10, <2>1 DEF RowsOK
<1>11. ASSUME NEW c \in ChunkId, NEW d \in ChunkId, Fresh(c), Fresh(d),
              kept[place(c)] = kept[place(d)]
       PROVE  c = d
  <2>1. c \in Int /\ d \in Int
    BY DEF ChunkId
  <2>2. place(c) = place(d)
    BY <1>4, <1>11
  <2> QED
    BY <1>6, <2>1, <2>2
<1>12. \A c \in ChunkId : Stays(c) /\ c <= last => c <= last'
  BY <1>6 DEF ChunkId
<1>13. \A c \in ChunkId : c <= last => ~Fresh(c)
  BY <1>6 DEF ChunkId
<1>14. \A c \in ChunkId : Fresh(c) => c <= last'
  OBVIOUS
<1>15. \A c \in ChunkId : Stays(c) => chunks'[c] = chunks[c]
  OBVIOUS
<1> HIDE DEF Fresh, Stays, place
<1>16. RowsOK'
  <2>1. \A c \in ChunkId : ~Live(c)' => chunks'[c] = NoChunk
    BY <1>5, <1>8, <1>10, <1>15 DEF RowsOK, Live
  <2>2. \A c \in ChunkId : Live(c)' => c <= last'
    BY <1>5, <1>8, <1>12, <1>14, <1>15 DEF RowsOK, Live
  <2>3. \A c \in ChunkId : chunks'[c].review # 0 => chunks'[c].text \in Solution
    BY <1>5, <1>8, <1>10, <1>15 DEF RowsOK
  <2>4. \A c \in ChunkId : chunks'[c].talk # "none" => chunks'[c].text = "mined"
    BY <1>5, <1>8, <1>10, <1>15 DEF RowsOK
  <2> QED
    BY <2>1, <2>2, <2>3, <2>4 DEF RowsOK
<1>17. OneRowOfReview'
  BY <1>5, <1>8, <1>10, <1>15 DEF OneRowOfReview
<1>18. OneRowOfTalk'
  <2> SUFFICES ASSUME NEW c \in ChunkId, NEW d \in ChunkId,
                      chunks'[c].talk = chunks'[d].talk, chunks'[c].talk # "none"
               PROVE  c = d
    BY DEF OneRowOfTalk
  <2>1. CASE Fresh(c) /\ Fresh(d)
    BY <1>10, <1>11, <2>1
  <2>2. CASE Stays(c) /\ Stays(d)
    BY <1>5, <1>15, <2>2 DEF OneRowOfTalk
  <2>3. CASE Fresh(c) /\ Stays(d)
    BY <1>3, <1>10, <1>15, <2>3
  <2>4. CASE Stays(c) /\ Fresh(d)
    BY <1>3, <1>10, <1>15, <2>4
  <2> QED
    BY <1>8, <2>1, <2>2, <2>3, <2>4
<1>19. RowsStay /\ VectorsStay
  BY <1>2, <1>6, <1>8, <1>9, <1>13, <1>15, <1>16, <1>17, <1>18
     DEF RowsStay, VectorsStay, SameRow
<1> DEFINE new == WithBoth(work[Miner], "pending", {}, {})
<1>20. work' = [work EXCEPT ![Miner] = new]
  BY <1>2 DEF WithBoth
<1>21. new \in Work /\ new.pc = "pending" /\ new.ids = {}
  <2>1. "pending" \in WorkPc /\ {} \in Things
    BY DEF WorkPc, Things
  <2> QED
    BY <2>1, MovedBoth
<1> HIDE DEF new
<1>22. work'[Miner] = new /\ \A w \in Writer : work'[w] = work[w]
  BY <1>20
<1>23. Indexes(Miner)' /\ Approves(Miner)'
  BY <1>21, <1>22 DEF Indexes, Approves
<1>24. MinedIsKept'
  <2>1. \A c \in ChunkId : Fresh(c) => talks'[chunks'[c].talk] = "kept"
    BY <1>2, <1>3, <1>10
  <2>2. \A c \in ChunkId : Stays(c) /\ chunks'[c].talk # "none"
                             => talks'[chunks'[c].talk] = "kept"
    BY <1>2, <1>15 DEF MinedIsKept
  <2> QED
    BY <1>8, <2>1, <2>2 DEF MinedIsKept
<1>25. Mines'
  BY <1>21, <1>22 DEF Mines
<1>26. KnowledgeTypeOK'
  BY <1>2, <1>6, <1>9 DEF KnowledgeInv, KnowledgeTypeOK, Chunk, Text, RowReview, RowTalk,
     ChunkStatus
<1>27. AnswersHold'
  BY <1>2, <1>19, AnswersStay DEF AnswersHold
<1>28. DoneIsSearchable'
  BY <1>2, <1>8, <1>10, <1>15 DEF KnowledgeInv, DoneIsSearchable
<1> QED
  BY <1>19, <1>20, <1>21, <1>23, <1>24, <1>25, <1>26, <1>27, <1>28, OneStep

-----------------------------------------------------------------------------
(* The invariant.                                                          *)

LEMMA KnowledgeInvInit == KnowledgeInit => KnowledgeInv
<1> SUFFICES ASSUME KnowledgeInit PROVE KnowledgeInv
  OBVIOUS
<1>1. /\ \A c \in ChunkId : chunks[c] = NoChunk
      /\ chunks = [c \in ChunkId |-> NoChunk] /\ last = 0 /\ vectors = {}
      /\ \A r \in Review : reviews[r].answer = "none"
      /\ \A w \in Runner : work[w] = NoWork
  BY DEF KnowledgeInit
<1>2. /\ NoChunk.text = "none" /\ NoChunk.review = 0 /\ NoChunk.talk = "none"
      /\ NoChunk.status = "none"
  BY DEF NoChunk
<1>3. KnowledgeTypeOK
  BY <1>1, SizesAssumption DEF KnowledgeInit, KnowledgeTypeOK, NoChunk
<1>4. work \in [Runner -> Work]
  BY NoWorkType DEF KnowledgeInit
<1>5. RowsOK /\ OneRowOfReview /\ OneRowOfTalk /\ MinedIsKept
  BY <1>1, <1>2 DEF RowsOK, OneRowOfReview, OneRowOfTalk, MinedIsKept, Live
<1>6. \A w \in Runner : Indexes(w) /\ Approves(w)
  BY <1>1, NoWorkType DEF Indexes, Approves
<1>7. Mines
  BY <1>1, NoWorkType DEF Mines, Runner
<1>8. AnswersHold /\ DoneIsSearchable
  BY <1>1, <1>2 DEF AnswersHold, DoneIsSearchable
<1> QED
  BY <1>3, <1>4, <1>5, <1>6, <1>7, <1>8 DEF KnowledgeInv

LEMMA KnowledgeInvNext == KnowledgeInv /\ [KnowledgeNext]_knowledgeVars => KnowledgeInv'
<1> SUFFICES ASSUME KnowledgeInv, [KnowledgeNext]_knowledgeVars PROVE KnowledgeInv'
  OBVIOUS
<1>1. CASE \E r \in Review : Capture(r) \/ Reject(r)
  BY <1>1, ReviewKeeps
<1>2. ASSUME NEW w \in Writer,
             \/ \E r \in Review, a \in Solution : ApproveRead(w, r, a)
             \/ \E r \in Review : RetryIndex(w, r)
             \/ ApproveAgain(w) \/ ApproveFirst(w) \/ ApproveRefused(w) \/ ApproveReread(w)
             \/ ReplaceDocChunks(w) \/ DeleteOldVectors(w) \/ ResumeBuild(w)
      PROVE  KnowledgeInv'
  BY <1>2, ApproveReadKeeps, BeginIndexKeeps, ApproveAgainKeeps, ApproveFirstKeeps,
     RefusedKeeps, RereadKeeps, ReplaceKeeps, SweepKeeps
<1>3. CASE StartMining \/ MineNext
  BY <1>3, StageKeeps, DeduplicateKeeps, DecideKeeps, InsertKeeps DEF MineNext
<1>4. ASSUME NEW w \in Runner, Index(w) PROVE KnowledgeInv'
  BY <1>4, TryIndexKeeps, ReadPendingKeeps, UpsertKeeps, MarkKeeps DEF Index
<1>5. ASSUME NEW w \in Runner, Abandon(w) PROVE KnowledgeInv'
  BY <1>5, QuitKeeps DEF Abandon
<1>6. CASE UNCHANGED knowledgeVars
  <2>1. UNCHANGED <<chunks, last, vectors, reviews, talks, work>>
    BY <1>6 DEF knowledgeVars
  <2>2. KnowledgeTypeOK' /\ (work \in [Runner -> Work])'
    BY <2>1, <1>6 DEF knowledgeVars, KnowledgeInv, KnowledgeTypeOK
  <2>3. RowsOK' /\ OneRowOfReview' /\ OneRowOfTalk' /\ MinedIsKept'
    BY <2>1 DEF KnowledgeInv, RowsOK, OneRowOfReview, OneRowOfTalk, Live, MinedIsKept
  <2>4. ASSUME NEW w \in Runner PROVE Indexes(w)' /\ Approves(w)'
    <3>1. Indexes(w) /\ Approves(w)
      BY DEF KnowledgeInv
    <3>2. Indexes(w)'
      BY <2>1, <3>1 DEF Indexes, Live
    <3>3. Approves(w)'
      BY <2>1, <3>1 DEF Approves, ChunkOf, Live
    <3> QED
      BY <3>2, <3>3
  <2>5. Mines'
    BY <2>1 DEF KnowledgeInv, Mines, Extracted
  <2>6. AnswersHold' /\ DoneIsSearchable'
    BY <2>1 DEF KnowledgeInv, AnswersHold, DoneIsSearchable, ChunkOf, Live
  <2> QED
    BY <2>2, <2>3, <2>4, <2>5, <2>6 DEF KnowledgeInv
<1> QED
  BY <1>1, <1>2, <1>3, <1>4, <1>5, <1>6 DEF KnowledgeNext

\* The rows, the vectors, the reviews and what every writer has in hand agree, for
\* any number of writers, reviews, conversations and stops.
THEOREM KnowledgeInvariant == KnowledgeSpec => []KnowledgeInv
<1> QED
  BY KnowledgeInvInit, KnowledgeInvNext, PTL DEF KnowledgeSpec

\* A review with an approved answer has one chunk with that answer, and who is past
\* the commit works on it (flywheel.py:146-191).
THEOREM ApprovalsHold == KnowledgeSpec => []ApprovalHolds
<1>1. KnowledgeInv => ApprovalHolds
  BY DEF KnowledgeInv, AnswersHold, Approves, ApprovalHolds, Runner
<1> QED
  BY <1>1, KnowledgeInvariant, PTL

\* A chunk that is marked done is in the vector store (kb.py:188-210).
THEOREM DoneIsIndexed == KnowledgeSpec => []DoneIsSearchable
<1>1. KnowledgeInv => DoneIsSearchable
  BY DEF KnowledgeInv
<1> QED
  BY <1>1, KnowledgeInvariant, PTL

\* The pair of a conversation becomes knowledge at most once (mine_qa.py:97-108).
THEOREM PairsAreMinedOnce == KnowledgeSpec => []MinedOnce
<1>1. ASSUME KnowledgeInv, NEW t \in Talk
      PROVE  Cardinality({c \in ChunkId : chunks[c].talk = t}) <= 1
  <2> DEFINE mined == {c \in ChunkId : chunks[c].talk = t}
  <2>1. \A c, d \in mined : c = d
    BY <1>1, NameAssumption DEF KnowledgeInv, OneRowOfTalk
  <2>2. mined = {} \/ \E c : mined = {c}
    BY <2>1
  <2> HIDE DEF mined
  <2>3. Cardinality(mined) \in {0, 1}
    BY <2>2, FS_EmptySet, FS_Singleton
  <2> QED
    BY <2>3 DEF mined
<1>2. KnowledgeInv => MinedOnce
  BY <1>1 DEF MinedOnce
<1> QED
  BY <1>2, KnowledgeInvariant, PTL

-----------------------------------------------------------------------------
(* The retrieval caches.                                                   *)

\* The flight that a call of t makes for k.
FlightOf(t, k) == [key |-> k, leader |-> t, call |-> call[t].no]

\* A key's flight is held by its leader's call, and the other way round.
LeaderHolds ==
  \A k \in Key : inflight[k] # NoFlight =>
    /\ k \in call[inflight[k].leader].leads
    /\ inflight[k] = FlightOf(inflight[k].leader, k)

LedIsInflight ==
  \A t \in Thread : \A k \in call[t].leads : inflight[k] = FlightOf(t, k)

\* No answer is kept for a key in flight.
InflightNotKept == \A k \in Key : inflight[k] # NoFlight => entry[k] = "none"

\* Where a call is, as far as its flights go.
CallShape ==
  \A t \in Thread :
    /\ call[t].pc \in {"idle", "wait"} => call[t].leads = {}
    /\ call[t].pc # "idle" => call[t].no # 0
    /\ call[t].pc = "signal" => /\ call[t].last \in Flight
                                /\ call[t].last.leader = t
                                /\ call[t].last.call = call[t].no
                                /\ outcome[call[t].last] # "open"

\* An event is set only after the outcome.
LandedHasOutcome == \A f \in landed : outcome[f] # "open"

\* A flight that somebody waits for has landed, or its leader still holds it.
Held(f) ==
  /\ call[f.leader].no = f.call
  /\ \/ f.key \in call[f.leader].leads
     \/ call[f.leader].pc = "signal" /\ call[f.leader].last = f

WaitedFor == \A t \in Thread : \A f \in call[t].waits : f \in landed \/ Held(f)

CacheInv ==
  /\ CacheTypes
  /\ LeaderHolds
  /\ LedIsInflight
  /\ InflightNotKept
  /\ CallShape
  /\ LandedHasOutcome
  /\ WaitedFor

\* What NoLostFlight says follows.
LEMMA InvGivesNoLostFlight == CacheInv => NoLostFlight
<1> SUFFICES ASSUME CacheInv,
                    NEW t \in Thread, NEW f \in call[t].waits,
                    f \notin landed
             PROVE  /\ call[f.leader].no = f.call
                    /\ \/ call[f.leader].pc \in {"look", "ask", "store", "fail", "signal"}
                            /\ f.key \in call[f.leader].leads
                       \/ call[f.leader].pc = "signal" /\ call[f.leader].last = f
  BY DEF NoLostFlight, CacheInv, LandedHasOutcome
<1>1. f \in Flight /\ f.leader \in Thread
  BY DEF CacheInv, CacheTypes, Call, Flight
<1>2. Held(f)
  BY DEF CacheInv, WaitedFor
<1>3. f.key \in call[f.leader].leads
        => call[f.leader].pc \in {"look", "ask", "store", "fail", "signal"}
  BY <1>1 DEF CacheInv, CallShape, CacheTypes, Call
<1> QED BY <1>2, <1>3 DEF Held

LEMMA InvGivesSingleFlight == CacheInv => SingleFlight
<1> SUFFICES ASSUME CacheInv, NEW k \in Key, NEW t \in Thread, k \in call[t].leads
             PROVE  /\ \A u \in Thread : k \in call[u].leads => t = u
                    /\ entry[k] = "none"
  BY DEF SingleFlight
<1>1. inflight[k] = FlightOf(t, k)
  BY DEF CacheInv, LedIsInflight
<1>2. ASSUME NEW u \in Thread, k \in call[u].leads PROVE t = u
  <2>1. FlightOf(t, k) = FlightOf(u, k)
    BY <1>1, <1>2 DEF CacheInv, LedIsInflight
  <2>2. FlightOf(t, k).leader = t /\ FlightOf(u, k).leader = u
    BY DEF FlightOf
  <2> QED BY <2>1, <2>2
<1>3. call[t].no \in 1..MaxCalls
  <2>1. call[t] \in Call /\ call[t].pc # "idle" /\ call[t].no # 0
    BY DEF CacheInv, CacheTypes, CallShape
  <2> QED BY <2>1, CallsAssumption DEF Call
<1>4. FlightOf(t, k) \in Flight
  BY <1>3 DEF FlightOf, Flight
<1>5. entry[k] = "none"
  BY <1>1, <1>4, NoFlightAssumption DEF CacheInv, InflightNotKept
<1> QED BY <1>2, <1>5

LEMMA InitInv == CacheInit => CacheInv
<1> SUFFICES ASSUME CacheInit PROVE CacheInv
  OBVIOUS
<1>1. CacheTypes
  BY CallsAssumption DEF CacheInit, CacheTypes, Call
<1> QED BY <1>1 DEF CacheInit, CacheInv, LeaderHolds, LedIsInflight, InflightNotKept,
                    CallShape, LandedHasOutcome, WaitedFor

-----------------------------------------------------------------------------
(***************************************************************************)
(* The steps keep the invariant.                                           *)
(***************************************************************************)
\* A step that changes one call, but not the flights it holds: starts, hits,
\* joins, the provider's answer, the end of a wait.
LEMMA QuietLookup ==
  ASSUME CacheInv, NEW t \in Thread, NEW c \in Call,
         call' = [call EXCEPT ![t] = c],
         c.leads = call[t].leads,
         c.no = call[t].no \/ (call[t].pc = "idle" /\ c.no # 0),
         \A f \in c.waits : f \in call[t].waits \/ Held(f),
         call[t].pc # "signal", c.pc # "signal",
         c.pc \in {"idle", "wait"} => c.leads = {},
         c.pc # "idle" => c.no # 0,
         entry' \in [Key -> {"none", "live", "expired"}],
         \A k \in Key : entry[k] = "none" => entry'[k] = "none",
         UNCHANGED <<inflight, outcome, landed>>
  PROVE  CacheInv'
<1> USE DEF CacheInv
<1>1. CacheTypes' BY DEF CacheTypes
<1>2. \A u \in Thread : call'[u] = IF u = t THEN c ELSE call[u]
  BY DEF CacheTypes
<1>3. \A k \in Key : inflight[k] # NoFlight => inflight[k] \in Flight /\ inflight[k].leader \in Thread
  BY DEF CacheTypes, Flight
<1>4. \A u \in Thread : call'[u].leads = call[u].leads
  BY <1>2
<1>5. \A u \in Thread : \A k \in call[u].leads : call'[u].no = call[u].no
  BY <1>2 DEF CallShape
<1>6. LeaderHolds'
  <2> SUFFICES ASSUME NEW k \in Key, inflight[k] # NoFlight
               PROVE  /\ k \in call'[inflight[k].leader].leads
                      /\ inflight[k] = [key |-> k, leader |-> inflight[k].leader,
                                        call |-> call'[inflight[k].leader].no]
    BY DEF LeaderHolds, FlightOf
  <2>1. inflight[k].leader \in Thread BY <1>3
  <2>2. /\ k \in call[inflight[k].leader].leads
        /\ inflight[k] = [key |-> k, leader |-> inflight[k].leader,
                          call |-> call[inflight[k].leader].no]
    BY DEF LeaderHolds, FlightOf
  <2> QED BY <2>1, <2>2, <1>4, <1>5
<1>7. LedIsInflight'
  BY <1>4, <1>5 DEF LedIsInflight, FlightOf
<1>8. InflightNotKept' BY DEF InflightNotKept
<1>9. CallShape' BY <1>2 DEF CallShape
<1>10. LandedHasOutcome' BY DEF LandedHasOutcome
<1>11. WaitedFor'
  <2> SUFFICES ASSUME NEW u \in Thread, NEW f \in call'[u].waits, f \notin landed
               PROVE  Held(f)'
    BY DEF WaitedFor
  <2>1. f \in Flight BY <1>2 DEF CacheTypes, Call
  <2>2. Held(f) BY <1>2 DEF WaitedFor
  <2>3. f.leader \in Thread BY <2>1 DEF Flight
  <2>4. CASE f.key \in call[f.leader].leads
    BY <2>2, <2>3, <2>4, <1>4, <1>5 DEF Held
  <2>5. CASE call[f.leader].pc = "signal" /\ call[f.leader].last = f
    BY <2>2, <2>3, <2>5, <1>2 DEF Held
  <2> QED BY <2>2, <2>4, <2>5 DEF Held
<1> QED BY <1>1, <1>6, <1>7, <1>8, <1>9, <1>10, <1>11

\* Waiting and Over keep what a call holds.
LEMMA WaitingShape ==
  ASSUME NEW c \in Call
  PROVE  /\ Over(c) \in Call /\ Over(c).no = c.no /\ Over(c).leads = c.leads
         /\ Over(c).waits = {} /\ Over(c).pc = "idle"
         /\ Waiting(c) \in Call /\ Waiting(c).no = c.no /\ Waiting(c).leads = c.leads
         /\ Waiting(c).waits = c.waits /\ Waiting(c).pc \in {"idle", "wait"}
<1>1. /\ Over(c) \in Call /\ Over(c).no = c.no /\ Over(c).leads = c.leads
      /\ Over(c).waits = {} /\ Over(c).pc = "idle"
  BY DEF Over, Call
<1>2. CASE c.waits = {} BY <1>1, <1>2 DEF Waiting
<1>3. CASE c.waits # {}
  <2>1. Waiting(c) = [c EXCEPT !.pc = "wait"] BY <1>3 DEF Waiting
  <2> QED BY <1>1, <2>1 DEF Call
<1> QED BY <1>2, <1>3

\* What a lookup makes of its call.
LEMMA LookedShape ==
  ASSUME NEW c \in Call, NEW k \in Key, NEW leads \in SUBSET Key, NEW waits \in SUBSET Flight,
         c.pc = "look"
  PROVE  /\ Looked(c, k, leads, waits) \in Call
         /\ Looked(c, k, leads, waits).no = c.no
         /\ Looked(c, k, leads, waits).leads = leads
         /\ Looked(c, k, leads, waits).waits = waits
         /\ Looked(c, k, leads, waits).pc # "signal"
         /\ Looked(c, k, leads, waits).pc \in {"idle", "wait"} => leads = {}
<1> DEFINE d == Taken(c, k, leads, waits)
<1>1. d \in Call /\ d.no = c.no /\ d.leads = leads /\ d.waits = waits /\ d.pc = "look"
  BY DEF Call, Taken
<1>2. Looked(c, k, leads, waits) = AfterLookup(d)
  BY DEF Looked
<1> HIDE DEF d
<1>3. CASE d.todo # {}
  BY <1>1, <1>2, <1>3 DEF AfterLookup
<1>4. CASE d.todo = {} /\ d.leads # {}
  <2>1. AfterLookup(d) = [d EXCEPT !.pc = "ask"]
    BY <1>4 DEF AfterLookup
  <2> QED BY <1>1, <1>2, <1>4, <2>1 DEF Call
<1>5. CASE d.todo = {} /\ d.leads = {}
  <2>1. AfterLookup(d) = Waiting(d)
    BY <1>5 DEF AfterLookup
  <2> QED BY <1>1, <1>2, <1>5, <2>1, WaitingShape
<1> QED BY <1>3, <1>4, <1>5

\* The call of a thread is one, and with a number unless it is idle.
LEMMA CallOf ==
  ASSUME CacheInv, NEW t \in Thread
  PROVE  call[t] \in Call /\ (call[t].pc # "idle" => call[t].no # 0)
BY DEF CacheInv, CacheTypes, CallShape

LEMMA StartInv == ASSUME CacheInv, NEW t \in Thread, Start(t) PROVE CacheInv'
<1>1. PICK texts \in (SUBSET Key) \ {{}} :
        call' = [call EXCEPT ![t].no = @ + 1, ![t].pc = "look", ![t].todo = texts]
  BY DEF Start
<1> DEFINE c == [call[t] EXCEPT !.no = @ + 1, !.pc = "look", !.todo = texts]
<1>2. /\ c \in Call /\ c.no # 0 /\ c.pc = "look"
      /\ c.leads = call[t].leads /\ c.waits = call[t].waits
  <2>1. call[t] \in Call /\ call[t].no < MaxCalls
    BY CallOf DEF Start
  <2>2. call[t].no + 1 \in 0..MaxCalls /\ call[t].no + 1 # 0
    BY <2>1, CallsAssumption DEF Call
  <2> QED BY <2>1, <2>2 DEF Call
<1>3. call \in [Thread -> Call] /\ entry \in [Key -> {"none", "live", "expired"}]
  BY DEF CacheInv, CacheTypes
<1>4. call' = [call EXCEPT ![t] = c]
  BY <1>1, <1>3
<1> HIDE DEF c
<1> QED BY <1>2, <1>3, <1>4, QuietLookup DEF Start

LEMMA HitInv == ASSUME CacheInv, NEW t \in Thread, NEW k \in Key, Hit(t, k) PROVE CacheInv'
<1> DEFINE c == Looked(call[t], k, call[t].leads, call[t].waits)
<1>1. call[t] \in Call /\ call[t].no # 0 /\ call[t].pc = "look"
  BY CallOf DEF Hit
<1>2. call[t].leads \in SUBSET Key /\ call[t].waits \in SUBSET Flight
  BY <1>1 DEF Call
<1>3. /\ c \in Call /\ c.no = call[t].no /\ c.leads = call[t].leads
      /\ c.waits \subseteq call[t].waits /\ c.pc # "signal"
      /\ c.pc \in {"idle", "wait"} => c.leads = {}
  BY <1>1, <1>2, LookedShape
<1>4. call' = [call EXCEPT ![t] = c]
  BY DEF Hit
<1>5. entry \in [Key -> {"none", "live", "expired"}]
  BY DEF CacheInv, CacheTypes
<1> HIDE DEF c
<1> QED BY <1>1, <1>3, <1>4, <1>5, QuietLookup DEF Hit

LEMMA ProviderInv ==
  ASSUME CacheInv, NEW t \in Thread, ProviderAnswers(t) \/ ProviderRaises(t)
  PROVE  CacheInv'
<1>1. PICK pc \in {"store", "fail"}, asked \in {"answer", "error"} :
        call' = [call EXCEPT ![t].pc = pc, ![t].asked = asked]
  BY DEF ProviderAnswers, ProviderRaises
<1> DEFINE c == [call[t] EXCEPT !.pc = pc, !.asked = asked]
<1>2. call[t] \in Call /\ call[t].no # 0 /\ call[t].pc = "ask"
  BY CallOf DEF ProviderAnswers, ProviderRaises
<1>3. /\ c \in Call /\ c.no = call[t].no /\ c.leads = call[t].leads
      /\ c.waits = call[t].waits /\ c.pc \in {"store", "fail"}
  BY <1>2 DEF Call
<1>4. call \in [Thread -> Call] /\ entry \in [Key -> {"none", "live", "expired"}]
  BY DEF CacheInv, CacheTypes
<1>5. call' = [call EXCEPT ![t] = c]
  BY <1>1, <1>4
<1> HIDE DEF c
<1> QED BY <1>2, <1>3, <1>4, <1>5, QuietLookup DEF ProviderAnswers, ProviderRaises

LEMMA WaitInv == ASSUME CacheInv, NEW t \in Thread, NEW f \in Flight, Wait(t, f) PROVE CacheInv'
<1> DEFINE c == Waited(call[t], f)
           d == [call[t] EXCEPT !.waits = call[t].waits \ {f}]
<1>1. call[t] \in Call /\ call[t].no # 0 /\ call[t].pc = "wait" /\ call[t].leads = {}
  BY CallOf DEF Wait, CacheInv, CallShape
<1>2. d \in Call /\ d.no = call[t].no /\ d.leads = call[t].leads /\ d.waits \subseteq call[t].waits
  BY <1>1 DEF Call
<1>3. c = Over(call[t]) \/ c = Waiting(d)
  BY DEF Waited
<1> HIDE DEF d
<1>4. /\ c \in Call /\ c.no = call[t].no /\ c.leads = call[t].leads
      /\ c.waits \subseteq call[t].waits /\ c.pc \in {"idle", "wait"}
  BY <1>1, <1>2, <1>3, WaitingShape
<1>5. call' = [call EXCEPT ![t] = c]
  BY DEF Wait
<1>6. entry \in [Key -> {"none", "live", "expired"}]
  BY DEF CacheInv, CacheTypes
<1> HIDE DEF c
<1> QED BY <1>1, <1>4, <1>5, <1>6, QuietLookup DEF Wait

LEMMA ExpireInv == ASSUME CacheInv, NEW k \in Key, Expire(k) PROVE CacheInv'
<1> USE DEF CacheInv, Expire
<1>1. CacheTypes' BY DEF CacheTypes
<1>2. InflightNotKept' BY DEF InflightNotKept, CacheTypes
<1> QED BY <1>1, <1>2 DEF LeaderHolds, LedIsInflight, FlightOf, CallShape,
                          LandedHasOutcome, WaitedFor, Held

LEMMA JoinInv == ASSUME CacheInv, NEW t \in Thread, NEW k \in Key, Join(t, k) PROVE CacheInv'
<1> DEFINE waits == call[t].waits \cup {inflight[k]}
           c == Looked(call[t], k, call[t].leads, waits)
<1>1. call[t] \in Call /\ call[t].no # 0 /\ call[t].pc = "look"
  BY CallOf DEF Join
<1>2. inflight[k] \in Flight /\ Held(inflight[k])
  <2>1. inflight[k] \in Flight
    BY DEF Join, CacheInv, CacheTypes
  <2>2. /\ k \in call[inflight[k].leader].leads
        /\ inflight[k] = [key |-> k, leader |-> inflight[k].leader,
                          call |-> call[inflight[k].leader].no]
    BY DEF Join, CacheInv, LeaderHolds, FlightOf
  <2>3. inflight[k].key = k /\ inflight[k].call = call[inflight[k].leader].no
    BY <2>2
  <2> QED BY <2>1, <2>2, <2>3 DEF Held
<1>3. call[t].leads \in SUBSET Key /\ waits \in SUBSET Flight
  BY <1>1, <1>2 DEF Call
<1>4. \A f \in waits : f \in call[t].waits \/ Held(f)
  BY <1>2
<1> HIDE DEF waits
<1>5. /\ c \in Call /\ c.no = call[t].no /\ c.leads = call[t].leads
      /\ c.waits = waits /\ c.pc # "signal"
      /\ c.pc \in {"idle", "wait"} => c.leads = {}
  BY <1>1, <1>3, LookedShape
<1>6. call' = [call EXCEPT ![t] = c]
  BY DEF Join, waits
<1>7. /\ entry' \in [Key -> {"none", "live", "expired"}]
      /\ \A x \in Key : entry[x] = "none" => entry'[x] = "none"
  BY DEF Join, Dropped, CacheInv, CacheTypes
<1> HIDE DEF c
<1> QED BY <1>1, <1>4, <1>5, <1>6, <1>7, QuietLookup DEF Join

\* The flight that a call makes is a flight, and tells who made it.
LEMMA FlightOfCall ==
  ASSUME CacheInv, NEW t \in Thread, NEW k \in Key, call[t].pc # "idle"
  PROVE  /\ FlightOf(t, k) \in Flight /\ FlightOf(t, k) # NoFlight
         /\ FlightOf(t, k).key = k /\ FlightOf(t, k).leader = t
         /\ FlightOf(t, k).call = call[t].no
<1>1. call[t].no \in 1..MaxCalls
  <2>1. call[t].no \in 0..MaxCalls /\ call[t].no # 0
    BY CallOf DEF Call
  <2> QED BY <2>1, CallsAssumption
<1> QED BY <1>1, NoFlightAssumption DEF FlightOf, Flight

LEMMA LeadInv == ASSUME CacheInv, NEW t \in Thread, NEW k \in Key, Lead(t, k) PROVE CacheInv'
<1> DEFINE leads == call[t].leads \cup {k}
           c == Looked(call[t], k, leads, call[t].waits)
           f == FlightOf(t, k)
<1>1. call[t] \in Call /\ call[t].no # 0 /\ call[t].pc = "look"
  BY CallOf DEF Lead
<1>2. leads \in SUBSET Key /\ call[t].waits \in SUBSET Flight
  BY <1>1 DEF Call
<1>3. /\ c \in Call /\ c.no = call[t].no /\ c.leads = leads
      /\ c.waits = call[t].waits /\ c.pc # "signal"
      /\ c.pc \in {"idle", "wait"} => c.leads = {}
  BY <1>1, <1>2, LookedShape
<1>4. f \in Flight /\ f # NoFlight /\ f.key = k /\ f.leader = t /\ f.call = call[t].no
  BY <1>1, FlightOfCall
<1>5. inflight' = [inflight EXCEPT ![k] = f] /\ inflight[k] = NoFlight
  BY DEF Lead, FlightOf
<1>6. call' = [call EXCEPT ![t] = c]
  BY DEF Lead
<1>7. entry' = [entry EXCEPT ![k] = "none"] /\ UNCHANGED <<outcome, landed>>
  BY DEF Lead, Dropped
<1>8. f = [key |-> k, leader |-> t, call |-> call[t].no]
  BY DEF FlightOf
<1> HIDE DEF c, f
<1> USE DEF CacheInv
<1>9. \A u \in Thread : call'[u] = IF u = t THEN c ELSE call[u]
  BY <1>6 DEF CacheTypes
<1>10. \A x \in Key : inflight'[x] = IF x = k THEN f ELSE inflight[x]
  BY <1>5 DEF CacheTypes
<1>11. \A u \in Thread : call'[u].no = call[u].no /\ call[u].leads \subseteq call'[u].leads
  BY <1>3, <1>9
<1>12. CacheTypes'
  BY <1>3, <1>4, <1>5, <1>6, <1>7 DEF CacheTypes
<1>13. LeaderHolds'
  <2> SUFFICES ASSUME NEW x \in Key, inflight'[x] # NoFlight
               PROVE  /\ x \in call'[inflight'[x].leader].leads
                      /\ inflight'[x] = [key |-> x, leader |-> inflight'[x].leader,
                                         call |-> call'[inflight'[x].leader].no]
    BY DEF LeaderHolds, FlightOf
  <2>1. CASE x = k
    BY <2>1, <1>3, <1>4, <1>8, <1>9, <1>10
  <2>2. CASE x # k
    <3>1. inflight'[x] = inflight[x] /\ inflight[x].leader \in Thread
      BY <2>2, <1>10 DEF CacheTypes, Flight
    <3>2. /\ x \in call[inflight[x].leader].leads
          /\ inflight[x] = [key |-> x, leader |-> inflight[x].leader,
                            call |-> call[inflight[x].leader].no]
      BY <3>1 DEF LeaderHolds, FlightOf
    <3> QED BY <3>1, <3>2, <1>11
  <2> QED BY <2>1, <2>2
<1>14. LedIsInflight'
  <2> SUFFICES ASSUME NEW u \in Thread, NEW x \in call'[u].leads
               PROVE  inflight'[x] = [key |-> x, leader |-> u, call |-> call'[u].no]
    BY DEF LedIsInflight, FlightOf
  <2>1. CASE u = t /\ x = k
    BY <2>1, <1>8, <1>9, <1>3, <1>10
  <2>2. CASE ~(u = t /\ x = k)
    <3>1. x \in call[u].leads /\ x \in Key
      BY <2>2, <1>3, <1>9, <1>12 DEF CacheTypes, Call
    <3>2. inflight[x] = FlightOf(u, x)
      BY <3>1 DEF LedIsInflight
    <3>3. FlightOf(u, x) # NoFlight
      BY <3>1, FlightOfCall DEF CallShape
    <3> QED BY <3>1, <3>2, <3>3, <1>5, <1>10, <1>11 DEF FlightOf
  <2> QED BY <2>1, <2>2
<1>15. InflightNotKept'
  BY <1>7, <1>10 DEF InflightNotKept, CacheTypes
<1>16. CallShape'
  BY <1>1, <1>3, <1>7, <1>9 DEF CallShape
<1>17. LandedHasOutcome'
  BY <1>7 DEF LandedHasOutcome
<1>18. WaitedFor'
  <2> SUFFICES ASSUME NEW u \in Thread, NEW g \in call'[u].waits, g \notin landed
               PROVE  Held(g)'
    BY <1>7 DEF WaitedFor
  <2>1. g \in call[u].waits BY <1>3, <1>9
  <2>2. Held(g) /\ g.leader \in Thread
    BY <2>1 DEF WaitedFor, CacheTypes, Call, Flight
  <2> QED BY <2>2, <1>1, <1>9, <1>11 DEF Held
<1> QED BY <1>12, <1>13, <1>14, <1>15, <1>16, <1>17, <1>18

\* finish and fail: the flight leaves the table with an outcome, and its event
\* is about to be set.
LEMMA ResolveInv ==
  ASSUME CacheInv, NEW t \in Thread, NEW k \in call[t].leads,
         call[t].pc \in {"store", "fail"},
         NEW result \in {"value", "error"}, Resolve(t, k, result),
         entry' \in [Key -> {"none", "live", "expired"}],
         \A x \in Key \ {k} : entry[x] = "none" => entry'[x] = "none"
  PROVE  CacheInv'
<1> DEFINE f == FlightOf(t, k)
           c == [call[t] EXCEPT !.leads = call[t].leads \ {k}, !.pc = "signal", !.last = f]
<1> USE DEF CacheInv
<1>1. call[t] \in Call /\ call[t].no # 0 /\ call[t].pc # "idle" /\ call[t].pc # "signal"
  BY CallOf
<1>2. k \in Key
  BY <1>1 DEF Call
<1>3. f \in Flight /\ f # NoFlight /\ f.key = k /\ f.leader = t /\ f.call = call[t].no
  BY <1>1, <1>2, FlightOfCall
<1>4. f = [key |-> k, leader |-> t, call |-> call[t].no]
  BY DEF FlightOf
<1>5. /\ inflight' = [inflight EXCEPT ![k] = NoFlight]
      /\ outcome' = [outcome EXCEPT ![f] = result]
      /\ call' = [call EXCEPT ![t].leads = @ \ {k}, ![t].pc = "signal", ![t].last = f]
      /\ UNCHANGED landed
  BY <1>4 DEF Resolve
<1> HIDE DEF f
<1>6. /\ c \in Call /\ c.no = call[t].no /\ c.leads = call[t].leads \ {k}
      /\ c.waits = call[t].waits /\ c.pc = "signal" /\ c.last = f
  BY <1>1, <1>3 DEF Call
<1>7. call' = [call EXCEPT ![t] = c]
  BY <1>5 DEF CacheTypes
<1> HIDE DEF c
<1>8. \A u \in Thread : call'[u] = IF u = t THEN c ELSE call[u]
  BY <1>7 DEF CacheTypes
<1>9. \A u \in Thread : call'[u].no = call[u].no
  BY <1>6, <1>8
<1>10. \A x \in Key : inflight'[x] = IF x = k THEN NoFlight ELSE inflight[x]
  BY <1>5 DEF CacheTypes
<1>11. \A g \in Flight : outcome'[g] = IF g = f THEN result ELSE outcome[g]
  BY <1>5 DEF CacheTypes
<1>12. CacheTypes'
  <2>1. inflight' \in [Key -> Flight \cup {NoFlight}]
    BY <1>5 DEF CacheTypes
  <2>2. outcome' \in [Flight -> {"open", "value", "error"}]
    BY <1>5 DEF CacheTypes
  <2>3. call' \in [Thread -> Call]
    BY <1>6, <1>7 DEF CacheTypes
  <2>4. landed' \subseteq Flight
    BY <1>5 DEF CacheTypes
  <2> QED BY <2>1, <2>2, <2>3, <2>4 DEF CacheTypes
<1>13. LeaderHolds'
  <2> SUFFICES ASSUME NEW x \in Key, inflight'[x] # NoFlight
               PROVE  /\ x \in call'[inflight'[x].leader].leads
                      /\ inflight'[x] = [key |-> x, leader |-> inflight'[x].leader,
                                         call |-> call'[inflight'[x].leader].no]
    BY DEF LeaderHolds, FlightOf
  <2>1. x # k /\ inflight'[x] = inflight[x] /\ inflight[x].leader \in Thread
    BY <1>10 DEF CacheTypes, Flight
  <2>2. /\ x \in call[inflight[x].leader].leads
        /\ inflight[x] = [key |-> x, leader |-> inflight[x].leader,
                          call |-> call[inflight[x].leader].no]
    BY <2>1 DEF LeaderHolds, FlightOf
  <2>3. x \in call'[inflight[x].leader].leads
    BY <2>1, <2>2, <1>6, <1>8
  <2> QED BY <2>1, <2>2, <2>3, <1>9
<1>14. LedIsInflight'
  <2> SUFFICES ASSUME NEW u \in Thread, NEW x \in call'[u].leads
               PROVE  inflight'[x] = [key |-> x, leader |-> u, call |-> call'[u].no]
    BY DEF LedIsInflight, FlightOf
  <2>1. x \in call[u].leads /\ x \in Key
    BY <1>6, <1>8, <1>12 DEF CacheTypes, Call
  <2>2. x # k
    <3>1. SUFFICES ASSUME x = k PROVE FALSE
      OBVIOUS
    <3>2. u # t
      BY <3>1, <1>6, <1>8
    <3>3. u = t
      BY <2>1, <3>1, InvGivesSingleFlight DEF SingleFlight
    <3> QED BY <3>2, <3>3
  <2> QED BY <2>1, <2>2, <1>9, <1>10 DEF LedIsInflight, FlightOf
<1>15. InflightNotKept'
  BY <1>10 DEF InflightNotKept
<1>16. CallShape'
  BY <1>1, <1>3, <1>6, <1>8, <1>11 DEF CallShape
<1>17. LandedHasOutcome'
  BY <1>5, <1>11 DEF LandedHasOutcome, CacheTypes
<1>18. WaitedFor'
  <2> SUFFICES ASSUME NEW u \in Thread, NEW g \in call'[u].waits, g \notin landed
               PROVE  Held(g)'
    BY <1>5 DEF WaitedFor
  <2>1. g \in call[u].waits
    BY <1>6, <1>8
  <2>2. Held(g) /\ g \in Flight /\ g.leader \in Thread
    BY <2>1 DEF WaitedFor, CacheTypes, Call, Flight
  <2>3. CASE g.leader # t
    BY <2>2, <2>3, <1>8 DEF Held
  <2>4. CASE g.leader = t /\ g.key # k
    BY <2>2, <2>4, <1>1, <1>6, <1>8 DEF Held
  <2>5. CASE g.leader = t /\ g.key = k
    <3>1. g.call = call[t].no
      BY <2>2, <2>5 DEF Held
    <3>2. g = f
      BY <2>2, <2>5, <3>1, <1>4 DEF Flight
    <3> QED BY <3>2, <1>3, <1>6, <1>8 DEF Held
  <2> QED BY <2>3, <2>4, <2>5
<1> QED BY <1>12, <1>13, <1>14, <1>15, <1>16, <1>17, <1>18

LEMMA FinishInv == ASSUME CacheInv, NEW t \in Thread, NEW k \in Key, Finish(t, k) PROVE CacheInv'
<1>1. entry \in [Key -> {"none", "live", "expired"}]
  BY DEF CacheInv, CacheTypes
<1>2. /\ entry' \in [Key -> {"none", "live", "expired"}]
      /\ \A x \in Key \ {k} : entry[x] = "none" => entry'[x] = "none"
  BY <1>1 DEF Finish
<1> QED BY <1>2, ResolveInv DEF Finish

LEMMA FailInv == ASSUME CacheInv, NEW t \in Thread, NEW k \in Key, Fail(t, k) PROVE CacheInv'
<1>1. entry \in [Key -> {"none", "live", "expired"}]
  BY DEF CacheInv, CacheTypes
<1> QED BY <1>1, ResolveInv DEF Fail

\* Setting an event keeps the flights that the call still leads.
LEMMA SignalledShape ==
  ASSUME NEW c \in Call
  PROVE  /\ Signalled(c) \in Call /\ Signalled(c).no = c.no /\ Signalled(c).leads = c.leads
         /\ Signalled(c).waits \subseteq c.waits /\ Signalled(c).pc # "signal"
         /\ Signalled(c).pc \in {"idle", "wait"} => c.leads = {}
<1> DEFINE d == [c EXCEPT !.last = NoFlight]
<1>1. /\ d \in Call /\ d.no = c.no /\ d.leads = c.leads /\ d.waits = c.waits
      /\ d.pc = c.pc /\ d.asked = c.asked
  BY DEF Call
<1>2. Signalled(c) = IF c.leads # {}
                       THEN [d EXCEPT !.pc = IF c.asked = "answer" THEN "store" ELSE "fail"]
                       ELSE IF c.asked = "answer" THEN Waiting(d) ELSE Over(d)
  BY DEF Signalled
<1> HIDE DEF d
<1>3. CASE c.leads # {}
  <2>1. PICK pc \in {"store", "fail"} : Signalled(c) = [d EXCEPT !.pc = pc]
    BY <1>2, <1>3
  <2> QED BY <1>1, <1>3, <2>1 DEF Call
<1>4. CASE c.leads = {}
  <2>1. Signalled(c) = Waiting(d) \/ Signalled(c) = Over(d)
    BY <1>2, <1>4
  <2> QED BY <1>1, <1>4, <2>1, WaitingShape
<1> QED BY <1>3, <1>4

LEMMA SignalInv == ASSUME CacheInv, NEW t \in Thread, Signal(t) PROVE CacheInv'
<1> DEFINE c == Signalled(call[t])
<1> USE DEF CacheInv
<1>1. call[t] \in Call /\ call[t].no # 0 /\ call[t].pc = "signal"
  BY CallOf DEF Signal
<1>2. /\ c \in Call /\ c.no = call[t].no /\ c.leads = call[t].leads
      /\ c.waits \subseteq call[t].waits /\ c.pc # "signal"
      /\ c.pc \in {"idle", "wait"} => c.leads = {}
  BY <1>1, SignalledShape
<1>3. call[t].last \in Flight /\ outcome[call[t].last] # "open"
  BY <1>1 DEF CallShape
<1>4. /\ landed' = landed \cup {call[t].last}
      /\ call' = [call EXCEPT ![t] = c]
      /\ UNCHANGED <<entry, inflight, outcome>>
  BY DEF Signal
<1> HIDE DEF c
<1>5. \A u \in Thread : call'[u] = IF u = t THEN c ELSE call[u]
  BY <1>4 DEF CacheTypes
<1>6. \A u \in Thread : call'[u].no = call[u].no /\ call'[u].leads = call[u].leads
  BY <1>2, <1>5
<1>7. CacheTypes'
  BY <1>2, <1>3, <1>4 DEF CacheTypes
<1>8. LeaderHolds'
  <2> SUFFICES ASSUME NEW x \in Key, inflight[x] # NoFlight
               PROVE  /\ x \in call'[inflight[x].leader].leads
                      /\ inflight[x] = [key |-> x, leader |-> inflight[x].leader,
                                        call |-> call'[inflight[x].leader].no]
    BY <1>4 DEF LeaderHolds, FlightOf
  <2>1. inflight[x].leader \in Thread
    BY DEF CacheTypes, Flight
  <2> QED BY <2>1, <1>6 DEF LeaderHolds, FlightOf
<1>9. LedIsInflight'
  BY <1>4, <1>6 DEF LedIsInflight, FlightOf
<1>10. InflightNotKept'
  BY <1>4 DEF InflightNotKept
<1>11. CallShape'
  BY <1>1, <1>2, <1>4, <1>5 DEF CallShape
<1>12. LandedHasOutcome'
  BY <1>3, <1>4 DEF LandedHasOutcome
<1>13. WaitedFor'
  <2> SUFFICES ASSUME NEW u \in Thread, NEW g \in call'[u].waits, g \notin landed'
               PROVE  Held(g)'
    BY DEF WaitedFor
  <2>1. g \in call[u].waits /\ g \notin landed /\ g # call[t].last
    BY <1>2, <1>4, <1>5
  <2>2. Held(g) /\ g.leader \in Thread
    BY <2>1 DEF WaitedFor, CacheTypes, Call, Flight
  <2>3. CASE g.leader = t
    BY <2>1, <2>2, <2>3, <1>6 DEF Held
  <2>4. CASE g.leader # t
    BY <2>2, <2>4, <1>5 DEF Held
  <2> QED BY <2>3, <2>4
<1> QED BY <1>7, <1>8, <1>9, <1>10, <1>11, <1>12, <1>13

\* Every step of every call keeps the invariant, and so does what changes
\* nothing.
LEMMA NextInv == CacheInv /\ [CacheNext]_cacheVars => CacheInv'
<1> SUFFICES ASSUME CacheInv, [CacheNext]_cacheVars PROVE CacheInv'
  OBVIOUS
<1>1. CASE UNCHANGED cacheVars
  BY <1>1 DEF cacheVars, CacheInv, CacheTypes, LeaderHolds, LedIsInflight, FlightOf,
              InflightNotKept, CallShape, LandedHasOutcome, WaitedFor, Held
<1>2. ASSUME NEW t \in Thread, Start(t) PROVE CacheInv'
  BY <1>2, StartInv
<1>3. ASSUME NEW t \in Thread, NEW k \in Key, Hit(t, k) PROVE CacheInv'
  BY <1>3, HitInv
<1>4. ASSUME NEW t \in Thread, NEW k \in Key, Join(t, k) PROVE CacheInv'
  BY <1>4, JoinInv
<1>5. ASSUME NEW t \in Thread, NEW k \in Key, Lead(t, k) PROVE CacheInv'
  BY <1>5, LeadInv
<1>6. ASSUME NEW t \in Thread, NEW k \in Key, Finish(t, k) PROVE CacheInv'
  BY <1>6, FinishInv
<1>7. ASSUME NEW t \in Thread, NEW k \in Key, Fail(t, k) PROVE CacheInv'
  BY <1>7, FailInv
<1>8. ASSUME NEW t \in Thread, ProviderAnswers(t) \/ ProviderRaises(t) PROVE CacheInv'
  BY <1>8, ProviderInv
<1>9. ASSUME NEW t \in Thread, Signal(t) PROVE CacheInv'
  BY <1>9, SignalInv
<1>10. ASSUME NEW t \in Thread, NEW f \in Flight, Wait(t, f) PROVE CacheInv'
  BY <1>10, WaitInv
<1>11. ASSUME NEW k \in Key, Expire(k) PROVE CacheInv'
  BY <1>11, ExpireInv
<1> QED BY <1>1, <1>2, <1>3, <1>4, <1>5, <1>6, <1>7, <1>8, <1>9, <1>10, <1>11
        DEF CacheNext, Step

-----------------------------------------------------------------------------
(***************************************************************************)
(* What the cache guarantees.                                              *)
(***************************************************************************)
\* The inductive invariant holds in every behaviour of the cache.
THEOREM CacheInvariant == CacheSpec => []CacheInv
<1> QED BY InitInv, NextInv, PTL DEF CacheSpec

\* A key is asked for by one thread at a time and by none while an answer is
\* kept: _SingleFlightTTL.begin, finish and fail under one lock.
THEOREM CacheSingleFlight == CacheSpec => []SingleFlight
<1> QED BY CacheInvariant, InvGivesSingleFlight, PTL

\* Whoever waits in embed or rerank waits for a flight that has landed or that
\* a call under way is going to land.
THEOREM CacheNoLostFlight == CacheSpec => []NoLostFlight
<1> QED BY CacheInvariant, InvGivesNoLostFlight, PTL

=============================================================================
