------------------------------- MODULE EvalCost -------------------------------
(***************************************************************************)
(* The calls of the retrieval and answer evaluations that keep a journal   *)
(* (ch16, the structured calls of query rewriting, answer verification),   *)
(* and the four files that account for them (scripts/eval_cost.py): the    *)
(* exact cache of a wrapper, the journal of results, the journal of        *)
(* attempts and the ledger of amounts.  A wrapper asks the tracker for     *)
(* leave, which opens an attempt; the answer goes to the journal, the      *)
(* amount to the ledger, and then the attempt is closed.                   *)
(*                                                                         *)
(* Left out: the runs of ch11 itself, which give their wrappers neither a  *)
(* journal nor an AttemptLedger (eval_ch11.py:225-302), and the embedder   *)
(* and the reranker of query rewriting, which get no journal               *)
(* (query_rewrite_ablation/runner.py:259-289): after a crash between the   *)
(* answer and the exact cache they pay for a request again.                *)
(*                                                                         *)
(* A process makes its calls in turn.  Each worktree has its own files but *)
(* the ledger, which all of them share; every call costs one unit.         *)
(***************************************************************************)
EXTENDS Integers, Sequences, FiniteSets

CONSTANTS
  Worktree,
  Request,      \* texts, rankings and prompts that are asked for
  Uses,         \* which wrapper each request may go through: functions on Request
  Usage,        \* whether the provider may report a usage, may leave it out
  LedgerLimit,  \* the ledger's limit
  RunLimit,     \* max_cost_usd of a tracker
  MaxAttempts,  \* bound: attempts of a worktree
  MaxFalls      \* bound: processes that end

ASSUME UsageAssumption == Usage \subseteq BOOLEAN
ASSUME LimitsAssumption == LedgerLimit \in Nat /\ RunLimit \in Nat

VARIABLES
  using,     \* the wrapper of each request
  booked,    \* BudgetLedger: what all its records amount to
  attempts,  \* AttemptLedger of each worktree: how its attempts stand
  results,   \* CallResultJournal of each worktree
  kept,      \* the exact caches of each worktree
  tracker,   \* the process of each worktree, with its CostTracker
  paid,      \* answers the provider gave each worktree
  falls      \* processes that ended

costVars == <<using, booked, attempts, results, kept, tracker, paid, falls>>

(***************************************************************************)
(* The wrappers.  exact: keeps answers in a cache of its own; journaled:   *)
(* looks in the journal; audited: through AuditedChat, which books the     *)
(* usage itself; adds: when it calls add, a hit in the journal being       *)
(* served (always), not then (live), or never; parsed: whether an answer   *)
(* it cannot read fails the attempt, or is raised past it.                 *)
(***************************************************************************)
GuardedEmbedder ==
  [kind |-> "embedding", exact |-> TRUE, journaled |-> TRUE, audited |-> FALSE,
   adds |-> "live", parsed |-> "never"]

GuardedReranker == [GuardedEmbedder EXCEPT !.kind = "rerank", !.adds = "always"]

GuardedEvidenceJudge ==
  [kind |-> "evidence_judge", exact |-> TRUE, journaled |-> TRUE, audited |-> TRUE,
   adds |-> "always", parsed |-> "fails"]

GuardedFaithfulnessJudge == [GuardedEvidenceJudge EXCEPT !.kind = "faithfulness_judge"]

GuardedGapAnalyzer == [GuardedEvidenceJudge EXCEPT !.kind = "gap_analyzer"]

RunAnswerCase == [GuardedEvidenceJudge EXCEPT !.kind = "answer", !.parsed = "never"]

GuardedAnswerSemantic ==
  [kind |-> "answer_verifier", exact |-> TRUE, journaled |-> FALSE, audited |-> FALSE,
   adds |-> "always", parsed |-> "raises"]

RevisionInvoker == [GuardedAnswerSemantic EXCEPT !.kind = "answer_revision", !.parsed = "never"]

RetryingStructured ==
  [kind |-> "query", exact |-> FALSE, journaled |-> TRUE, audited |-> TRUE,
   adds |-> "never", parsed |-> "raises"]

\* As _build_context of ch16, _structured and the verification put them together.
Wrappers ==
  {GuardedEmbedder, GuardedReranker, GuardedEvidenceJudge, GuardedFaithfulnessJudge,
   GuardedGapAnalyzer, RunAnswerCase, GuardedAnswerSemantic, RevisionInvoker,
   RetryingStructured}

ASSUME UsesAssumption == \A u \in Uses : u \in [Request -> Wrappers]

NoRequest == "none"
NoKind == "none"
Tracker(pc, seen) ==
  [pc |-> pc, req |-> NoRequest, open |-> FALSE, replay |-> NoKind, spent |-> 0,
   seen |-> seen]
Down == Tracker("down", 0)

CostInit ==
  /\ using \in Uses
  /\ booked = 0
  /\ attempts = [w \in Worktree |-> <<>>]
  /\ results = [w \in Worktree |-> {}]
  /\ kept = [w \in Worktree |-> {}]
  /\ tracker = [w \in Worktree |-> Down]
  /\ paid = [w \in Worktree |-> [r \in Request |-> 0]]
  /\ falls = 0

In(w, pc) == tracker[w].pc = pc
To(w, pc) == tracker' = [tracker EXCEPT ![w].pc = pc]
Used(w) == using[tracker[w].req]

PendingIn(w) == \E i \in DOMAIN attempts[w] : attempts[w][i] = "pending"

\* AttemptLedger.finish on the attempt that _pending_attempt_id names, the last;
\* nothing when there is none.
Closed(w, status) ==
  IF tracker[w].open THEN [attempts EXCEPT ![w][Len(attempts[w])] = status] ELSE attempts

\* MUTATED: the attempts of an earlier process are not looked at.
ResumesAnyway(w) == TRUE

\* _ensure_safe_to_resume
SafeToResume(w) == ~PendingIn(w)

\* The ledger is read when the process starts, and after that when it records.
OpenTracker(w) ==
  /\ In(w, "down")
  /\ SafeToResume(w)
  /\ tracker' = [tracker EXCEPT ![w] = Tracker("idle", booked)]
  /\ UNCHANGED <<using, booked, attempts, results, kept, paid, falls>>

\* guard, after the wrapper's own cache had no answer; what it refuses is raised
\* and changes nothing.
Guard(w, r) ==
  /\ In(w, "idle")
  /\ r \notin kept[w]
  /\ ~tracker[w].open
  /\ tracker[w].spent + 1 <= RunLimit
  /\ tracker[w].seen + 1 <= LedgerLimit
  /\ Len(attempts[w]) < MaxAttempts
  /\ attempts' = [attempts EXCEPT ![w] = Append(@, "pending")]
  /\ tracker' = [tracker EXCEPT ![w].pc = "guarded", ![w].req = r, ![w].open = TRUE]
  /\ UNCHANGED <<using, booked, results, kept, paid, falls>>

InJournal(w) == Used(w).journaled /\ tracker[w].req \in results[w]

\* mark_cache_hit; what it leaves for add to find stays there when the embedder
\* returns at once.
MarkCacheHit(w) ==
  /\ In(w, "guarded")
  /\ InJournal(w)
  /\ attempts' = Closed(w, "cache_hit")
  /\ tracker' = [tracker EXCEPT
       ![w].open = FALSE,
       ![w].replay = Used(w).kind,
       ![w].pc = IF Used(w).adds = "live" THEN "keep" ELSE "inner"]
  /\ UNCHANGED <<using, booked, results, kept, paid, falls>>

Provide(w) ==
  /\ In(w, "guarded")
  /\ ~InJournal(w)
  /\ paid' = [paid EXCEPT ![w][tracker[w].req] = @ + 1]
  /\ To(w, IF Used(w).journaled THEN "answered" ELSE "inner")
  /\ UNCHANGED <<using, booked, attempts, results, kept, falls>>

\* fail_attempt, and the error is raised; spent is what add had counted by then.
FailAttempt(w, spent) ==
  /\ attempts' = Closed(w, "failed")
  /\ tracker' = [tracker EXCEPT ![w] = [Tracker("idle", @.seen) EXCEPT !.spent = spent]]

Raises(w, spent) ==
  tracker' = [tracker EXCEPT ![w].pc = "idle", ![w].req = NoRequest, ![w].spent = spent]

ProviderFails(w) ==
  /\ In(w, "guarded")
  /\ ~InJournal(w)
  /\ FailAttempt(w, tracker[w].spent)
  /\ UNCHANGED <<using, booked, results, kept, paid, falls>>

\* CallResultJournal.put, before anything is booked
PutResult(w) ==
  /\ In(w, "answered")
  /\ results' = [results EXCEPT ![w] = @ \cup {tracker[w].req}]
  /\ \E usage \in Usage : To(w, IF Used(w).audited /\ usage THEN "record" ELSE "inner")
  /\ UNCHANGED <<using, booked, attempts, kept, paid, falls>>

\* The inner model returned an answer that can be read, or one that cannot.
InnerReturns(w) ==
  /\ In(w, "inner")
  /\ To(w, IF Used(w).adds = "never" THEN "keep" ELSE "add")
  /\ UNCHANGED <<using, booked, attempts, results, kept, paid, falls>>

Garbled(w) ==
  /\ In(w, "inner")
  /\ \/ Used(w).parsed = "fails" /\ FailAttempt(w, tracker[w].spent)
     \/ Used(w).parsed = "raises" /\ Raises(w, tracker[w].spent) /\ UNCHANGED attempts
  /\ UNCHANGED <<using, booked, results, kept, paid, falls>>

Booking(w) == tracker[w].pc \in {"record", "add"}
Replayed(w) == tracker[w].replay = Used(w).kind

\* add takes the call for one that a hit or the audited chat accounted for.
SkipAdd(w) ==
  /\ Booking(w)
  /\ Replayed(w)
  /\ tracker' = [tracker EXCEPT
       ![w].replay = IF In(w, "record") THEN @ ELSE NoKind,
       ![w].pc = IF In(w, "record") THEN "inner" ELSE "keep"]
  /\ UNCHANGED <<using, booked, attempts, results, kept, paid, falls>>

\* record reads the file again under its lock.
Fits(w) == booked + 1 <= LedgerLimit

Within(w) ==
  /\ tracker[w].spent + 1 <= RunLimit
  /\ tracker[w].seen + 1 <= LedgerLimit
  /\ Fits(w)

Book(w) ==
  /\ Booking(w)
  /\ ~Replayed(w)
  /\ Within(w)
  /\ booked' = booked + 1
  /\ tracker' = [tracker EXCEPT
       ![w].spent = @ + 1,
       ![w].seen = booked',
       ![w].pc = IF In(w, "record") THEN "recorded" ELSE "added"]
  /\ UNCHANGED <<using, attempts, results, kept, paid, falls>>

\* The answer is there and its amount is over a limit: the judges' handler closes
\* the attempt when the audited chat raises, nobody else does.
OverLimit(w) ==
  /\ Booking(w)
  /\ ~Replayed(w)
  /\ ~Within(w)
  /\ LET spent == tracker[w].spent + 1
         closes == In(w, "record") /\ Used(w).parsed = "fails" IN
     \/ closes /\ FailAttempt(w, spent)
     \/ ~closes /\ Raises(w, spent) /\ UNCHANGED attempts
  /\ UNCHANGED <<using, booked, results, kept, paid, falls>>

\* record_provider_response leaves the kind for the wrapper's add to find.
CloseAttempt(w) ==
  /\ tracker[w].pc \in {"recorded", "added"}
  /\ attempts' = Closed(w, "succeeded")
  /\ tracker' = [tracker EXCEPT
       ![w].open = FALSE,
       ![w].replay = IF In(w, "recorded") THEN Used(w).kind ELSE @,
       ![w].pc = IF In(w, "recorded") THEN "inner" ELSE "keep"]
  /\ UNCHANGED <<using, booked, results, kept, paid, falls>>

PutExact(w) ==
  /\ In(w, "keep")
  /\ kept' = IF Used(w).exact THEN [kept EXCEPT ![w] = @ \cup {tracker[w].req}] ELSE kept
  /\ Raises(w, tracker[w].spent)
  /\ UNCHANGED <<using, booked, attempts, results, paid, falls>>

\* The process ends, or builds its context anew.
Fall(w) ==
  /\ ~In(w, "down")
  /\ falls < MaxFalls
  /\ falls' = falls + 1
  /\ tracker' = [tracker EXCEPT ![w] = Down]
  /\ UNCHANGED <<using, booked, attempts, results, kept, paid>>

CostNext ==
  \E w \in Worktree :
    \/ OpenTracker(w) \/ Fall(w)
    \/ \E r \in Request : Guard(w, r)
    \/ MarkCacheHit(w) \/ Provide(w) \/ ProviderFails(w) \/ PutResult(w)
    \/ InnerReturns(w) \/ Garbled(w) \/ SkipAdd(w) \/ Book(w) \/ OverLimit(w)
    \/ CloseAttempt(w) \/ PutExact(w)

CostSpec == CostInit /\ [][CostNext]_costVars

-----------------------------------------------------------------------------
(* Properties. *)

CostTypeOK ==
  /\ using \in [Request -> Wrappers]
  /\ booked \in Nat
  /\ tracker \in [Worktree ->
       [pc : {"down", "idle", "guarded", "answered", "inner", "record", "recorded",
              "add", "added", "keep"},
        req : Request \cup {NoRequest}, open : BOOLEAN, replay : STRING, spent : Nat, seen : Nat]]
  /\ results \in [Worktree -> SUBSET Request]
  /\ kept \in [Worktree -> SUBSET Request]
  /\ falls \in 0..MaxFalls

\* Whatever several worktrees saw of the ledger when they asked, what it holds
\* never passes its limit (scripts/eval_cost.py:105-141).
LedgerWithinLimit == booked <= LedgerLimit

\* A request that goes through the journal is answered by the provider once in a
\* worktree, wherever its processes end: the answer is in the journal, or the
\* attempt is open and no process starts (scripts/eval_cost.py:548-560, 609-648).
PaidOnce ==
  \A w \in Worktree, r \in Request : using[r].journaled => paid[w][r] <= 1

\* Both: what goes through the journal is paid once, and what is booked stays
\* under the limit.
LedgerHolds == PaidOnce /\ LedgerWithinLimit
=============================================================================
