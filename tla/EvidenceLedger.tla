---------------------------- MODULE EvidenceLedger ----------------------------
(***************************************************************************)
(* Typed handoffs (app/evidence_contracts with MULTI_AGENT_HANDOFF_MODE =  *)
(* typed): the results of tool calls become claims of a ledger, one of a   *)
(* run; a later claim of the same fact supersedes the earlier one; and     *)
(* what an agent is shown of the tasks before it, or the supervisor in the *)
(* end, is a projection of the ledger.                                     *)
(*                                                                         *)
(* Values are left out: a claim keeps when its value was really read.      *)
(* Waves and failures are those of MultiAgentRun, which also has the calls *)
(* that wait for each other in the cache; here a read takes no time.       *)
(***************************************************************************)
EXTENDS Integers, Sequences, FiniteSets, SequencesExt

CONSTANTS
  TypedTask,   \* tasks of the plan
  DependsOn,   \* [TypedTask -> SUBSET TypedTask]
  Readers,     \* those of the retrieval agent, which may read
  Names,       \* [TypedTask -> SUBSET Thing], orders that an objective names
  MessageNames, \* orders that the message names
  Thing,       \* subjects: orders
  Passage,     \* what a search may find: id, subjects, scope, version, dates
  Fields,      \* sequence of the scalar fields of an order
  Ttl,         \* dynamic_status_ttl_seconds, in units of the clock
  DayLength,   \* units of the clock in a day
  MaxPassages, MaxReads, MaxNow  \* bounds: of one result, of calls, of the clock

ASSUME TypedAssumption ==
  /\ DependsOn \in [TypedTask -> SUBSET TypedTask] /\ Readers \subseteq TypedTask
  /\ {Ttl, MaxPassages, MaxReads, MaxNow} \subseteq Nat /\ DayLength \in Nat \ {0}
  /\ Fields \in Seq(ToSet(Fields))

VARIABLES
  stage,    \* of each task
  now,
  kept,     \* the result of each read that the cache has, and its time
  reads,    \* calls so far
  claims,   \* the ledger
  shown     \* what this step has shown: to whom, when and what

claimVars == <<stage, now, kept, reads, claims, shown>>

NotGiven == -1
NotSuperseded == <<>>
NothingRead == [read |-> NotGiven, result |-> <<>>]
NothingShown == [for |-> "nobody", at |-> NotGiven, claims |-> {}]

LedgerInit ==
  /\ stage = [t \in TypedTask |-> "waiting"]
  /\ now = 0 /\ reads = 0
  /\ kept = [k \in Thing \cup {"search"} |-> NothingRead]
  /\ claims = {} /\ shown = NothingShown

-----------------------------------------------------------------------------
(* From results to claims.                                                 *)

\* _claim_id: neither the value nor the task is a part of it.  A call that has
\* no id is named by its task and its place in the answer.
ClaimId(c) == <<c.tool, c.call, c.passage, c.predicate, c.subjects, c.scope, c.version>>

\* A claim of one call before it is in the ledger, with what most have in common.
Claim(task, call, read) ==
  [task |-> task, call |-> call, no |-> reads + 1, read |-> read, tool |-> "search",
   predicate |-> "tool_result", passage |-> "none", subjects |-> {"unknown"},
   scope |-> "order", version |-> "none", seq |-> 1, from |-> NotGiven, until |-> NotGiven,
   asOf |-> NotGiven, certain |-> TRUE, by |-> NotSuperseded]

\* A time is one of the clock; a day, as passages give it, counts as its end.
EndOf(day) == IF day = NotGiven THEN NotGiven ELSE day * DayLength + DayLength - 1

\* What a search found, in its order; nothing found leaves a raw claim that is
\* not certain, as does a result that is no object.
OfPassages(task, call, read, found) ==
  IF found = <<>> THEN <<[Claim(task, call, read) EXCEPT !.certain = FALSE]>>
  ELSE [i \in DOMAIN found |->
          [Claim(task, call, read) EXCEPT
             !.predicate = "policy_content", !.passage = found[i].id,
             !.subjects = IF found[i].subjects = {} THEN {"global_policy"} ELSE found[i].subjects,
             !.scope = found[i].scope, !.version = found[i].version, !.seq = i,
             !.from = EndOf(found[i].from), !.until = EndOf(found[i].until),
             !.asOf = EndOf(found[i].asOf)]]

\* The fields that an order's payload has, numbered as they come.  The ttl counts
\* from the call, also when the cache had the result.
OfOrder(task, call, read, order, some) ==
  LET claim == [Claim(task, call, read) EXCEPT
                  !.tool = "order", !.subjects = {order}, !.until = now + Ttl]
  IN  IF some = <<>> THEN <<[claim EXCEPT !.certain = FALSE]>>
      ELSE [i \in DOMAIN some |-> [claim EXCEPT !.predicate = some[i], !.seq = i]]

-----------------------------------------------------------------------------
(* The ledger.                                                             *)

\* _lifecycle_key: what a later claim of the same supersedes; not the passage.
FactKey(c) == <<c.subjects, c.predicate, c.scope, c.version>>
Rivals(ledger, c) == {d \in ledger : FactKey(d) = FactKey(c)}

\* The number of a claim: its own, or one above those of its key.
Number(ledger, c) ==
  LET last == {d.seq : d \in Rivals(ledger, c)} IN
  CHOOSE n \in {c.seq} \cup {s + 1 : s \in last} : n >= c.seq /\ \A s \in last : n > s

\* MUTATED: a claim keeps its own number.
AddWithOwnNumber(ledger, c) ==
  LET old == {d \in Rivals(ledger, c) : d.by = NotSuperseded /\ d.seq < c.seq} IN
  IF \E d \in ledger : ClaimId(d) = ClaimId(c) THEN ledger
  ELSE IF old = {} THEN ledger \cup {c}
  ELSE LET first == CHOOSE d \in old : TRUE IN
       (ledger \ {first}) \cup {c, [first EXCEPT !.by = ClaimId(c)]}

\* One claim of add_many.  A claim whose id is there is dropped; else the first
\* older one of its key that is still standing is superseded.
AddClaim(ledger, c) ==
  LET new == [c EXCEPT !.seq = Number(ledger, c)]
      old == {d \in Rivals(ledger, c) : d.by = NotSuperseded /\ d.seq < new.seq}
  IN  IF \E d \in ledger : ClaimId(d) = ClaimId(c) THEN ledger
      ELSE IF old = {} THEN ledger \cup {new}
      ELSE LET first == CHOOSE d \in old : TRUE IN
           (ledger \ {first}) \cup {new, [first EXCEPT !.by = ClaimId(c)]}

AddMany(new) ==
  LET ledger[n \in 0 .. Len(new)] ==
        IF n = 0 THEN claims ELSE AddClaim(ledger[n - 1], new[n])
  IN  ledger[Len(new)]

IsActive(c) ==
  /\ c.by = NotSuperseded /\ c.certain
  /\ c.from # NotGiven => now >= c.from
  /\ c.until # NotGiven => now <= c.until
  /\ c.asOf # NotGiven => c.asOf <= now

\* _subject_matches: what is global is shown when it is a policy.
SubjectMatches(c, names) ==
  IF "global_policy" \in c.subjects \/ c.scope = "global"
  THEN c.predicate = "policy_content"
  ELSE names = {} \/ c.subjects \cap names # {}

\* What a task is shown, and what the supervisor is: there, also the claims of
\* tasks that failed, and of what is global also what is no policy.
Project(t) ==
  {c \in claims : c.task \in DependsOn[t] /\ IsActive(c) /\ SubjectMatches(c, Names[t])}
ProjectSupervisor ==
  {c \in claims : /\ c.task \in TypedTask /\ IsActive(c)
                  /\ c.scope = "global" \/ MessageNames = {} \/ c.subjects \cap MessageNames # {}}

-----------------------------------------------------------------------------
(* The run.                                                                *)

\* run_task: the handoff carries what its dependencies have left.
StartTask(t) ==
  /\ stage[t] = "waiting" /\ \A d \in DependsOn[t] : stage[d] = "success"
  /\ stage' = [stage EXCEPT ![t] = "running"]
  /\ shown' = [for |-> t, at |-> now, claims |-> Project(t)]
  /\ UNCHANGED <<now, kept, reads, claims>>

\* The task ends; its claims stay also when it fails.
FinishTask(t) ==
  /\ stage[t] = "running"
  /\ \E outcome \in {"success", "failed"} : stage' = [stage EXCEPT ![t] = outcome]
  /\ shown' = NothingShown
  /\ UNCHANGED <<now, kept, reads, claims>>

\* ToolResultCache.execute: what it has is used until its ttl is over.
Cached(k, result) ==
  IF kept[k].read # NotGiven /\ now - kept[k].read < Ttl THEN kept[k]
  ELSE [read |-> now, result |-> result]

\* A call of a running task; the model gives it an id or does not.
Calls(t) == {<<"id", reads + 1>>, <<t, 0>>}

\* What an order's payload may have: some of the fields, in their order.
Payloads ==
  LET Place(f) == CHOOSE n \in DOMAIN Fields : Fields[n] = f
  IN  {s \in BoundedSeq(ToSet(Fields), Len(Fields)) :
         \A i, j \in DOMAIN s : i < j => Place(s[i]) < Place(s[j])}

ReadOrder(t) ==
  /\ t \in Readers /\ stage[t] = "running" /\ reads < MaxReads
  /\ \E o \in Thing, some \in Payloads, call \in Calls(t) :
       LET got == Cached(o, some) IN
       /\ kept' = [kept EXCEPT ![o] = got]
       /\ claims' = AddMany(OfOrder(t, call, got.read, o, got.result))
  /\ reads' = reads + 1
  /\ shown' = NothingShown
  /\ UNCHANGED <<stage, now>>

Found == {f \in BoundedSeq(Passage, MaxPassages) :
            \A i, j \in DOMAIN f : f[i] = f[j] => i = j}

ReadPolicy(t) ==
  /\ t \in Readers /\ stage[t] = "running" /\ reads < MaxReads
  /\ \E found \in Found, call \in Calls(t) :
       LET got == Cached("search", found) IN
       /\ kept' = [kept EXCEPT !["search"] = got]
       /\ claims' = AddMany(OfPassages(t, call, got.read, got.result))
  /\ reads' = reads + 1
  /\ shown' = NothingShown
  /\ UNCHANGED <<stage, now>>

\* supervisor_finalize, when the plan has been worked off or got stuck.
Conclude ==
  /\ \A t \in TypedTask : stage[t] # "running"
  /\ shown' = [for |-> "supervisor", at |-> now, claims |-> ProjectSupervisor]
  /\ stage' = [t \in TypedTask |-> "over"]
  /\ UNCHANGED <<now, kept, reads, claims>>

Tick ==
  /\ now < MaxNow /\ \E t \in TypedTask : stage[t] = "running"
  /\ now' = now + 1
  /\ shown' = NothingShown
  /\ UNCHANGED <<stage, kept, reads, claims>>

LedgerNext ==
  \/ \E t \in TypedTask : StartTask(t) \/ FinishTask(t) \/ ReadOrder(t) \/ ReadPolicy(t)
  \/ Conclude \/ Tick

LedgerSpec == LedgerInit /\ [][LedgerNext]_claimVars

-----------------------------------------------------------------------------
(* Properties.                                                             *)

\* Nobody is shown two claims of one fact, whichever tasks read it, and in which
\* order; nor a field of an order that was read longer than two ttls ago: one in
\* the cache, one in the ledger (ledger.py:52).
ShownIsCurrent ==
  /\ \A c, d \in shown.claims : FactKey(c) = FactKey(d) => c = d
  /\ \A c \in shown.claims : c.tool = "order" => shown.at <= c.read + 2 * Ttl

\* A claim is superseded by a claim of a later call only: "a new observation of the
\* same subject, predicate and scope marks the old claim superseded" (design of the
\* typed handoff, line 45).
SupersededByLater ==
  \A c \in claims : c.by # NotSuperseded =>
    \E d \in claims : ClaimId(d) = c.by /\ d.no > c.no
=============================================================================
