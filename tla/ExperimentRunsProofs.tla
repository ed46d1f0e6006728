------------------------ MODULE ExperimentRunsProofs ------------------------
(***************************************************************************)
(* Proofs about the runs of an experiment, for any number of targets,      *)
(* cases, items, processes and answers.                                    *)
(*                                                                         *)
(* DepthRun: a verdict is on the answer it stands beside, and a run that   *)
(* says completed is whole.  AblationRun: the rows that are aggregated are *)
(* of one protocol.  CaseRuns: a row costs the calls that were made for it.*)
(***************************************************************************)
EXTENDS DepthRun, AblationRun, CaseRuns, SequenceTheorems, FiniteSetTheorems, TLAPS

-----------------------------------------------------------------------------
(* Depth runs.                                                             *)

\* A row: a verdict on it is a verdict on its answer.
DepthRow ==
  {r \in [target : Target, answer : Nat, cut : BOOLEAN, verdict : Nat, failed : BOOLEAN] :
     r.verdict \in {0, r.answer}}

Directory ==
  [state : {None, "bare", "running", "completed"}, results : Seq(DepthRow), torn : BOOLEAN,
   initial : Seq(DepthRow), rescored : Seq(DepthRow), summary : Seq(DepthRow)]

DepthPc == {"idle", "state", "next", "keep", "judge", "append", "summary", "complete", "row"}

DepthProcess ==
  [pc : DepthPc, tool : {None, "run", "repair", "rejudge", "regenerate"},
   rows : Seq(DepthRow), todo : Seq(DepthRow), row : DepthRow \cup {NoRow}]

Journal ==
  [answer : [Target -> [answer : Nat, cut : BOOLEAN, verdict : {0}, failed : {FALSE}]],
   verdict : [Target -> Nat]]

DepthTypes ==
  /\ dir \in Directory /\ copy \in Directory /\ proc \in DepthProcess
  /\ journal \in Journal /\ answers \in Nat

Distinct(s) == \A i, j \in DOMAIN s : s[i].target = s[j].target => i = j

\* What the directory says by itself.
DirHolds(d) ==
  /\ Distinct(d.results)
  /\ d.state \in {None, "bare"} => d.results = <<>>
  /\ d.state = "completed" => Targets(d.results) = Target /\ Targets(d.summary) = Target

\* The journal's verdict is on the journal's answer.
JournalHolds(j) == \A t \in Target : j.verdict[t] \in {0, j.answer[t].answer}

\* A repair has the rows of the results, target by target.
Repairs(p, d) ==
  /\ Len(p.rows) + Len(p.todo) = Len(d.results)
  /\ \A i \in DOMAIN p.rows : p.rows[i].target = d.results[i].target
  /\ \A i \in DOMAIN p.todo : p.todo[i].target = d.results[Len(p.rows) + i].target

\* What a process knows of the directory and the journal.
ProcHolds(p, d, j) ==
  /\ p.pc = "state" => p.tool = "run" /\ p.rows = <<>> /\ d.state = "bare"
  /\ p.pc \in {"next", "keep", "judge", "append", "complete"} =>
       p.tool = "run" /\ d.state = "running" /\ p.rows = d.results
  /\ p.pc \in {"keep", "judge", "append"} =>
       p.row \in DepthRow /\ p.row.target \notin Targets(p.rows)
  /\ p.pc = "keep" => p.row.verdict = 0 /\ j.answer[p.row.target].answer = 0
  /\ p.pc = "judge" => p.row.verdict = 0 /\ j.answer[p.row.target].answer = p.row.answer
  /\ p.pc = "row" /\ p.tool = "repair" => Repairs(p, d)
  /\ p.pc = "summary" => p.rows = d.results /\ p.tool \in {"run", "repair"}
  /\ p.pc = "summary" /\ p.tool = "run" => d.state = "running" /\ Targets(d.results) = Target
  /\ p.pc = "complete" => Targets(d.results) = Target /\ Targets(d.summary) = Target

DepthInv ==
  /\ DepthTypes
  /\ DirHolds(dir)
  /\ JournalHolds(journal)
  /\ ProcHolds(proc, dir, journal)

\* A row of the process, and what the tools make of a row.
LEMMA RowFacts ==
  ASSUME NEW r \in DepthRow
  PROVE  /\ r.target \in Target /\ r.answer \in Nat /\ r.cut \in BOOLEAN
         /\ r.verdict \in {0, r.answer} /\ r.failed \in BOOLEAN
         /\ \A v \in {0, r.answer}, f \in BOOLEAN :
              LET x == [r EXCEPT !.verdict = v, !.failed = f]
              IN  x \in DepthRow /\ x.target = r.target
         /\ \A a \in Nat, c, f \in BOOLEAN :
              LET x == [r EXCEPT !.answer = a, !.cut = c, !.verdict = a, !.failed = f]
              IN  x \in DepthRow /\ x.target = r.target
<1>1. /\ r.target \in Target /\ r.answer \in Nat /\ r.cut \in BOOLEAN
      /\ r.verdict \in {0, r.answer} /\ r.failed \in BOOLEAN
  BY DEF DepthRow
<1>2. ASSUME NEW v \in {0, r.answer}, NEW f \in BOOLEAN
      PROVE  LET x == [r EXCEPT !.verdict = v, !.failed = f]
             IN  x \in DepthRow /\ x.target = r.target
  <2>1. v \in Nat
    BY <1>1
  <2> QED BY <2>1 DEF DepthRow
<1>3. ASSUME NEW a \in Nat, NEW c \in BOOLEAN, NEW f \in BOOLEAN
      PROVE  LET x == [r EXCEPT !.answer = a, !.cut = c, !.verdict = a, !.failed = f]
             IN  x \in DepthRow /\ x.target = r.target
  BY DEF DepthRow
<1> QED BY <1>1, <1>2, <1>3

\* One more row.
LEMMA OneMoreRow ==
  ASSUME NEW s \in Seq(DepthRow), NEW r \in DepthRow
  PROVE  /\ Append(s, r) \in Seq(DepthRow)
         /\ Len(Append(s, r)) = Len(s) + 1
         /\ DOMAIN Append(s, r) = 1 .. Len(s) + 1
         /\ \A i \in DOMAIN s : Append(s, r)[i] = s[i]
         /\ Append(s, r)[Len(s) + 1] = r
         /\ DOMAIN s = 1 .. Len(s) /\ Len(s) \in Nat
BY AppendProperties, LenProperties

LEMMA OneMoreTarget ==
  ASSUME NEW s \in Seq(DepthRow), NEW r \in DepthRow,
         Distinct(s), r.target \notin Targets(s)
  PROVE  Distinct(Append(s, r))
<1>1. \A i \in DOMAIN s : s[i].target # r.target
  BY DEF Targets
<1> DEFINE z == Append(s, r)
<1> SUFFICES ASSUME NEW i \in DOMAIN z, NEW j \in DOMAIN z, z[i].target = z[j].target
             PROVE  i = j
  BY DEF Distinct
<1>2. /\ DOMAIN z = 1 .. Len(s) + 1 /\ z[Len(s) + 1] = r
      /\ \A k \in DOMAIN s : z[k] = s[k]
      /\ DOMAIN s = 1 .. Len(s) /\ Len(s) \in Nat
  BY OneMoreRow
<1> HIDE DEF z
<1>3. CASE i \in DOMAIN s /\ j \in DOMAIN s
  BY <1>2, <1>3 DEF Distinct
<1>4. CASE i \notin DOMAIN s \/ j \notin DOMAIN s
  BY <1>1, <1>2, <1>4
<1> QED BY <1>3, <1>4

\* A sequence of rows with the targets of another, position by position.
LEMMA SameTargets ==
  ASSUME NEW s \in Seq(DepthRow), NEW z \in Seq(DepthRow), Len(s) = Len(z),
         \A i \in DOMAIN s : s[i].target = z[i].target
  PROVE  /\ Distinct(z) => Distinct(s)
         /\ Targets(s) = Targets(z)
         /\ z = <<>> => s = <<>>
<1>1. DOMAIN s = DOMAIN z
  BY LenProperties
<1>2. z = <<>> => s = <<>>
  BY EmptySeq
<1> QED BY <1>1, <1>2 DEF Distinct, Targets

\* Rows with distinct targets, one for each target.
LEMMA RowsAreCounted ==
  ASSUME NEW s \in Seq(DepthRow), Distinct(s), Targets(s) = Target
  PROVE  Len(s) = Cardinality(Target)
<1>1. DOMAIN s = 1 .. Len(s) /\ Len(s) \in Nat
  BY LenProperties
<1> DEFINE f == [i \in 1 .. Len(s) |-> s[i].target]
<1>2. f \in [1 .. Len(s) -> Target]
  BY <1>1 DEF Targets
<1>3. \A i, j \in 1 .. Len(s) : f[i] = f[j] => i = j
  BY <1>1 DEF Distinct
<1>4. \A t \in Target : \E i \in 1 .. Len(s) : f[i] = t
  BY <1>1 DEF Targets
<1>5. f \in Bijection(1 .. Len(s), Target)
  <2> HIDE DEF f
  <2> QED BY <1>2, <1>3, <1>4 DEF Bijection, Injection, Surjection, IsInjective
<1>6. ExistsBijection(1 .. Len(s), Target)
  BY <1>5 DEF ExistsBijection
<1> QED BY <1>1, <1>6, FS_CountingElements

LEMMA DepthFacts ==
  ASSUME DepthInv
  PROVE  /\ dir \in Directory /\ copy \in Directory /\ proc \in DepthProcess
         /\ journal \in Journal /\ answers \in Nat
         /\ DirHolds(dir) /\ JournalHolds(journal) /\ ProcHolds(proc, dir, journal)
BY DEF DepthInv, DepthTypes


LEMMA IdleFacts ==
  /\ Idle \in DepthProcess /\ Idle.pc = "idle" /\ Idle.rows = <<>> /\ Idle.todo = <<>>
  /\ Idle.row = NoRow /\ \A d, j : ProcHolds(Idle, d, j)
<1>1. /\ Idle.pc = "idle" /\ Idle.rows = <<>> /\ Idle.todo = <<>>
      /\ Idle.row = NoRow /\ Idle.tool = None
  BY DEF Idle
<1>2. Idle \in DepthProcess
  BY EmptySeq DEF Idle, DepthProcess, DepthPc
<1> QED BY <1>1, <1>2 DEF ProcHolds

\* What the next state must be for the invariant to hold of it.
LEMMA DepthHoldsNext ==
  ASSUME dir' \in Directory, copy' \in Directory, proc' \in DepthProcess,
         journal' \in Journal, answers' \in Nat,
         DirHolds(dir'), JournalHolds(journal'), ProcHolds(proc', dir', journal')
  PROVE  DepthInv'
BY DEF DepthInv, DepthTypes

THEOREM DepthInitInv == ASSUME DepthInit PROVE DepthInv
<1>1. NoDir \in Directory /\ NoDir.state = None /\ NoDir.results = <<>>
  BY EmptySeq DEF NoDir, Directory
<1>2. DirHolds(NoDir)
  BY <1>1 DEF DirHolds, Distinct, None
<1>3. journal \in Journal /\ JournalHolds(journal)
  BY DEF DepthInit, Journal, JournalHolds, NoRow
<1> QED BY <1>1, <1>2, <1>3, IdleFacts DEF DepthInit, DepthInv, DepthTypes

\* A directory, and one of which only the state changes.
LEMMA DirectoryFacts ==
  ASSUME NEW d \in Directory
  PROVE  /\ d.state \in {None, "bare", "running", "completed"}
         /\ d.results \in Seq(DepthRow) /\ d.initial \in Seq(DepthRow)
         /\ d.rescored \in Seq(DepthRow) /\ d.summary \in Seq(DepthRow)
         /\ \A s \in {"bare", "running", "completed"} :
              LET x == [d EXCEPT !.state = s]
              IN  /\ x \in Directory /\ x.state = s /\ x.results = d.results
                  /\ x.summary = d.summary
BY DEF Directory

LEMMA ProcessFacts ==
  ASSUME NEW p \in DepthProcess
  PROVE  /\ p.pc \in DepthPc /\ p.tool \in {None, "run", "repair", "rejudge", "regenerate"}
         /\ p.rows \in Seq(DepthRow) /\ p.todo \in Seq(DepthRow)
         /\ p.row \in DepthRow \cup {NoRow}
BY DEF DepthProcess

-----------------------------------------------------------------------------
(* run_experiment.                                                         *)

LEMMA MakeDirKeeps == ASSUME DepthInv, MakeDir PROVE DepthInv'
<1>1. /\ dir.state = None /\ copy' = copy /\ journal' = journal /\ answers' = answers
      /\ dir' = [dir EXCEPT !.state = "bare"]
      /\ proc' = [Idle EXCEPT !.pc = "state", !.tool = "run"]
  BY DEF MakeDir
<1>2. dir' \in Directory /\ dir'.state = "bare" /\ dir'.results = dir.results
  BY <1>1, DepthFacts, DirectoryFacts
<1>3. dir'.results = <<>> /\ DirHolds(dir')
  BY <1>1, <1>2, DepthFacts DEF DirHolds
<1>4. proc' \in DepthProcess /\ proc'.pc = "state" /\ proc'.tool = "run" /\ proc'.rows = <<>>
  BY <1>1, IdleFacts DEF DepthProcess, DepthPc
<1>5. ProcHolds(proc', dir', journal')
  BY <1>2, <1>4 DEF ProcHolds
<1> QED BY <1>1, <1>2, <1>3, <1>4, <1>5, DepthFacts, DepthHoldsNext

LEMMA WriteStateKeeps == ASSUME DepthInv, WriteState PROVE DepthInv'
<1>1. /\ proc.pc = "state" /\ copy' = copy /\ journal' = journal /\ answers' = answers
      /\ dir' = [dir EXCEPT !.state = "running"]
      /\ proc' = [proc EXCEPT !.pc = "next"]
  BY DEF WriteState, At
<1>2. proc.tool = "run" /\ proc.rows = <<>> /\ dir.results = <<>>
  BY <1>1, DepthFacts DEF ProcHolds, DirHolds
<1>3. dir' \in Directory /\ dir'.state = "running" /\ dir'.results = dir.results
  BY <1>1, DepthFacts, DirectoryFacts
<1>4. DirHolds(dir')
  BY <1>3, DepthFacts DEF DirHolds, None
<1>5. proc' \in DepthProcess /\ proc'.pc = "next" /\ proc'.tool = "run" /\ proc'.rows = <<>>
  BY <1>1, <1>2, DepthFacts DEF DepthProcess, DepthPc
<1>6. ProcHolds(proc', dir', journal')
  BY <1>2, <1>3, <1>5 DEF ProcHolds
<1> QED BY <1>1, <1>3, <1>4, <1>5, <1>6, DepthFacts, DepthHoldsNext

LEMMA ResumeKeeps == ASSUME DepthInv, Resume PROVE DepthInv'
<1>1. /\ dir.state = "running" /\ UNCHANGED <<dir, journal, copy, answers>>
      /\ proc' = [Idle EXCEPT !.pc = "next", !.tool = "run", !.rows = dir.results]
  BY DEF Resume
<1>2. PICK z \in Seq(DepthRow) : z = dir.results
  BY DepthFacts, DirectoryFacts
<1>3. /\ proc' \in DepthProcess /\ proc'.pc = "next" /\ proc'.tool = "run" /\ proc'.rows = z
  BY <1>1, <1>2, IdleFacts DEF DepthProcess, DepthPc
<1>4. ProcHolds(proc', dir', journal')
  BY <1>1, <1>2, <1>3 DEF ProcHolds
<1> QED BY <1>1, <1>3, <1>4, DepthFacts, DepthHoldsNext

\* A process of the run that goes on with a row.
LEMMA GoesOn ==
  ASSUME DepthInv, proc.pc \in {"next", "keep", "judge"},
         UNCHANGED <<dir, copy>>, journal' \in Journal, answers' \in Nat,
         JournalHolds(journal'),
         NEW pc \in {"keep", "judge", "append"}, NEW r \in DepthRow,
         proc' = [proc EXCEPT !.pc = pc, !.row = r],
         r.target \notin Targets(proc.rows),
         pc = "keep" => r.verdict = 0 /\ journal'.answer[r.target].answer = 0,
         pc = "judge" => r.verdict = 0 /\ journal'.answer[r.target].answer = r.answer
  PROVE  DepthInv'
<1>1. proc.tool = "run" /\ dir.state = "running" /\ proc.rows = dir.results
  BY DepthFacts DEF ProcHolds
<1>2. /\ proc' \in DepthProcess /\ proc'.pc = pc /\ proc'.row = r
      /\ proc'.rows = proc.rows /\ proc'.tool = "run"
  BY <1>1, DepthFacts DEF DepthProcess, DepthPc
<1>3. ProcHolds(proc', dir', journal')
  BY <1>1, <1>2 DEF ProcHolds
<1> QED BY <1>2, <1>3, DepthFacts, DepthHoldsNext

LEMMA GenerateKeeps == ASSUME DepthInv, Generate PROVE DepthInv'
<1>1. PICK t \in Target \ Completed(proc.rows) :
        LET kept == journal.answer[t]
            row  == [target |-> t, answer |-> kept.answer, cut |-> kept.cut,
                     verdict |-> 0, failed |-> FALSE]
        IN
        \/ /\ row.answer # 0
           /\ proc' = [proc EXCEPT !.pc = "judge", !.row = row]
           /\ UNCHANGED answers
        \/ /\ row.answer = 0
           /\ answers < MaxAnswers
           /\ answers' = answers + 1
           /\ \E cut \in BOOLEAN :
                proc' = [proc EXCEPT !.pc = "keep",
                                     !.row = [row EXCEPT !.answer = answers', !.cut = cut]]
        \/ /\ row.answer = 0
           /\ proc' = [proc EXCEPT !.pc = "judge", !.row = [row EXCEPT !.failed = TRUE]]
           /\ UNCHANGED answers
  BY DEF Generate
<1>2. /\ proc.pc = "next" /\ UNCHANGED <<dir, journal, copy>> /\ t \notin Targets(proc.rows)
  BY <1>1 DEF Generate, At, Completed
<1>3. PICK kept : kept = journal.answer[t]
  OBVIOUS
<1>4. kept.answer \in Nat /\ kept.cut \in BOOLEAN
  BY <1>3, DepthFacts DEF Journal
<1>5. PICK row : row = [target |-> t, answer |-> kept.answer, cut |-> kept.cut,
                        verdict |-> 0, failed |-> FALSE]
  OBVIOUS
<1>6. row \in DepthRow /\ row.target = t /\ row.answer = kept.answer /\ row.verdict = 0
  BY <1>4, <1>5 DEF DepthRow
<1>7. CASE /\ row.answer # 0
           /\ proc' = [proc EXCEPT !.pc = "judge", !.row = row]
           /\ UNCHANGED answers
  BY <1>2, <1>3, <1>6, <1>7, DepthFacts, GoesOn
<1>8. CASE /\ row.answer = 0
           /\ answers' = answers + 1
           /\ \E cut \in BOOLEAN :
                proc' = [proc EXCEPT !.pc = "keep",
                                     !.row = [row EXCEPT !.answer = answers', !.cut = cut]]
  <2>1. PICK cut \in BOOLEAN :
          proc' = [proc EXCEPT !.pc = "keep",
                               !.row = [row EXCEPT !.answer = answers', !.cut = cut]]
    BY <1>8
  <2>2. PICK n \in Nat : n = answers'
    BY <1>8, DepthFacts
  <2>3. PICK r : r = [row EXCEPT !.answer = n, !.cut = cut]
    OBVIOUS
  <2>4. r \in DepthRow /\ r.target = t /\ r.verdict = 0
    BY <1>5, <1>6, <2>3 DEF DepthRow
  <2>5. proc' = [proc EXCEPT !.pc = "keep", !.row = r]
    BY <2>1, <2>2, <2>3
  <2> QED BY <1>2, <1>3, <1>6, <1>8, <2>2, <2>4, <2>5, DepthFacts, GoesOn
<1>9. CASE /\ row.answer = 0
           /\ proc' = [proc EXCEPT !.pc = "judge", !.row = [row EXCEPT !.failed = TRUE]]
           /\ UNCHANGED answers
  <2>1. PICK r : r = [row EXCEPT !.failed = TRUE]
    OBVIOUS
  <2>2. r \in DepthRow /\ r.target = t /\ r.verdict = 0 /\ r.answer = row.answer
    BY <1>5, <1>6, <2>1 DEF DepthRow
  <2> QED BY <1>2, <1>3, <1>6, <1>9, <2>1, <2>2, DepthFacts, GoesOn
<1> QED BY <1>1, <1>3, <1>5, <1>7, <1>8, <1>9

LEMMA KeepAnswerKeeps == ASSUME DepthInv, KeepAnswer PROVE DepthInv'
<1>1. PICK r \in DepthRow : r = proc.row
  BY DepthFacts DEF KeepAnswer, At, ProcHolds
<1>2. PICK t \in Target, n \in Nat, cut \in BOOLEAN :
        t = r.target /\ n = r.answer /\ cut = r.cut
  BY <1>1, RowFacts
<1>3. /\ proc.pc = "keep" /\ UNCHANGED <<dir, copy, answers>>
      /\ journal' = [journal EXCEPT !.answer[t] = [NoRow EXCEPT !.answer = n, !.cut = cut]]
      /\ proc' = [proc EXCEPT !.pc = "judge"]
  BY <1>1, <1>2 DEF KeepAnswer, At
<1>4. /\ r.verdict = 0 /\ journal.answer[t].answer = 0 /\ t \notin Targets(proc.rows)
  BY <1>1, <1>2, <1>3, DepthFacts DEF ProcHolds
<1>5. PICK e : e = [NoRow EXCEPT !.answer = n, !.cut = cut]
  OBVIOUS
<1>6. e \in [answer : Nat, cut : BOOLEAN, verdict : {0}, failed : {FALSE}] /\ e.answer = n
  BY <1>5 DEF NoRow
<1>7. PICK A : A = [journal.answer EXCEPT ![t] = e]
  OBVIOUS
<1>8. journal' = [journal EXCEPT !.answer = A]
  BY <1>3, <1>5, <1>7
<1>9. /\ journal' \in Journal /\ journal'.answer = A /\ journal'.verdict = journal.verdict
      /\ \A u \in Target : A[u] = IF u = t THEN e ELSE journal.answer[u]
  BY <1>6, <1>7, <1>8, DepthFacts DEF Journal
<1>10. JournalHolds(journal')
  BY <1>4, <1>9, DepthFacts DEF JournalHolds
<1>11. proc' = [proc EXCEPT !.pc = "judge", !.row = r]
  BY <1>1, <1>3, DepthFacts DEF DepthProcess
<1> QED BY <1>2, <1>3, <1>4, <1>6, <1>9, <1>10, <1>11, DepthFacts, GoesOn

LEMMA JudgeKeeps == ASSUME DepthInv, Judge PROVE DepthInv'
<1>1. PICK r \in DepthRow : r = proc.row
  BY DepthFacts DEF Judge, At, ProcHolds
<1>2. PICK t \in Target, n \in Nat, v \in Nat :
        t = r.target /\ n = r.answer /\ v = journal.verdict[r.target]
  BY <1>1, RowFacts, DepthFacts DEF Journal
<1>3. /\ proc.pc = "judge" /\ UNCHANGED <<dir, copy, answers>>
      /\ \/ proc' = [proc EXCEPT !.pc = "append", !.row.verdict = v] /\ journal' = journal
         \/ /\ v = 0
            /\ proc' = [proc EXCEPT !.pc = "append", !.row.verdict = n]
            /\ journal' = [journal EXCEPT !.verdict[t] = n]
         \/ proc' = [proc EXCEPT !.pc = "append", !.row.failed = TRUE] /\ journal' = journal
  BY <1>1, <1>2 DEF Judge, At
<1>4. /\ journal.answer[t].answer = n /\ t \notin Targets(proc.rows)
  BY <1>1, <1>2, <1>3, DepthFacts DEF ProcHolds
<1>5. v \in {0, n}
  BY <1>2, <1>4, DepthFacts DEF JournalHolds
<1>6. CASE proc' = [proc EXCEPT !.pc = "append", !.row.verdict = v] /\ journal' = journal
  <2>1. PICK x : x = [r EXCEPT !.verdict = v]
    OBVIOUS
  <2>2. x \in DepthRow /\ x.target = t
    BY <1>2, <1>5, <2>1 DEF DepthRow
  <2>3. proc' = [proc EXCEPT !.pc = "append", !.row = x]
    BY <1>1, <1>6, <2>1, DepthFacts DEF DepthProcess
  <2> QED BY <1>3, <1>4, <1>6, <2>2, <2>3, DepthFacts, GoesOn
<1>7. CASE /\ proc' = [proc EXCEPT !.pc = "append", !.row.verdict = n]
           /\ journal' = [journal EXCEPT !.verdict[t] = n]
  <2>1. PICK x : x = [r EXCEPT !.verdict = n]
    OBVIOUS
  <2>2. x \in DepthRow /\ x.target = t
    BY <1>2, <2>1 DEF DepthRow
  <2>3. proc' = [proc EXCEPT !.pc = "append", !.row = x]
    BY <1>1, <1>7, <2>1, DepthFacts DEF DepthProcess
  <2>4. /\ journal' \in Journal /\ journal'.answer = journal.answer
        /\ \A u \in Target : journal'.verdict[u] = IF u = t THEN n ELSE journal.verdict[u]
    BY <1>7, DepthFacts DEF Journal
  <2>5. JournalHolds(journal')
    BY <1>4, <2>4, DepthFacts DEF JournalHolds
  <2> QED BY <1>3, <1>4, <2>2, <2>3, <2>4, <2>5, DepthFacts, GoesOn
<1>8. CASE proc' = [proc EXCEPT !.pc = "append", !.row.failed = TRUE] /\ journal' = journal
  <2>1. PICK x : x = [r EXCEPT !.failed = TRUE]
    OBVIOUS
  <2>2. x \in DepthRow /\ x.target = t
    BY <1>2, <2>1 DEF DepthRow
  <2>3. proc' = [proc EXCEPT !.pc = "append", !.row = x]
    BY <1>1, <1>8, <2>1, DepthFacts DEF DepthProcess
  <2> QED BY <1>3, <1>4, <1>8, <2>2, <2>3, DepthFacts, GoesOn
<1> QED BY <1>3, <1>6, <1>7, <1>8

LEMMA AppendRowKeeps == ASSUME DepthInv, AppendRow PROVE DepthInv'
<1>1. PICK r \in DepthRow : r = proc.row
  BY DepthFacts DEF AppendRow, At, ProcHolds
<1>2. PICK s \in Seq(DepthRow) : s = dir.results
  BY DepthFacts, DirectoryFacts
<1>3. /\ proc.pc = "append" /\ UNCHANGED <<copy, journal, answers>>
      /\ proc.rows = s /\ proc.tool = "run" /\ dir.state = "running"
      /\ r.target \notin Targets(s) /\ Distinct(s)
  BY <1>1, <1>2, DepthFacts DEF AppendRow, At, ProcHolds, DirHolds
<1>4. PICK z \in Seq(DepthRow) : z = Append(s, r)
  BY OneMoreRow
<1>5. Distinct(z)
  BY <1>3, <1>4, OneMoreTarget
<1>6. dir' = [dir EXCEPT !.results = z]
  BY <1>1, <1>2, <1>4 DEF AppendRow
<1>7. dir' \in Directory /\ dir'.state = "running" /\ dir'.results = z
  BY <1>3, <1>6, DepthFacts DEF Directory
<1>8. DirHolds(dir')
  BY <1>5, <1>7 DEF DirHolds, None
<1>9. proc' = [proc EXCEPT !.pc = "next", !.rows = z, !.row = NoRow]
  BY <1>1, <1>3, <1>4, DepthFacts DEF AppendRow, DepthProcess
<1>10. /\ proc' \in DepthProcess /\ proc'.pc = "next" /\ proc'.rows = z /\ proc'.tool = "run"
  BY <1>3, <1>9, DepthFacts DEF DepthProcess, DepthPc
<1>11. ProcHolds(proc', dir', journal')
  BY <1>7, <1>10 DEF ProcHolds
<1> QED BY <1>3, <1>7, <1>8, <1>10, <1>11, DepthFacts, DepthHoldsNext

LEMMA WriteResultsKeeps == ASSUME DepthInv, WriteResults PROVE DepthInv'
<1>1. /\ proc.pc = "next" /\ Targets(proc.rows) = Target /\ UNCHANGED <<copy, journal, answers>>
      /\ dir' = [dir EXCEPT !.results = proc.rows]
      /\ proc' = [proc EXCEPT !.pc = "summary"]
  BY DEF WriteResults, At, Completed
<1>2. proc.tool = "run" /\ dir.state = "running" /\ proc.rows = dir.results
  BY <1>1, DepthFacts DEF ProcHolds
<1>3. dir' = dir
  BY <1>1, <1>2, DepthFacts DEF Directory
<1>4. /\ proc' \in DepthProcess /\ proc'.pc = "summary" /\ proc'.rows = proc.rows
      /\ proc'.tool = "run"
  BY <1>1, <1>2, DepthFacts DEF DepthProcess, DepthPc
<1>5. ProcHolds(proc', dir', journal')
  BY <1>1, <1>2, <1>3, <1>4 DEF ProcHolds
<1> QED BY <1>1, <1>3, <1>4, <1>5, DepthFacts, DepthHoldsNext

LEMMA WriteSummaryKeeps == ASSUME DepthInv, WriteSummary PROVE DepthInv'
<1>1. /\ proc.pc = "summary" /\ UNCHANGED <<copy, journal, answers>>
      /\ dir' = [dir EXCEPT !.summary = proc.rows]
      /\ proc' = IF proc.tool = "run" THEN [proc EXCEPT !.pc = "complete"] ELSE Idle
  BY DEF WriteSummary, At
<1>2. PICK z \in Seq(DepthRow) : z = proc.rows
  BY DepthFacts, ProcessFacts
<1>3. z = dir.results /\ (proc.tool = "run" => dir.state = "running" /\ Targets(z) = Target)
  BY <1>1, <1>2, DepthFacts DEF ProcHolds
<1>4. /\ dir' \in Directory /\ dir'.state = dir.state /\ dir'.results = z /\ dir'.summary = z
  BY <1>1, <1>2, <1>3, DepthFacts DEF Directory
<1>5. DirHolds(dir')
  BY <1>3, <1>4, DepthFacts DEF DirHolds
<1>6. CASE proc.tool = "run"
  <2>1. /\ proc' \in DepthProcess /\ proc'.pc = "complete" /\ proc'.rows = z
        /\ proc'.tool = "run"
    BY <1>1, <1>2, <1>6, DepthFacts DEF DepthProcess, DepthPc
  <2>2. ProcHolds(proc', dir', journal')
    BY <1>3, <1>4, <1>6, <2>1 DEF ProcHolds
  <2> QED BY <1>1, <1>4, <1>5, <2>1, <2>2, DepthFacts, DepthHoldsNext
<1>7. CASE proc.tool # "run"
  BY <1>1, <1>4, <1>5, <1>7, IdleFacts, DepthFacts, DepthHoldsNext
<1> QED BY <1>6, <1>7

LEMMA CompleteKeeps == ASSUME DepthInv, Complete PROVE DepthInv'
<1>1. /\ proc.pc = "complete" /\ UNCHANGED <<copy, journal, answers>>
      /\ dir' = [dir EXCEPT !.state = "completed"] /\ proc' = Idle
  BY DEF Complete, At
<1>2. Targets(dir.results) = Target /\ Targets(dir.summary) = Target
  BY <1>1, DepthFacts DEF ProcHolds
<1>3. /\ dir' \in Directory /\ dir'.state = "completed" /\ dir'.results = dir.results
      /\ dir'.summary = dir.summary
  BY <1>1, DepthFacts, DirectoryFacts
<1>4. DirHolds(dir')
  BY <1>2, <1>3, DepthFacts DEF DirHolds, None
<1> QED BY <1>1, <1>3, <1>4, IdleFacts, DepthFacts, DepthHoldsNext

-----------------------------------------------------------------------------
(* The tools.                                                              *)

\* The directory keeps its state, its results and its summary.
LEMMA SameRun ==
  ASSUME DepthInv, NEW d \in Directory, d.state = dir.state, d.results = dir.results,
         d.summary = dir.summary
  PROVE  /\ DirHolds(d)
         /\ \A p, j : ProcHolds(p, dir, j) => ProcHolds(p, d, j)
<1>1. DirHolds(d)
  BY DepthFacts DEF DirHolds
<1>2. ASSUME NEW p, NEW j, ProcHolds(p, dir, j) PROVE ProcHolds(p, d, j)
  BY <1>2 DEF ProcHolds, Repairs
<1> QED BY <1>1, <1>2

LEMMA RescoreKeeps == ASSUME DepthInv, Rescore PROVE DepthInv'
<1>1. /\ UNCHANGED <<journal, copy, proc, answers>>
      /\ dir' = [dir EXCEPT !.rescored = dir.results]
  BY DEF Rescore
<1>2. /\ dir' \in Directory /\ dir'.state = dir.state /\ dir'.results = dir.results
      /\ dir'.summary = dir.summary
  BY <1>1, DepthFacts DEF Directory
<1>3. DirHolds(dir') /\ ProcHolds(proc, dir', journal)
  BY <1>2, DepthFacts, SameRun
<1> QED BY <1>1, <1>2, <1>3, DepthFacts, DepthHoldsNext

LEMMA StartRepairKeeps == ASSUME DepthInv, StartRepair PROVE DepthInv'
<1>1. PICK s \in Seq(DepthRow), z \in Seq(DepthRow) : s = dir.results /\ z = dir.initial
  BY DepthFacts, DirectoryFacts
<1>2. PICK y \in Seq(DepthRow) : y = IF z = <<>> THEN s ELSE z
  OBVIOUS
<1>3. /\ UNCHANGED <<journal, copy, answers>> /\ dir' = [dir EXCEPT !.initial = y]
      /\ proc' = [Idle EXCEPT !.pc = "row", !.tool = "repair", !.todo = s]
  BY <1>1, <1>2, DepthFacts DEF StartRepair, Directory
<1>4. /\ dir' \in Directory /\ dir'.state = dir.state /\ dir'.results = s
      /\ dir'.summary = dir.summary
  BY <1>1, <1>3, DepthFacts DEF Directory
<1>5. DirHolds(dir')
  BY <1>1, <1>4, SameRun
<1>6. /\ proc' \in DepthProcess /\ proc'.pc = "row" /\ proc'.tool = "repair"
      /\ proc'.rows = <<>> /\ proc'.todo = s
  BY <1>3, IdleFacts DEF DepthProcess, DepthPc
<1>7. Repairs(proc', dir')
  BY <1>4, <1>6, EmptySeq, LenProperties DEF Repairs
<1>8. ProcHolds(proc', dir', journal')
  BY <1>6, <1>7 DEF ProcHolds
<1> QED BY <1>3, <1>4, <1>5, <1>6, <1>8, DepthFacts, DepthHoldsNext

\* The first of the rows that are left.
LEMMA FirstRow ==
  ASSUME NEW s \in Seq(DepthRow), s # <<>>
  PROVE  /\ Head(s) \in DepthRow /\ Head(s) = s[1] /\ 1 \in DOMAIN s
         /\ Tail(s) \in Seq(DepthRow) /\ Len(Tail(s)) = Len(s) - 1
         /\ Len(s) \in Nat /\ DOMAIN s = 1 .. Len(s) /\ DOMAIN Tail(s) = 1 .. Len(s) - 1
         /\ \A i \in DOMAIN Tail(s) : i + 1 \in DOMAIN s /\ Tail(s)[i] = s[i + 1]
BY HeadTailProperties, LenProperties

LEMMA RepairRowKeeps == ASSUME DepthInv, RepairRow PROVE DepthInv'
<1>1. PICK s \in Seq(DepthRow), z \in Seq(DepthRow) : s = proc.todo /\ z = proc.rows
  BY DepthFacts, ProcessFacts
<1>2. /\ proc.pc = "row" /\ proc.tool = "repair" /\ s # <<>>
      /\ UNCHANGED <<dir, journal, copy, answers>>
  BY <1>1 DEF RepairRow, At
<1>3. PICK r \in DepthRow : r = Head(s)
  BY <1>2, FirstRow
<1>4. PICK x \in DepthRow : /\ x.target = r.target
                            /\ proc' = [proc EXCEPT !.todo = Tail(s), !.rows = Append(z, x)]
  <2>1. PICK x \in {r} \cup
               (IF Lacks(r) THEN {[r EXCEPT !.verdict = r.answer, !.failed = FALSE]} ELSE {}) :
          proc' = [proc EXCEPT !.todo = Tail(@), !.rows = Append(@, x)]
    BY <1>1, <1>3 DEF RepairRow
  <2>2. PICK y : y = [r EXCEPT !.verdict = r.answer, !.failed = FALSE]
    OBVIOUS
  <2>3. y \in DepthRow /\ y.target = r.target
    BY <2>2, RowFacts DEF DepthRow
  <2>4. x \in DepthRow /\ x.target = r.target
    BY <2>1, <2>2, <2>3
  <2>5. proc' = [proc EXCEPT !.todo = Tail(s), !.rows = Append(z, x)]
    BY <1>1, <2>1, DepthFacts DEF DepthProcess
  <2> QED BY <2>4, <2>5
<1>5. PICK m \in Seq(DepthRow), k \in Seq(DepthRow) : m = Append(z, x) /\ k = Tail(s)
  BY <1>2, <1>4, OneMoreRow, FirstRow
<1>6. /\ proc' \in DepthProcess /\ proc'.pc = "row" /\ proc'.tool = "repair"
      /\ proc'.rows = m /\ proc'.todo = k
  BY <1>2, <1>4, <1>5, DepthFacts DEF DepthProcess
<1>7. PICK n \in Nat, q \in Nat : n = Len(z) /\ q = Len(s)
  BY LenProperties
<1>8. PICK R \in Seq(DepthRow) : R = dir.results
  BY DepthFacts, DirectoryFacts
<1>9. /\ n + q = Len(R)
      /\ \A i \in 1 .. n : z[i].target = R[i].target
      /\ \A i \in 1 .. q : s[i].target = R[n + i].target
  <2>1. Repairs(proc, dir)
    BY <1>2, DepthFacts DEF ProcHolds
  <2>2. DOMAIN z = 1 .. n /\ DOMAIN s = 1 .. q
    BY <1>7, LenProperties
  <2> QED BY <1>1, <1>7, <1>8, <2>1, <2>2 DEF Repairs
<1>10. /\ Len(m) = n + 1 /\ DOMAIN m = 1 .. n + 1 /\ m[n + 1] = x
       /\ \A i \in 1 .. n : m[i] = z[i]
  BY <1>5, <1>7, OneMoreRow
<1>11. /\ q \in Nat \ {0} /\ Len(k) = q - 1 /\ DOMAIN k = 1 .. q - 1 /\ r = s[1]
       /\ \A i \in 1 .. q - 1 : k[i] = s[i + 1]
  <2>1. /\ Len(k) = q - 1 /\ DOMAIN k = 1 .. q - 1 /\ r = s[1] /\ 1 \in 1 .. q
        /\ \A i \in DOMAIN k : k[i] = s[i + 1]
    BY <1>2, <1>3, <1>5, <1>7, FirstRow
  <2>2. q # 0
    BY <1>7, <2>1
  <2> QED BY <1>7, <2>1, <2>2
<1>12. \A i \in 1 .. n + 1 : m[i].target = R[i].target
  <2>1. x.target = R[n + 1].target
    <3>1. 1 \in 1 .. q
      BY <1>11
    <3>2. s[1].target = R[n + 1].target
      BY <1>9, <3>1
    <3> QED BY <1>4, <1>11, <3>2
  <2> QED BY <1>7, <1>9, <1>10, <2>1
<1>13. \A i \in 1 .. q - 1 : k[i].target = R[(n + 1) + i].target
  <2> TAKE i \in 1 .. q - 1
  <2>1. i + 1 \in 1 .. q /\ n + (i + 1) = (n + 1) + i
    BY <1>7
  <2> QED BY <1>9, <1>11, <2>1
<1>14. Len(m) + Len(k) = Len(R)
  <2>1. Len(m) = n + 1 /\ Len(k) = q - 1 /\ n + q = Len(R)
    BY <1>9, <1>10, <1>11
  <2>2. (n + 1) + (q - 1) = n + q
    BY <1>7
  <2> QED BY <2>1, <2>2
<1>15. Repairs(proc', dir')
  BY <1>2, <1>6, <1>8, <1>10, <1>11, <1>12, <1>13, <1>14 DEF Repairs
<1>16. ProcHolds(proc', dir', journal')
  BY <1>6, <1>15 DEF ProcHolds
<1> QED BY <1>2, <1>6, <1>16, DepthFacts, DepthHoldsNext

LEMMA WriteRepairedKeeps == ASSUME DepthInv, WriteRepaired PROVE DepthInv'
<1>1. PICK z \in Seq(DepthRow), R \in Seq(DepthRow) : z = proc.rows /\ R = dir.results
  BY DepthFacts, ProcessFacts, DirectoryFacts
<1>2. /\ proc.pc = "row" /\ proc.tool = "repair" /\ proc.todo = <<>>
      /\ UNCHANGED <<journal, copy, answers>>
      /\ dir' = [dir EXCEPT !.results = z] /\ proc' = [proc EXCEPT !.pc = "summary"]
  BY <1>1 DEF WriteRepaired, At
<1>3. Len(z) = Len(R) /\ \A i \in DOMAIN z : z[i].target = R[i].target
  <2>1. Repairs(proc, dir)
    BY <1>2, DepthFacts DEF ProcHolds
  <2>2. Len(proc.todo) = 0 /\ Len(z) \in Nat
    BY <1>2, EmptySeq, LenProperties
  <2> QED BY <1>1, <2>1, <2>2 DEF Repairs
<1>4. /\ Distinct(z) /\ Targets(z) = Targets(R) /\ (R = <<>> => z = <<>>)
  BY <1>1, <1>3, SameTargets, DepthFacts DEF DirHolds
<1>5. /\ dir' \in Directory /\ dir'.state = dir.state /\ dir'.results = z
      /\ dir'.summary = dir.summary
  BY <1>2, DepthFacts DEF Directory
<1>6. DirHolds(dir')
  BY <1>1, <1>4, <1>5, DepthFacts DEF DirHolds
<1>7. /\ proc' \in DepthProcess /\ proc'.pc = "summary" /\ proc'.rows = z
      /\ proc'.tool = "repair"
  BY <1>1, <1>2, DepthFacts DEF DepthProcess, DepthPc
<1>8. ProcHolds(proc', dir', journal')
  BY <1>5, <1>7 DEF ProcHolds
<1> QED BY <1>2, <1>5, <1>6, <1>7, <1>8, DepthFacts, DepthHoldsNext

LEMMA StartCopyKeeps == ASSUME DepthInv, StartCopy PROVE DepthInv'
<1>1. PICK tool \in {"rejudge", "regenerate"} :
        LET kept == IF tool = "rejudge" THEN dir.initial ELSE dir.rescored
            rows == IF kept = <<>> THEN dir.results ELSE kept
        IN  proc' = [Idle EXCEPT !.pc = "row", !.tool = tool, !.todo = rows]
  BY DEF StartCopy
<1>2. PICK z \in Seq(DepthRow) : proc' = [Idle EXCEPT !.pc = "row", !.tool = tool, !.todo = z]
  <2>1. PICK kept \in Seq(DepthRow) :
          kept = IF tool = "rejudge" THEN dir.initial ELSE dir.rescored
    BY DepthFacts, DirectoryFacts
  <2>2. PICK y \in Seq(DepthRow) : y = IF kept = <<>> THEN dir.results ELSE kept
    BY DepthFacts, DirectoryFacts
  <2> QED BY <1>1, <2>1, <2>2
<1>3. /\ UNCHANGED <<dir, journal, answers>> /\ copy' = [copy EXCEPT !.state = "running"]
  BY DEF StartCopy
<1>4. copy' \in Directory
  BY <1>3, DepthFacts, DirectoryFacts
<1>5. proc' \in DepthProcess /\ proc'.pc = "row" /\ proc'.tool = tool
  BY <1>2, IdleFacts DEF DepthProcess, DepthPc
<1>6. ProcHolds(proc', dir', journal')
  BY <1>5 DEF ProcHolds
<1> QED BY <1>3, <1>4, <1>5, <1>6, DepthFacts, DepthHoldsNext

LEMMA CopiesRow ==
  ASSUME DepthInv, proc.pc = "row", proc.tool \in {"rejudge", "regenerate"},
         proc.todo # <<>>, NEW x \in DepthRow, CopyRow(x),
         UNCHANGED <<dir, journal>>, answers' \in Nat
  PROVE  DepthInv'
<1>1. PICK s \in Seq(DepthRow), z \in Seq(DepthRow), c \in Seq(DepthRow) :
        s = proc.todo /\ z = proc.rows /\ c = copy.results
  BY DepthFacts, ProcessFacts, DirectoryFacts
<1>2. PICK m \in Seq(DepthRow), k \in Seq(DepthRow), y \in Seq(DepthRow) :
        m = Append(z, x) /\ k = Tail(s) /\ y = Append(c, x)
  BY <1>1, OneMoreRow, FirstRow
<1>3. /\ copy' = [copy EXCEPT !.results = y]
      /\ proc' = [proc EXCEPT !.todo = k, !.rows = m]
  BY <1>1, <1>2, DepthFacts DEF CopyRow, DepthProcess, Directory
<1>4. copy' \in Directory
  BY <1>3, DepthFacts DEF Directory
<1>5. proc' \in DepthProcess /\ proc'.pc = "row" /\ proc'.tool = proc.tool
  BY <1>3, DepthFacts DEF DepthProcess
<1>6. ProcHolds(proc', dir', journal')
  BY <1>5 DEF ProcHolds
<1> QED BY <1>4, <1>5, <1>6, DepthFacts, DepthHoldsNext

LEMMA RejudgeRowKeeps == ASSUME DepthInv, RejudgeRow PROVE DepthInv'
<1>1. /\ proc.pc = "row" /\ proc.tool = "rejudge" /\ proc.todo # <<>>
      /\ UNCHANGED <<dir, journal, answers>>
  BY DEF RejudgeRow, At
<1>2. PICK r \in DepthRow : r = Head(proc.todo)
  BY <1>1, DepthFacts, ProcessFacts, FirstRow
<1>3. PICK x, y : /\ x = [r EXCEPT !.verdict = r.answer, !.failed = FALSE]
                  /\ y = [r EXCEPT !.verdict = 0, !.failed = TRUE]
  OBVIOUS
<1>4. x \in DepthRow /\ y \in DepthRow
  <2>1. r.answer \in Nat
    BY RowFacts
  <2>2. x \in DepthRow
    BY <1>3, <2>1 DEF DepthRow
  <2>3. y \in DepthRow
    BY <1>3 DEF DepthRow
  <2> QED BY <2>2, <2>3
<1>5. CopyRow(x) \/ CopyRow(y)
  BY <1>2, <1>3 DEF RejudgeRow
<1> QED BY <1>1, <1>4, <1>5, CopiesRow, DepthFacts

LEMMA RegenerateRowKeeps == ASSUME DepthInv, RegenerateRow PROVE DepthInv'
<1>1. /\ proc.pc = "row" /\ proc.tool = "regenerate" /\ proc.todo # <<>>
      /\ UNCHANGED <<dir, journal>>
  BY DEF RegenerateRow, At
<1>2. PICK r \in DepthRow : r = Head(proc.todo)
  BY <1>1, DepthFacts, ProcessFacts, FirstRow
<1>3. \/ CopyRow(r) /\ UNCHANGED answers
      \/ CopyRow([r EXCEPT !.failed = TRUE]) /\ UNCHANGED answers
      \/ /\ answers' = answers + 1
         /\ \E cut \in BOOLEAN : CopyRow(Regenerated(r, answers', cut))
  BY <1>2 DEF RegenerateRow
<1>4. CASE CopyRow(r) /\ UNCHANGED answers
  BY <1>1, <1>4, CopiesRow, DepthFacts
<1>5. CASE CopyRow([r EXCEPT !.failed = TRUE]) /\ UNCHANGED answers
  <2>1. PICK x : x = [r EXCEPT !.failed = TRUE]
    OBVIOUS
  <2>2. x \in DepthRow
    BY <2>1, RowFacts, ZenonT(30) DEF DepthRow
  <2> QED BY <1>1, <1>5, <2>1, <2>2, CopiesRow, DepthFacts
<1>6. CASE /\ answers' = answers + 1
           /\ \E cut \in BOOLEAN : CopyRow(Regenerated(r, answers', cut))
  <2>1. PICK n \in Nat : n = answers'
    BY <1>6, DepthFacts
  <2>2. PICK cut \in BOOLEAN : CopyRow(Regenerated(r, n, cut))
    BY <1>6, <2>1
  <2>3. PICK x : x = Regenerated(r, n, cut)
    OBVIOUS
  <2>4. x \in DepthRow
    BY <2>3 DEF DepthRow, Regenerated
  <2> QED BY <1>1, <2>1, <2>2, <2>3, <2>4, CopiesRow
<1> QED BY <1>3, <1>4, <1>5, <1>6

LEMMA FinishCopyKeeps == ASSUME DepthInv, FinishCopy PROVE DepthInv'
<1>1. /\ copy' = [copy EXCEPT !.summary = proc.rows, !.state = "completed"]
      /\ proc' = Idle /\ UNCHANGED <<dir, journal, answers>>
  BY DEF FinishCopy
<1>2. copy' \in Directory
  BY <1>1, DepthFacts, ProcessFacts DEF Directory
<1> QED BY <1>1, <1>2, IdleFacts, DepthFacts, DepthHoldsNext

LEMMA DiesKeeps == ASSUME DepthInv, Dies PROVE DepthInv'
<1>1. /\ proc' = Idle /\ UNCHANGED <<journal, copy, answers>>
      /\ dir' = dir \/ dir' = [dir EXCEPT !.torn = TRUE]
  BY DEF Dies
<1>2. /\ dir' \in Directory /\ dir'.state = dir.state /\ dir'.results = dir.results
      /\ dir'.summary = dir.summary
  BY <1>1, DepthFacts DEF Directory
<1>3. DirHolds(dir')
  BY <1>2, DepthFacts DEF DirHolds
<1> QED BY <1>1, <1>2, <1>3, IdleFacts, DepthFacts, DepthHoldsNext

-----------------------------------------------------------------------------

LEMMA DepthNextInv == ASSUME DepthInv, [DepthNext]_depthVars PROVE DepthInv'
<1>1. CASE RunExperiment
  BY <1>1, MakeDirKeeps, WriteStateKeeps, ResumeKeeps, GenerateKeeps, KeepAnswerKeeps,
     JudgeKeeps, AppendRowKeeps, WriteResultsKeeps, WriteSummaryKeeps, CompleteKeeps
     DEF RunExperiment
<1>2. CASE DepthTools
  BY <1>2, RescoreKeeps, StartRepairKeeps, RepairRowKeeps, WriteRepairedKeeps,
     StartCopyKeeps, RejudgeRowKeeps, RegenerateRowKeeps, FinishCopyKeeps DEF DepthTools
<1>3. CASE Dies
  BY <1>3, DiesKeeps
<1>4. CASE UNCHANGED depthVars
  BY <1>4, DepthFacts, DepthHoldsNext DEF depthVars
<1> QED BY <1>1, <1>2, <1>3, <1>4 DEF DepthNext

\* What the processes of a depth run know of its files, for any number of
\* targets, answers and processes that die (runner.py:720-977).
THEOREM DepthInvariant == DepthSpec => []DepthInv
<1> QED BY DepthInitInv, DepthNextInv, PTL DEF DepthSpec

\* No row carries a verdict on another answer than its own, and a run that says
\* completed has one row and one line of the summary for each target
\* (runner.py:823-831, 932-977).
THEOREM ResultsAlwaysHold == DepthSpec => []ResultsHold
<1>1. ASSUME DepthInv PROVE ResultsHold
  <2>1. \A rows \in {dir.results, dir.initial, dir.rescored, dir.summary, copy.results} :
          rows \in Seq(DepthRow)
    BY <1>1, DepthFacts DEF Directory
  <2>2. ASSUME NEW rows \in Seq(DepthRow), NEW i \in DOMAIN rows
        PROVE  rows[i].verdict \in {0, rows[i].answer}
    <3>1. rows[i] \in DepthRow
      BY ElementOfSeq, LenProperties
    <3> QED BY <3>1, RowFacts
  <2>3. VerdictIsOfAnswer
    BY <2>1, <2>2 DEF VerdictIsOfAnswer
  <2>4. CompletedIsWhole
    <3>1. dir.results \in Seq(DepthRow)
      BY <2>1
    <3> QED BY <1>1, <3>1, DepthFacts, RowsAreCounted DEF DirHolds, CompletedIsWhole
  <2> QED BY <2>3, <2>4 DEF ResultsHold
<1> QED BY <1>1, DepthInvariant, PTL

-----------------------------------------------------------------------------
(* Ablation runs.                                                          *)

AblationRow == [c : Case, measured : BOOLEAN, protocol : Nat]

JobPc == {"none", "load", "case", "traces", "unlink", "unlink2", "aggregate", "lock"}

JobState == [pc : JobPc, g : Group, rows : SUBSET AblationRow]

Files == [meta : Nat, checked : BOOLEAN, checkpoint : SUBSET AblationRow, contract : Nat,
          traced : BOOLEAN, traces : SUBSET AblationRow, aggregate : Nat]

OncePerCase(rows) == \A r, s \in rows : r.c = s.c => r = s
MadeUnder(rows, p) == \A r \in rows : r.protocol = p

\* The files of a group, whatever process comes next.  The traces may be of an
\* older contract only while a checkpoint hides them.
FilesAgree(f) ==
  /\ MadeUnder(f.checkpoint, f.meta)
  /\ OncePerCase(f.checkpoint)
  /\ f.meta = 0 => ~f.checked
  /\ ~f.checked => f.checkpoint = {}
  /\ f.traced => OncePerCase(f.traces) /\ Cases(f.traces) = Case
  /\ f.traced /\ ~f.checked => MadeUnder(f.traces, f.contract)

\* The process j on the files f of its group, under protocol p.
JobAgrees(j, f, p) ==
  j.pc # "none" =>
    /\ f.meta = p \/ j.pc \in {"aggregate", "lock"}
    /\ MadeUnder(j.rows, p) /\ OncePerCase(j.rows)
    /\ j.pc = "case" =>
         /\ f.checkpoint \subseteq j.rows
         /\ ~f.checked /\ f.traced /\ f.contract # p => j.rows = {}
    /\ j.pc \in {"traces", "unlink"} => f.contract = p
    /\ j.pc = "traces" => Cases(j.rows) = Case
    /\ j.pc = "unlink" => f.traced /\ MadeUnder(f.traces, p)
    /\ j.pc = "unlink2" => ~f.checked

AblationTypes ==
  /\ protocol \in Nat \ {0}
  /\ group \in [Group -> Files]
  /\ job \in JobState

AblationInv ==
  /\ AblationTypes
  /\ \A g \in Group : FilesAgree(group[g])
  /\ JobAgrees(job, group[job.g], protocol)

\* A group has as many rows as there are cases when it has each case once.
LEMMA OneRowEach ==
  ASSUME NEW rows \in SUBSET AblationRow, OncePerCase(rows), Cases(rows) = Case
  PROVE  Cardinality(rows) = Cardinality(Case)
<1> DEFINE f == [c \in Case |-> CHOOSE r \in rows : r.c = c]
<1>1. \A c \in Case : f[c] \in rows /\ f[c].c = c
  BY DEF Cases
<1>2. \A r \in rows : r.c \in Case /\ f[r.c] = r
  BY <1>1 DEF OncePerCase, AblationRow
<1>3. f \in Bijection(Case, rows)
  <2>1. f \in [Case -> rows]
    BY <1>1
  <2>2. \A a, b \in Case : f[a] = f[b] => a = b
    BY <1>1
  <2>3. \A r \in rows : \E c \in Case : f[c] = r
    BY <1>2
  <2> HIDE DEF f
  <2> QED BY <2>1, <2>2, <2>3 DEF Bijection, Injection, Surjection, IsInjective
<1> QED BY <1>3, FS_Bijection, AblationAssumption DEF ExistsBijection

\* One process moves, on the files of its group.
AblationMoves(f, j) ==
  /\ protocol' = protocol
  /\ group' = [group EXCEPT ![job.g] = f] /\ job' = j
  /\ f \in Files /\ j \in JobState
  /\ FilesAgree(f)
  /\ j = NoJob \/ (j.g = job.g /\ JobAgrees(j, f, protocol))

LEMMA NoJobFacts == NoJob \in JobState /\ NoJob.pc = "none"
BY DEF NoJob, JobState, JobPc, Group, Experiment, Split

LEMMA MovesKeep ==
  ASSUME AblationInv, NEW f, NEW j, AblationMoves(f, j)
  PROVE  AblationInv'
<1> USE DEF AblationTypes, AblationInv
<1>1. AblationTypes' /\ job.g \in Group
  BY DEF AblationMoves, JobState
<1>2. \A g \in Group : group'[g] = IF g = job.g THEN f ELSE group[g]
  BY <1>1 DEF AblationMoves
<1>3. \A g \in Group : FilesAgree(group'[g])
  BY <1>2 DEF AblationMoves
<1>4. JobAgrees(job', group'[job'.g], protocol')
  <2>1. CASE j = NoJob
    BY <2>1, NoJobFacts DEF AblationMoves, JobAgrees
  <2>2. CASE j.g = job.g /\ JobAgrees(j, f, protocol)
    BY <1>1, <1>2, <2>2 DEF AblationMoves
  <2> QED BY <2>1, <2>2 DEF AblationMoves
<1> QED BY <1>1, <1>3, <1>4

\* The files and the process of a group, at a step of the process.
LEMMA OwnFiles ==
  ASSUME AblationInv
  PROVE  /\ job.g \in Group /\ Mine \in Files /\ Mine = group[job.g] /\ job \in JobState
         /\ protocol \in Nat \ {0}
         /\ FilesAgree(Mine) /\ JobAgrees(job, Mine, protocol)
         /\ group = [group EXCEPT ![job.g] = Mine]
BY DEF AblationInv, AblationTypes, JobState, Mine

LEMMA BeginKeeps == AblationInv /\ Begin => AblationInv'
<1> SUFFICES ASSUME AblationInv, Begin PROVE AblationInv'
  OBVIOUS
<1> USE DEF AblationInv, AblationTypes
<1>1. PICK g \in Group :
        /\ group[g].meta \in {0, protocol}
        /\ group' = [group EXCEPT ![g].meta = protocol]
        /\ job' = [NoJob EXCEPT !.pc = "load", !.g = g]
  BY DEF Begin, Of
<1>2. PICK f \in Files : f = group[g] /\ FilesAgree(f)
  OBVIOUS
<1>3. PICK h : h = [f EXCEPT !.meta = protocol]
  OBVIOUS
<1>4. /\ h \in Files /\ h.meta = protocol /\ h.checked = f.checked
      /\ h.checkpoint = f.checkpoint /\ h.contract = f.contract /\ h.traced = f.traced
      /\ h.traces = f.traces
  BY <1>3 DEF Files
<1>5. FilesAgree(h)
  BY <1>1, <1>2, <1>4 DEF FilesAgree, MadeUnder
<1>6. job' \in JobState /\ job'.pc = "load" /\ job'.g = g /\ job'.rows = {}
  BY <1>1 DEF NoJob, JobState, JobPc
<1>7. JobAgrees(job', h, protocol)
  BY <1>4, <1>6 DEF JobAgrees, MadeUnder, OncePerCase
<1>8. group' = [group EXCEPT ![g] = h]
  BY <1>1, <1>2, <1>3
<1> QED BY <1>4, <1>5, <1>6, <1>7, <1>8 DEF Begin

LEMMA LoadKeeps == AblationInv /\ Load => AblationInv'
<1> SUFFICES ASSUME AblationInv, Load PROVE AblationInv'
  OBVIOUS
<1> DEFINE own == Mine.contract = protocol /\ Mine.traced
           saved == IF Mine.checked THEN Mine.checkpoint ELSE IF own THEN Mine.traces ELSE {}
           kept == Measured(saved)
<1>1. /\ Mine \in Files /\ FilesAgree(Mine) /\ job \in JobState /\ job.pc = "load"
      /\ protocol \in Nat \ {0} /\ Mine.meta = protocol
  BY OwnFiles DEF Load, JobAgrees
<1>2. /\ MadeUnder(saved, protocol) /\ OncePerCase(saved) /\ saved \in SUBSET AblationRow
  BY <1>1 DEF FilesAgree, MadeUnder, OncePerCase, Files
<1>3. PICK rows : rows = kept
  OBVIOUS
<1>4. /\ MadeUnder(rows, protocol) /\ OncePerCase(rows) /\ rows \in SUBSET AblationRow
      /\ rows \subseteq saved
  BY <1>2, <1>3 DEF Measured, MadeUnder, OncePerCase
<1>5. PICK j : j = [job EXCEPT !.pc = "case", !.rows = rows]
  OBVIOUS
<1>6. j \in JobState /\ j.pc = "case" /\ j.g = job.g /\ j.rows = rows /\ job' = j
  BY <1>1, <1>3, <1>4, <1>5 DEF JobState, JobPc, Load
<1>7. CASE Mine.checked \/ rows # saved
  <2>1. PICK f : f = [Mine EXCEPT !.checked = TRUE, !.checkpoint = rows]
    OBVIOUS
  <2>2. /\ f \in Files /\ f.meta = Mine.meta /\ f.checked /\ f.checkpoint = rows
        /\ f.contract = Mine.contract /\ f.traced = Mine.traced /\ f.traces = Mine.traces
    BY <1>1, <1>4, <2>1 DEF Files
  <2>3. FilesAgree(f)
    BY <1>1, <1>4, <2>2 DEF FilesAgree
  <2>4. JobAgrees(j, f, protocol)
    BY <1>1, <1>4, <1>6, <2>2 DEF JobAgrees
  <2>5. group' = [group EXCEPT ![job.g] = f]
    BY <1>3, <1>7, <2>1 DEF Load, Mine
  <2> QED BY <1>6, <2>2, <2>3, <2>4, <2>5, MovesKeep DEF AblationMoves, Load
<1>8. CASE ~(Mine.checked \/ rows # saved)
  <2>1. group' = [group EXCEPT ![job.g] = Mine]
    BY <1>3, <1>8, OwnFiles DEF Load
  <2>2. Mine.traced /\ Mine.contract # protocol => rows = {}
    BY <1>4, <1>8
  <2>3. Mine.checkpoint = {}
    BY <1>1, <1>8 DEF FilesAgree
  <2>4. JobAgrees(j, Mine, protocol)
    BY <1>1, <1>4, <1>6, <2>2, <2>3 DEF JobAgrees
  <2> QED BY <1>1, <1>6, <2>1, <2>4, MovesKeep DEF AblationMoves, Load
<1> QED BY <1>7, <1>8

LEMMA RunCaseKeeps == AblationInv /\ RunCase => AblationInv'
<1> SUFFICES ASSUME AblationInv, RunCase PROVE AblationInv'
  OBVIOUS
<1>1. /\ Mine \in Files /\ FilesAgree(Mine) /\ job \in JobState /\ job.pc = "case"
      /\ protocol \in Nat \ {0} /\ Mine.meta = protocol /\ JobAgrees(job, Mine, protocol)
  BY OwnFiles DEF RunCase, JobAgrees
<1>0. PICK c \in Case \ Cases(job.rows), measured \in BOOLEAN :
        LET row == [c |-> c, measured |-> measured, protocol |-> protocol] IN
        /\ job' = [job EXCEPT !.rows = @ \cup {row}]
        /\ group' = [group EXCEPT ![job.g].checked = TRUE, ![job.g].checkpoint = @ \cup {row}]
        /\ protocol' = protocol
  BY DEF RunCase
<1>2. PICK row :
        /\ row = [c |-> c, measured |-> measured, protocol |-> protocol]
        /\ job' = [job EXCEPT !.rows = @ \cup {row}]
        /\ group' = [group EXCEPT ![job.g].checked = TRUE, ![job.g].checkpoint = @ \cup {row}]
        /\ protocol' = protocol
  BY <1>0
<1>3. row \in AblationRow /\ row.c = c /\ row.protocol = protocol
  BY <1>1, <1>2 DEF AblationRow
<1>4. PICK rows : rows = job.rows \cup {row}
  OBVIOUS
<1>5. /\ MadeUnder(rows, protocol) /\ OncePerCase(rows) /\ rows \in SUBSET AblationRow
  BY <1>1, <1>2, <1>3, <1>4 DEF JobAgrees, MadeUnder, OncePerCase, Cases, JobState
<1>6. PICK j : j = [job EXCEPT !.rows = rows]
  OBVIOUS
<1>7. j \in JobState /\ j.pc = "case" /\ j.g = job.g /\ j.rows = rows /\ job' = j
  BY <1>1, <1>2, <1>4, <1>5, <1>6 DEF JobState
<1>8. PICK checkpoint : checkpoint = Mine.checkpoint \cup {row}
  OBVIOUS
<1>9. PICK f : f = [Mine EXCEPT !.checked = TRUE, !.checkpoint = checkpoint]
  OBVIOUS
<1>10. /\ f \in Files /\ f.meta = Mine.meta /\ f.checked /\ f.checkpoint = checkpoint
       /\ f.contract = Mine.contract /\ f.traced = Mine.traced /\ f.traces = Mine.traces
  BY <1>1, <1>3, <1>8, <1>9 DEF Files
<1>11. checkpoint \subseteq rows
  BY <1>1, <1>4, <1>8 DEF JobAgrees
<1>12. FilesAgree(f)
  BY <1>1, <1>5, <1>10, <1>11 DEF FilesAgree, MadeUnder, OncePerCase
<1>13. JobAgrees(j, f, protocol)
  BY <1>1, <1>5, <1>7, <1>10, <1>11 DEF JobAgrees
<1>14. group' = [group EXCEPT ![job.g] = f]
  BY <1>1, <1>2, <1>8, <1>9, OwnFiles DEF Mine
<1> QED BY <1>2, <1>7, <1>10, <1>12, <1>13, <1>14, MovesKeep DEF AblationMoves

\* The steps that complete a group: the process keeps its rows.
LEMMA WritesKeep ==
  ASSUME AblationInv, NEW from \in JobPc, NEW to \in JobPc, NEW f \in Files,
         Writes(from, to, f), FilesAgree(f),
         NEW j, j = [job EXCEPT !.pc = to], JobAgrees(j, f, protocol)
  PROVE  AblationInv'
<1>1. j \in JobState /\ j.g = job.g /\ job' = j
  BY OwnFiles DEF JobState, Writes
<1> QED BY <1>1, MovesKeep DEF AblationMoves, Writes

LEMMA MovedOn ==
  ASSUME NEW from \in JobState, NEW to \in JobPc, NEW j, j = [from EXCEPT !.pc = to]
  PROVE  j.pc = to /\ j.rows = from.rows
BY DEF JobState

LEMMA WriteContractKeeps == AblationInv /\ WriteContract => AblationInv'
<1> SUFFICES ASSUME AblationInv, WriteContract PROVE AblationInv'
  OBVIOUS
<1>1. /\ Mine \in Files /\ FilesAgree(Mine) /\ job \in JobState /\ job.pc = "case"
      /\ protocol \in Nat \ {0} /\ Mine.meta = protocol /\ JobAgrees(job, Mine, protocol)
      /\ Cases(job.rows) = Case
  BY OwnFiles DEF WriteContract, Writes, JobAgrees
<1>2. PICK f : f = [Mine EXCEPT !.contract = protocol]
  OBVIOUS
<1>3. /\ f \in Files /\ f.meta = Mine.meta /\ f.checked = Mine.checked
      /\ f.checkpoint = Mine.checkpoint
      /\ f.contract = protocol /\ f.traced = Mine.traced /\ f.traces = Mine.traces
  BY <1>1, <1>2 DEF Files
<1>4. PICK j : j = [job EXCEPT !.pc = "traces"]
  OBVIOUS
<1>5. j.pc = "traces" /\ j.rows = job.rows
  BY <1>1, <1>4, MovedOn DEF JobPc
<1>6. Mine.traced /\ ~Mine.checked => MadeUnder(Mine.traces, protocol)
  <2>1. CASE Mine.contract = protocol
    BY <1>1, <2>1 DEF FilesAgree
  <2>2. CASE Mine.contract # protocol /\ Mine.traced /\ ~Mine.checked
    <3>1. Cases(Mine.traces) = {}
      BY <1>1, <2>2 DEF JobAgrees, FilesAgree, Cases
    <3> QED BY <3>1 DEF Cases, MadeUnder
  <2> QED BY <2>1, <2>2
<1>7. FilesAgree(f)
  BY <1>1, <1>3, <1>6 DEF FilesAgree
<1>8. JobAgrees(j, f, protocol)
  BY <1>1, <1>3, <1>5 DEF JobAgrees
<1> QED BY <1>2, <1>3, <1>4, <1>7, <1>8, WritesKeep DEF WriteContract, JobPc

LEMMA WriteTracesKeeps == AblationInv /\ WriteTraces => AblationInv'
<1> SUFFICES ASSUME AblationInv, WriteTraces PROVE AblationInv'
  OBVIOUS
<1>1. /\ Mine \in Files /\ FilesAgree(Mine) /\ job \in JobState /\ job.pc = "traces"
      /\ Mine.meta = protocol /\ JobAgrees(job, Mine, protocol)
      /\ Cases(job.rows) = Case
  BY OwnFiles DEF WriteTraces, Writes, JobAgrees
<1>2. PICK f : f = [Mine EXCEPT !.traced = TRUE, !.traces = job.rows]
  OBVIOUS
<1>3. /\ f \in Files /\ f.meta = Mine.meta /\ f.checked = Mine.checked
      /\ f.checkpoint = Mine.checkpoint
      /\ f.contract = Mine.contract /\ f.traced /\ f.traces = job.rows
  <2>1. job.rows \in SUBSET AblationRow
    BY <1>1 DEF JobState
  <2> QED BY <1>1, <1>2, <2>1 DEF Files
<1>4. PICK j : j = [job EXCEPT !.pc = "unlink"]
  OBVIOUS
<1>5. j.pc = "unlink" /\ j.rows = job.rows
  BY <1>1, <1>4, MovedOn DEF JobPc
<1>6. FilesAgree(f)
  BY <1>1, <1>3 DEF FilesAgree, JobAgrees
<1>7. JobAgrees(j, f, protocol)
  BY <1>1, <1>3, <1>5 DEF JobAgrees
<1> QED BY <1>2, <1>3, <1>4, <1>6, <1>7, WritesKeep DEF WriteTraces, JobPc

LEMMA Unlink1Keeps == AblationInv /\ Unlink1 => AblationInv'
<1> SUFFICES ASSUME AblationInv, Unlink1 PROVE AblationInv'
  OBVIOUS
<1>1. /\ Mine \in Files /\ FilesAgree(Mine) /\ job \in JobState /\ job.pc = "unlink"
      /\ Mine.meta = protocol /\ JobAgrees(job, Mine, protocol)
  BY OwnFiles DEF Unlink1, Writes, JobAgrees
<1>2. PICK f : f = [Mine EXCEPT !.checked = FALSE, !.checkpoint = {}]
  OBVIOUS
<1>3. /\ f \in Files /\ f.meta = Mine.meta /\ ~f.checked /\ f.checkpoint = {}
      /\ f.contract = Mine.contract /\ f.traced = Mine.traced /\ f.traces = Mine.traces
  BY <1>1, <1>2 DEF Files
<1>4. PICK j : j = [job EXCEPT !.pc = "unlink2"]
  OBVIOUS
<1>5. j.pc = "unlink2" /\ j.rows = job.rows
  BY <1>1, <1>4, MovedOn DEF JobPc
<1>6. FilesAgree(f)
  BY <1>1, <1>3 DEF FilesAgree, JobAgrees, MadeUnder, OncePerCase
<1>7. JobAgrees(j, f, protocol)
  BY <1>1, <1>3, <1>5 DEF JobAgrees
<1> QED BY <1>2, <1>3, <1>4, <1>6, <1>7, WritesKeep DEF Unlink1, Unlinked, JobPc

LEMMA Unlink2Keeps == AblationInv /\ Unlink2 => AblationInv'
<1> SUFFICES ASSUME AblationInv, Unlink2 PROVE AblationInv'
  OBVIOUS
<1>1. /\ Mine \in Files /\ FilesAgree(Mine) /\ job \in JobState /\ job.pc = "unlink2"
      /\ JobAgrees(job, Mine, protocol) /\ ~Mine.checked
  BY OwnFiles DEF Unlink2, Writes, JobAgrees
<1>2. PICK f : f = [Mine EXCEPT !.meta = 0]
  OBVIOUS
<1>3. /\ f \in Files /\ f.meta = 0 /\ f.checked = Mine.checked /\ f.checkpoint = Mine.checkpoint
      /\ f.contract = Mine.contract /\ f.traced = Mine.traced /\ f.traces = Mine.traces
  BY <1>1, <1>2 DEF Files
<1>4. PICK j : j = [job EXCEPT !.pc = "aggregate"]
  OBVIOUS
<1>5. j.pc = "aggregate" /\ j.rows = job.rows
  BY <1>1, <1>4, MovedOn DEF JobPc
<1>6. FilesAgree(f)
  BY <1>1, <1>3 DEF FilesAgree, MadeUnder
<1>7. JobAgrees(j, f, protocol)
  BY <1>1, <1>3, <1>5 DEF JobAgrees
<1> QED BY <1>2, <1>3, <1>4, <1>6, <1>7, WritesKeep DEF Unlink2, Unlinked, JobPc

LEMMA AggregateKeeps == AblationInv /\ Aggregate => AblationInv'
<1> SUFFICES ASSUME AblationInv, Aggregate PROVE AblationInv'
  OBVIOUS
<1>1. /\ Mine \in Files /\ FilesAgree(Mine) /\ job \in JobState /\ job.pc = "aggregate"
      /\ JobAgrees(job, Mine, protocol) /\ protocol \in Nat
  BY OwnFiles DEF Aggregate, Writes
<1>2. PICK f : f = [Mine EXCEPT !.aggregate = protocol]
  OBVIOUS
<1>3. /\ f \in Files /\ f.meta = Mine.meta /\ f.checked = Mine.checked
      /\ f.checkpoint = Mine.checkpoint /\ f.contract = Mine.contract
      /\ f.traced = Mine.traced /\ f.traces = Mine.traces
  BY <1>1, <1>2 DEF Files
<1>4. PICK to \in {"lock", "none"} : to = IF job.g[2] = "dev" THEN "lock" ELSE "none"
  OBVIOUS
<1>5. PICK j : j = [job EXCEPT !.pc = to]
  OBVIOUS
<1>6. j.pc = to /\ j.rows = job.rows /\ to \in JobPc
  BY <1>1, <1>4, <1>5, MovedOn DEF JobPc
<1>7. FilesAgree(f)
  BY <1>1, <1>3 DEF FilesAgree
<1>8. JobAgrees(j, f, protocol)
  BY <1>1, <1>3, <1>4, <1>6 DEF JobAgrees
<1> QED BY <1>2, <1>3, <1>4, <1>5, <1>6, <1>7, <1>8, WritesKeep DEF Aggregate, JobPc

LEMMA AblationInvNext == AblationInv /\ [AblationNext]_ablationVars => AblationInv'
<1>1. ASSUME AblationInv, Edit PROVE AblationInv'
  <2>1. protocol' \in Nat \ {0} /\ group' = group /\ job' = job /\ job.pc = "none"
    BY <1>1, AblationAssumption DEF Edit
  <2> QED BY <1>1, <2>1 DEF AblationInv, AblationTypes, JobAgrees
<1>2. ASSUME AblationInv, WriteLock \/ Stop PROVE AblationInv'
  <2>1. protocol' = protocol /\ group' = group /\ job' = NoJob
    BY <1>2 DEF WriteLock, Stop
  <2> QED BY <1>2, <2>1, NoJobFacts DEF AblationInv, AblationTypes, JobAgrees
<1>3. ASSUME AblationInv, UNCHANGED ablationVars PROVE AblationInv'
  BY <1>3 DEF ablationVars, AblationInv, AblationTypes
<1> QED BY <1>1, <1>2, <1>3, BeginKeeps, LoadKeeps, RunCaseKeeps, WriteContractKeeps,
           WriteTracesKeeps, Unlink1Keeps, Unlink2Keeps, AggregateKeeps DEF AblationNext

LEMMA AblationInvInit == AblationInit => AblationInv
<1> SUFFICES ASSUME AblationInit PROVE AblationInv
  OBVIOUS
<1>1. NoFiles \in Files /\ FilesAgree(NoFiles)
  BY DEF NoFiles, Files, FilesAgree, MadeUnder, OncePerCase
<1> QED BY <1>1, NoJobFacts DEF AblationInit, AblationInv, AblationTypes, JobAgrees

\* The inductive invariant of the ablation experiments.
THEOREM AblationInvariant == AblationSpec => []AblationInv
BY AblationInvInit, AblationInvNext, PTL DEF AblationSpec

\* For any cases, protocols and processes, wherever they end: a completed group
\* has each case once, all made under the contract beside them.
THEOREM RowsAgree == AblationSpec => []RowsOfOneProtocol
<1>1. AblationInv => RowsOfOneProtocol
  <2> SUFFICES ASSUME AblationInv, NEW g \in Group
               PROVE  /\ \A r \in group[g].checkpoint : r.protocol = group[g].meta
                      /\ group[g].meta = 0 /\ group[g].traced =>
                           /\ Cardinality(group[g].traces) = Cardinality(Case)
                           /\ \A r \in group[g].traces : r.protocol = group[g].contract
    BY DEF RowsOfOneProtocol, Of
  <2>1. group[g] \in Files /\ FilesAgree(group[g])
    BY DEF AblationInv, AblationTypes
  <2>2. group[g].traces \in SUBSET AblationRow
    BY <2>1 DEF Files
  <2> QED BY <2>1, <2>2, OneRowEach DEF FilesAgree, MadeUnder
<1> QED BY <1>1, AblationInvariant, PTL

-----------------------------------------------------------------------------
(* Case runs.                                                              *)

CasePc == {"idle", "claim", "check", "next", "item", "wait", "write"}

CaseRow == [item : Item, run : Nat, by : {"case", "main"}, calls : SUBSET Nat]

WorkerState ==
  [pc : CasePc, run : Nat, item : Item \cup {NoItem}, own : SUBSET Nat, rows : SUBSET CaseRow]

LedgerCall == [item : Item, run : Nat, status : {"pending", "done", "failed"}]

AtItem(s) == s.pc \in {"item", "wait"}
Working(s) == s.pc \in {"next", "item", "wait", "write"}

\* The calls that ledger l has of run n for item i.
Spent(l, i, n) == {c \in DOMAIN l : l[c].item = i /\ l[c].run = n}

\* The rows of files f and of processes W.
RowsOf(f, W) == f \cup UNION {W[w].rows : w \in Worker}

\* Runs are numbered as they start: a run is one process's, and neither the
\* ledger nor a row names one that has not started.
RunsAreNumbered(n, l, f, W) ==
  /\ \A w \in Worker : W[w].pc # "idle" => W[w].run \in 1 .. n
  /\ \A w, v \in Worker :
       W[w].pc # "idle" /\ W[v].pc # "idle" /\ W[w].run = W[v].run => w = v
  /\ \A c \in DOMAIN l : l[c].run <= n
  /\ \A r \in RowsOf(f, W) : r.run <= n

\* A run takes its items one after the other: what it asked before the item it
\* is at was for items that have a row, its own rows among them.
TakesInTurn(s, l, rows) ==
  s.pc # "idle" =>
    /\ AtItem(s) => s.item \in Item \ Items(s.rows) /\ s.own = Spent(l, s.item, s.run)
    /\ \A c \in DOMAIN l : l[c].run = s.run =>
         l[c].item \in Items(s.rows) \/ (AtItem(s) /\ l[c].item = s.item)
    /\ \A r \in rows : r.run = s.run => r.item \in Items(s.rows)

\* The marker lets one run of the live runner through: all calls are its calls.
OneLiveRun(marker, l, W) ==
  /\ \A w \in Worker : W[w].pc # "check"
  /\ ~marker => l = <<>> /\ \A w \in Worker : ~Working(W[w])
  /\ \A w, v \in Worker : Working(W[w]) /\ Working(W[v]) => w = v
  /\ \A w \in Worker : Working(W[w]) => \A c \in DOMAIN l : l[c].run = W[w].run

ReportsAttempt == runner.charges # "case" \/ runner = LiveRun

\* A row reports what ledger l has of its run, or it is one of those that do not.
Reports(r, l) ==
  \/ r.calls = Spent(l, r.item, r.run)
  \/ runner = AdaptiveRun /\ r.by = "main" /\ r.calls = {}

CaseTypes ==
  /\ runner \in Runners /\ started \in Nat
  /\ ledger \in Seq(LedgerCall)
  /\ files \in SUBSET CaseRow
  /\ worker \in [Worker -> WorkerState]

CaseInv ==
  /\ CaseTypes
  /\ RunsAreNumbered(started, ledger, files, worker)
  /\ \A w \in Worker : TakesInTurn(worker[w], ledger, RowsOf(files, worker))
  /\ runner = LiveRun => OneLiveRun(claimed, ledger, worker)
  /\ ReportsAttempt =>
       \A r \in RowsOf(files, worker) : Reports(r, ledger)

LEMMA RunnerFacts ==
  ASSUME NEW x \in Runners
  PROVE  /\ x.charges \in {"own", "run", "case"}
         /\ x.writes \in {"row", "rows", "end"}
<1> DEFINE Fact(y) == y.charges \in {"own", "run", "case"} /\ y.writes \in {"row", "rows", "end"}
<1>1. Fact(PairedRun)
  BY DEF PairedRun
<1>2. Fact(AdaptiveRun) /\ Fact(Ch15Run) /\ Fact(PlanRun)
  BY DEF PairedRun, AdaptiveRun, Ch15Run, PlanRun
<1>3. Fact(PaidRun) /\ Fact(LiveRun)
  BY DEF PairedRun, PaidRun, LiveRun
<1>4. Fact(ClaimRun)
  BY DEF PairedRun, ClaimRun
<1>5. Fact(QueryRun)
  BY DEF PairedRun, ClaimRun, QueryRun
<1>6. Fact(VerifyRun) /\ Fact(TriggerRun)
  BY <1>5 DEF VerifyRun, TriggerRun
<1>7. Fact(LayeredRun)
  BY DEF PairedRun, ClaimRun, QueryRun, LayeredRun
<1> HIDE DEF Fact
<1>8. Fact(x)
  BY <1>1, <1>2, <1>3, <1>4, <1>5, <1>6, <1>7 DEF Runners
<1> QED BY <1>8 DEF Fact

LEMMA LiveFacts ==
  LiveRun.claims /\ ~LiveRun.checks /\ LiveRun.charges = "case" /\ LiveRun.keeps = "nothing"
BY DEF LiveRun, PairedRun

LEMMA InRowsOf ==
  ASSUME NEW f, NEW W, NEW r
  PROVE  r \in RowsOf(f, W) <=> r \in f \/ \E w \in Worker : r \in W[w].rows
BY DEF RowsOf

\* The same calls, whatever their status.
SameCalls(l, m) ==
  DOMAIN m = DOMAIN l /\ \A c \in DOMAIN l : m[c].item = l[c].item /\ m[c].run = l[c].run

LEMMA SameSpent ==
  ASSUME NEW l, NEW m, SameCalls(l, m), NEW i, NEW n
  PROVE  Spent(m, i, n) = Spent(l, i, n)
BY DEF SameCalls, Spent

\* A process stops, or goes on in its run at the item it is at, and the rows are
\* some of those that were there.
TakesOn(s, t) ==
  \/ t = Resting
  \/ /\ t.run = s.run /\ t.rows = s.rows /\ s.pc # "idle"
     /\ ~AtItem(s) /\ ~AtItem(t)
     /\ Working(s) => Working(t)
  \/ /\ t.run = s.run /\ t.rows = s.rows /\ t.item = s.item /\ t.own = s.own
     /\ AtItem(s) /\ AtItem(t)

LEMMA RestingFacts ==
  Resting \in WorkerState /\ Resting.pc = "idle" /\ Resting.rows = {}
    /\ ~AtItem(Resting) /\ ~Working(Resting)
BY DEF Resting, WorkerState, CasePc, AtItem, Working

LEMMA GoingOnKeeps ==
  ASSUME CaseInv, NEW w \in Worker, NEW t \in WorkerState, TakesOn(worker[w], t),
         worker' = [worker EXCEPT ![w] = t],
         runner' = runner, started' = started,
         ledger' \in Seq(LedgerCall), SameCalls(ledger, ledger'),
         files' \in SUBSET CaseRow, files' \subseteq RowsOf(files, worker),
         runner = LiveRun => OneLiveRun(claimed', ledger', worker')
  PROVE  CaseInv'
<1>1. \A v \in Worker : worker'[v] = IF v = w THEN t ELSE worker[v]
  BY DEF CaseInv, CaseTypes
<1>2. RowsOf(files', worker') \subseteq RowsOf(files, worker)
  <2> SUFFICES ASSUME NEW r \in RowsOf(files', worker') PROVE r \in RowsOf(files, worker)
    OBVIOUS
  <2>1. r \in files' \/ \E v \in Worker : r \in worker'[v].rows
    BY InRowsOf
  <2>2. r \in files' \/ \E v \in Worker : r \in worker[v].rows
    BY <1>1, <2>1, RestingFacts DEF TakesOn
  <2> QED BY <2>2, InRowsOf
<1>3. CaseTypes'
  BY DEF CaseInv, CaseTypes
<1>4. RunsAreNumbered(started', ledger', files', worker')
  <2>1. \A v \in Worker : worker'[v].pc # "idle" =>
          worker[v].pc # "idle" /\ worker'[v].run = worker[v].run
    BY <1>1, RestingFacts DEF TakesOn, AtItem
  <2>2. RunsAreNumbered(started, ledger, files, worker)
    BY DEF CaseInv
  <2>3. \A c \in DOMAIN ledger' : ledger'[c].run <= started
    BY <2>2 DEF SameCalls, RunsAreNumbered
  <2>4. \A v \in Worker : worker'[v].pc # "idle" => worker'[v].run \in 1 .. started
    BY <2>1, <2>2 DEF RunsAreNumbered
  <2>5. \A v, u \in Worker : worker'[v].pc # "idle" /\ worker'[u].pc # "idle"
          /\ worker'[v].run = worker'[u].run => v = u
    BY <2>1, <2>2 DEF RunsAreNumbered
  <2>6. \A r \in RowsOf(files', worker') : r.run <= started
    BY <1>2, <2>2 DEF RunsAreNumbered
  <2> QED BY <2>3, <2>4, <2>5, <2>6 DEF RunsAreNumbered
<1>5. ASSUME NEW v \in Worker
      PROVE  TakesInTurn(worker'[v], ledger', RowsOf(files', worker'))
  <2>1. TakesInTurn(worker[v], ledger, RowsOf(files, worker))
    BY DEF CaseInv
  <2>2. ASSUME NEW s, s.pc # "idle", worker[v].pc # "idle", s.run = worker[v].run,
               s.rows = worker[v].rows, AtItem(s) <=> AtItem(worker[v]),
               AtItem(s) => s.item = worker[v].item /\ s.own = worker[v].own
        PROVE  TakesInTurn(s, ledger', RowsOf(files', worker'))
    <3>1. AtItem(s) => s.own = Spent(ledger', s.item, s.run)
      BY <2>1, <2>2, SameSpent DEF TakesInTurn
    <3>2. AtItem(s) => s.item \in Item \ Items(s.rows)
      BY <2>1, <2>2 DEF TakesInTurn
    <3>3. \A c \in DOMAIN ledger' : ledger'[c].run = s.run =>
            ledger'[c].item \in Items(s.rows) \/ (AtItem(s) /\ ledger'[c].item = s.item)
      BY <2>1, <2>2 DEF TakesInTurn, SameCalls
    <3>4. \A r \in RowsOf(files', worker') : r.run = s.run => r.item \in Items(s.rows)
      BY <1>2, <2>1, <2>2 DEF TakesInTurn
    <3> QED BY <3>1, <3>2, <3>3, <3>4 DEF TakesInTurn
  <2>3. CASE worker'[v].pc = "idle"
    BY <2>3 DEF TakesInTurn
  <2>4. CASE v # w /\ worker'[v].pc # "idle"
    <3>1. worker'[v] = worker[v]
      BY <1>1, <2>4
    <3> QED BY <2>2, <2>4, <3>1
  <2>5. CASE v = w /\ worker'[v].pc # "idle"
    <3>1. worker'[v] = t /\ t # Resting
      BY <1>1, <2>5, RestingFacts
    <3>2. worker[v].pc # "idle" /\ t.run = worker[v].run
            /\ t.rows = worker[v].rows /\ (AtItem(t) <=> AtItem(worker[v]))
            /\ (AtItem(t) => t.item = worker[v].item /\ t.own = worker[v].own)
      BY <2>5, <3>1 DEF TakesOn, AtItem
    <3> QED BY <2>2, <2>5, <3>1, <3>2
  <2> QED BY <2>3, <2>4, <2>5
<1>6. ReportsAttempt' =>
        \A r \in RowsOf(files', worker') : Reports(r, ledger')
  <2> SUFFICES ASSUME ReportsAttempt', NEW r \in RowsOf(files', worker')
               PROVE  Reports(r, ledger')
    OBVIOUS
  <2>1. Reports(r, ledger)
    BY <1>2 DEF ReportsAttempt, CaseInv
  <2>2. Spent(ledger', r.item, r.run) = Spent(ledger, r.item, r.run)
    BY SameSpent
  <2> QED BY <2>1, <2>2 DEF Reports
<1> QED BY <1>3, <1>4, <1>5, <1>6 DEF CaseInv, Reports

\* When the marker is there already, or no live run is at its items.
LEMMA OneLiveStays ==
  ASSUME CaseInv, NEW w \in Worker, NEW t, TakesOn(worker[w], t),
         worker' = [worker EXCEPT ![w] = t], t.pc # "check",
         claimed' = claimed, SameCalls(ledger, ledger'), ledger' \in Seq(LedgerCall),
         runner = LiveRun, Working(t) => Working(worker[w])
  PROVE  OneLiveRun(claimed', ledger', worker')
<1>1. \A v \in Worker : worker'[v] = IF v = w THEN t ELSE worker[v]
  BY DEF CaseInv, CaseTypes
<1>2. \A v \in Worker : Working(worker'[v]) => Working(worker[v]) /\ worker'[v].run = worker[v].run
  BY <1>1, RestingFacts DEF TakesOn
<1>3. ledger = <<>> => ledger' = <<>>
  BY LenProperties DEF SameCalls, CaseInv, CaseTypes
<1> QED BY <1>1, <1>2, <1>3 DEF OneLiveRun, CaseInv, SameCalls

\* What a step of a process does to its state.
LEMMA StateFacts ==
  ASSUME CaseInv, NEW w \in Worker
  PROVE  /\ worker[w] \in WorkerState
         /\ TakesInTurn(worker[w], ledger, RowsOf(files, worker))
         /\ files \subseteq RowsOf(files, worker) /\ worker[w].rows \subseteq RowsOf(files, worker)
         /\ files \in SUBSET CaseRow /\ worker[w].rows \in SUBSET CaseRow
         /\ ledger \in Seq(LedgerCall) /\ SameCalls(ledger, ledger)
<1>1. worker[w] \in WorkerState /\ files \in SUBSET CaseRow /\ ledger \in Seq(LedgerCall)
  BY DEF CaseInv, CaseTypes
<1>2. worker[w].rows \in SUBSET CaseRow
  BY <1>1 DEF WorkerState
<1> QED BY <1>1, <1>2, InRowsOf DEF CaseInv, SameCalls

LEMMA StopsKeep ==
  ASSUME CaseInv, NEW w \in Worker, worker' = [worker EXCEPT ![w] = Resting],
         runner' = runner, started' = started, claimed' = claimed,
         ledger' \in Seq(LedgerCall), SameCalls(ledger, ledger'),
         files' = files \/ files' = worker[w].rows
  PROVE  CaseInv'
<1>1. TakesOn(worker[w], Resting)
  BY DEF TakesOn
<1>2. runner = LiveRun => OneLiveRun(claimed', ledger', worker')
  BY <1>1, OneLiveStays, RestingFacts
<1>3. files' \in SUBSET CaseRow /\ files' \subseteq RowsOf(files, worker)
  BY StateFacts
<1> QED BY <1>1, <1>2, <1>3, GoingOnKeeps, RestingFacts

\* It moves to another place in its run, not to or from an item.
LEMMA PcFacts ==
  ASSUME NEW s \in WorkerState, NEW pc \in CasePc, NEW t, t = [s EXCEPT !.pc = pc]
  PROVE  t \in WorkerState /\ t.pc = pc /\ t.run = s.run /\ t.rows = s.rows
           /\ t.item = s.item /\ t.own = s.own
BY DEF WorkerState

LEMMA CheckKeeps ==
  ASSUME CaseInv, NEW w \in Worker, Check(w) PROVE CaseInv'
<1>1. /\ runner' = runner /\ started' = started /\ claimed' = claimed /\ ledger' = ledger
      /\ files' = files /\ worker[w].pc = "check"
  BY DEF Check, Is
<1>2. CASE Unsettled = {}
  <2>1. PICK t : t = [worker[w] EXCEPT !.pc = "next"]
    OBVIOUS
  <2>2. t \in WorkerState /\ t.pc = "next" /\ t.run = worker[w].run /\ t.rows = worker[w].rows
    BY <2>1, PcFacts, StateFacts DEF CasePc
  <2>3. worker' = [worker EXCEPT ![w] = t]
    BY <1>2, <2>1 DEF Check, Moves
  <2>4. TakesOn(worker[w], t)
    BY <1>1, <2>2 DEF TakesOn, AtItem, Working
  <2>5. runner # LiveRun
    BY <1>1 DEF CaseInv, OneLiveRun
  <2> QED BY <1>1, <2>2, <2>3, <2>4, <2>5, GoingOnKeeps, StateFacts
<1>3. CASE Unsettled # {}
  BY <1>1, <1>3, StopsKeep, StateFacts DEF Check, Moves
<1> QED BY <1>2, <1>3

LEMMA CompleteRunKeeps ==
  ASSUME CaseInv, NEW w \in Worker, CompleteRun(w) PROVE CaseInv'
<1>1. /\ runner' = runner /\ started' = started /\ claimed' = claimed /\ ledger' = ledger
      /\ files' = files /\ worker[w].pc = "next"
  BY DEF CompleteRun, Is
<1>2. CASE runner.writes = "end"
  <2>1. PICK t : t = [worker[w] EXCEPT !.pc = "write"]
    OBVIOUS
  <2>2. t \in WorkerState /\ t.pc = "write" /\ t.run = worker[w].run /\ t.rows = worker[w].rows
    BY <2>1, PcFacts, StateFacts DEF CasePc
  <2>3. worker' = [worker EXCEPT ![w] = t]
    BY <1>2, <2>1 DEF CompleteRun, Moves
  <2>4. TakesOn(worker[w], t) /\ Working(worker[w])
    BY <1>1, <2>2 DEF TakesOn, AtItem, Working
  <2>5. runner = LiveRun => OneLiveRun(claimed', ledger', worker')
    BY <1>1, <2>2, <2>3, <2>4, OneLiveStays, StateFacts
  <2> QED BY <1>1, <2>2, <2>3, <2>4, <2>5, GoingOnKeeps, StateFacts
<1>3. CASE runner.writes # "end"
  BY <1>1, <1>3, StopsKeep, StateFacts DEF CompleteRun, Moves
<1> QED BY <1>2, <1>3

LEMMA WriteRowsKeeps ==
  ASSUME CaseInv, NEW w \in Worker, WriteRows(w) PROVE CaseInv'
BY StopsKeep, StateFacts DEF WriteRows, Moves

LEMMA EndsKeeps ==
  ASSUME CaseInv, NEW w \in Worker, Ends(w) PROVE CaseInv'
BY StopsKeep, StateFacts DEF Ends, Moves

LEMMA ReturnKeeps ==
  ASSUME CaseInv, NEW w \in Worker, Return(w) PROVE CaseInv'
<1>1. PICK status \in {"done", "failed"}, c \in worker[w].own \cap Unsettled :
        /\ ledger' = [ledger EXCEPT ![c].status = status]
        /\ LET ends == runner.keeps = "rows" /\ status = "failed" IN
           /\ files' = IF ends THEN worker[w].rows ELSE files
           /\ Moves(w, IF ends THEN Resting ELSE [worker[w] EXCEPT !.pc = "item"])
  BY DEF Return
<1>2. /\ runner' = runner /\ started' = started /\ claimed' = claimed /\ worker[w].pc = "wait"
  BY DEF Return, Is
<1>3. ledger' \in Seq(LedgerCall) /\ SameCalls(ledger, ledger')
  <2>1. c \in DOMAIN ledger /\ ledger[c] \in LedgerCall /\ ledger \in Seq(LedgerCall)
    BY StateFacts, ElementOfSeq, LenProperties DEF Unsettled
  <2>2. PICK e : e = [ledger[c] EXCEPT !.status = status]
    OBVIOUS
  <2>3. e \in LedgerCall /\ e.item = ledger[c].item /\ e.run = ledger[c].run
    BY <2>1, <2>2 DEF LedgerCall
  <2>4. ledger' = [ledger EXCEPT ![c] = e]
    BY <1>1, <2>2
  <2>5. ledger' \in Seq(LedgerCall)
    BY <2>1, <2>3, <2>4, ExceptSeq
  <2> QED BY <2>1, <2>3, <2>4, <2>5 DEF SameCalls
<1>4. CASE runner.keeps = "rows" /\ status = "failed"
  BY <1>1, <1>2, <1>3, <1>4, StopsKeep DEF Moves
<1>5. CASE ~(runner.keeps = "rows" /\ status = "failed")
  <2>1. PICK t : t = [worker[w] EXCEPT !.pc = "item"]
    OBVIOUS
  <2>2. t \in WorkerState /\ t.pc = "item" /\ t.run = worker[w].run /\ t.rows = worker[w].rows
          /\ t.item = worker[w].item /\ t.own = worker[w].own
    BY <2>1, PcFacts, StateFacts DEF CasePc
  <2>3. worker' = [worker EXCEPT ![w] = t] /\ files' = files
    BY <1>1, <1>5, <2>1 DEF Moves
  <2>4. TakesOn(worker[w], t) /\ Working(worker[w])
    BY <1>2, <2>2 DEF TakesOn, AtItem, Working
  <2>5. runner = LiveRun => OneLiveRun(claimed', ledger', worker')
    BY <1>2, <1>3, <2>2, <2>3, <2>4, OneLiveStays
  <2> QED BY <1>2, <1>3, <2>2, <2>3, <2>4, <2>5, GoingOnKeeps, StateFacts
<1> QED BY <1>4, <1>5

LEMMA ClaimKeeps ==
  ASSUME CaseInv, NEW w \in Worker, Claim(w) PROVE CaseInv'
<1>1. /\ runner' = runner /\ started' = started /\ claimed' = TRUE /\ ledger' = ledger
      /\ files' = files /\ worker[w].pc = "claim"
  BY DEF Claim, Is
<1>2. CASE ~claimed
  <2>1. PICK pc \in {"check", "next"} : pc = IF runner.checks THEN "check" ELSE "next"
    OBVIOUS
  <2>2. PICK t : t = [worker[w] EXCEPT !.pc = pc]
    OBVIOUS
  <2>3. t \in WorkerState /\ t.pc = pc /\ t.run = worker[w].run /\ t.rows = worker[w].rows
    BY <2>1, <2>2, PcFacts, StateFacts DEF CasePc
  <2>4. worker' = [worker EXCEPT ![w] = t]
    BY <1>2, <2>1, <2>2 DEF Claim, Moves
  <2>5. TakesOn(worker[w], t)
    BY <1>1, <2>3 DEF TakesOn, AtItem, Working
  <2>6. ASSUME runner = LiveRun PROVE OneLiveRun(claimed', ledger', worker')
    <3>1. pc = "next" /\ ledger = <<>> /\ \A v \in Worker : ~Working(worker[v]) /\ worker[v].pc # "check"
      BY <1>2, <2>1, <2>6, LiveFacts DEF CaseInv, OneLiveRun
    <3>2. \A v \in Worker : worker'[v] = IF v = w THEN t ELSE worker[v]
      BY <2>4 DEF CaseInv, CaseTypes
    <3>3. DOMAIN ledger = {}
      BY <3>1
    <3> QED BY <1>1, <2>3, <3>1, <3>2, <3>3 DEF OneLiveRun
  <2> QED BY <1>1, <2>3, <2>4, <2>5, <2>6, GoingOnKeeps, StateFacts
<1>3. CASE claimed
  <2>1. PICK other : other = Resting
    OBVIOUS
  <2>2. worker' = [worker EXCEPT ![w] = Resting] /\ TakesOn(worker[w], Resting)
    BY <1>3 DEF Claim, Moves, TakesOn
  <2>3. runner = LiveRun => OneLiveRun(TRUE, ledger', worker')
    <3>1. \A v \in Worker : worker'[v] = IF v = w THEN Resting ELSE worker[v]
      BY <2>2 DEF CaseInv, CaseTypes
    <3> QED BY <1>1, <1>3, <3>1, RestingFacts DEF CaseInv, OneLiveRun
  <2> QED BY <1>1, <2>2, <2>3, GoingOnKeeps, StateFacts, RestingFacts
<1> QED BY <1>2, <1>3

LEMMA StartKeeps ==
  ASSUME CaseInv, NEW w \in Worker, Start(w) PROVE CaseInv'
<1>1. /\ runner' = runner /\ started' = started + 1 /\ claimed' = claimed /\ ledger' = ledger
      /\ files' = files /\ worker[w].pc = "idle" /\ started \in Nat
  BY DEF Start, Is, CaseInv, CaseTypes
<1>2. PICK pc \in {"claim", "check", "next"} :
        pc = IF runner.claims THEN "claim" ELSE IF runner.checks THEN "check" ELSE "next"
  OBVIOUS
<1>3. PICK rows \in SUBSET CaseRow :
        rows = IF runner.keeps = "rows" THEN files ELSE {}
  BY StateFacts
<1>4. PICK n \in Nat : n = started + 1
  BY <1>1
<1>5. PICK t : t = [Resting EXCEPT !.pc = pc, !.run = n, !.rows = rows]
  OBVIOUS
<1>6. /\ t \in WorkerState /\ t.pc = pc /\ t.run = n /\ t.rows = rows
      /\ ~AtItem(t)
  BY <1>5 DEF Resting, WorkerState, CasePc, AtItem
<1>7. worker' = [worker EXCEPT ![w] = t]
  BY <1>1, <1>2, <1>3, <1>4, <1>5 DEF Start, Moves
<1>8. \A v \in Worker : worker'[v] = IF v = w THEN t ELSE worker[v]
  BY <1>7 DEF CaseInv, CaseTypes
<1>9. RowsOf(files', worker') \subseteq RowsOf(files, worker)
  <2> SUFFICES ASSUME NEW r \in RowsOf(files', worker') PROVE r \in RowsOf(files, worker)
    OBVIOUS
  <2>1. r \in files' \/ \E v \in Worker : r \in worker'[v].rows
    BY InRowsOf
  <2>2. r \in files \/ \E v \in Worker : r \in worker[v].rows
    BY <1>1, <1>3, <1>6, <1>8, <2>1
  <2> QED BY <2>2, InRowsOf
<1>10. RunsAreNumbered(started, ledger, files, worker)
  BY DEF CaseInv
<1>11. CaseTypes'
  BY <1>1, <1>6, <1>7 DEF CaseInv, CaseTypes
<1>12. RunsAreNumbered(n, ledger, files, worker')
  <2>1. \A v \in Worker : worker'[v].pc # "idle" => worker'[v].run \in 1 .. n
    BY <1>1, <1>4, <1>6, <1>8, <1>10 DEF RunsAreNumbered
  <2>2. \A v \in Worker : worker[v].pc # "idle" => worker[v].run # n
    BY <1>1, <1>4, <1>10 DEF RunsAreNumbered
  <2>3. \A v, u \in Worker : worker'[v].pc # "idle" /\ worker'[u].pc # "idle"
          /\ worker'[v].run = worker'[u].run => v = u
    BY <1>6, <1>8, <1>10, <2>2 DEF RunsAreNumbered
  <2>4. \A c \in DOMAIN ledger : ledger[c].run <= n
    <3> SUFFICES ASSUME NEW c \in DOMAIN ledger PROVE ledger[c].run <= n
      OBVIOUS
    <3>1. ledger[c] \in LedgerCall
      BY StateFacts, ElementOfSeq, LenProperties
    <3> QED BY <1>1, <1>4, <1>10, <3>1 DEF RunsAreNumbered, LedgerCall
  <2>5. \A r \in RowsOf(files', worker') : r.run <= n
    <3> SUFFICES ASSUME NEW r \in RowsOf(files, worker) PROVE r.run <= n
      BY <1>9
    <3>1. r \in CaseRow
      BY InRowsOf DEF CaseInv, CaseTypes, WorkerState
    <3> QED BY <1>1, <1>4, <1>10, <3>1 DEF RunsAreNumbered, CaseRow
  <2> QED BY <1>1, <2>1, <2>3, <2>4, <2>5 DEF RunsAreNumbered
<1>13. ASSUME NEW v \in Worker
       PROVE  TakesInTurn(worker'[v], ledger, RowsOf(files', worker'))
  <2>1. CASE v = w
    <3>1. \A c \in DOMAIN ledger : ledger[c].run # n
      <4> SUFFICES ASSUME NEW c \in DOMAIN ledger PROVE ledger[c].run # n
        OBVIOUS
      <4> QED BY <1>1, <1>4, <1>10 DEF RunsAreNumbered
    <3>2. \A r \in RowsOf(files', worker') : r.run # n
      BY <1>1, <1>4, <1>9, <1>10 DEF RunsAreNumbered
    <3> QED BY <1>6, <1>8, <2>1, <3>1, <3>2 DEF TakesInTurn
  <2>2. CASE v # w
    <3>1. worker'[v] = worker[v] /\ TakesInTurn(worker[v], ledger, RowsOf(files, worker))
      BY <1>8, <2>2 DEF CaseInv
    <3> QED BY <1>9, <3>1 DEF TakesInTurn
  <2> QED BY <2>1, <2>2
<1>14. ASSUME runner = LiveRun PROVE OneLiveRun(claimed, ledger, worker')
  <2>1. t.pc = "claim" /\ ~Working(t) /\ OneLiveRun(claimed, ledger, worker)
    BY <1>2, <1>6, <1>14, LiveFacts DEF Working, CaseInv
  <2> QED BY <1>8, <2>1 DEF OneLiveRun
<1>15. ReportsAttempt' =>
         \A r \in RowsOf(files', worker') : Reports(r, ledger)
  BY <1>1, <1>9 DEF CaseInv, ReportsAttempt
<1> QED BY <1>1, <1>4, <1>11, <1>12, <1>13, <1>14, <1>15 DEF CaseInv, Reports

LEMMA BeginItemKeeps ==
  ASSUME CaseInv, NEW w \in Worker, BeginItem(w) PROVE CaseInv'
<1>1. /\ runner' = runner /\ started' = started /\ claimed' = claimed /\ ledger' = ledger
      /\ files' = files /\ worker[w].pc = "next"
  BY DEF BeginItem, Is
<1>2. PICK i \in Item \ Items(worker[w].rows) :
        worker' \in {[worker EXCEPT ![w] = Resting],
                     [worker EXCEPT ![w] = [worker[w] EXCEPT !.pc = "item", !.item = i, !.own = {}]]}
  BY DEF BeginItem, Moves
<1>3. CASE worker' = [worker EXCEPT ![w] = Resting]
  BY <1>1, <1>3, StopsKeep, StateFacts
<1>4. CASE worker' = [worker EXCEPT ![w] = [worker[w] EXCEPT !.pc = "item", !.item = i, !.own = {}]]
  <2>1. PICK t : t = [worker[w] EXCEPT !.pc = "item", !.item = i, !.own = {}]
    OBVIOUS
  <2>2. /\ t \in WorkerState /\ t.pc = "item" /\ t.run = worker[w].run /\ t.rows = worker[w].rows
        /\ t.item = i /\ t.own = {}
    BY <2>1, StateFacts DEF WorkerState, CasePc
  <2>3. worker' = [worker EXCEPT ![w] = t]
    BY <1>4, <2>1
  <2>4. \A v \in Worker : worker'[v] = IF v = w THEN t ELSE worker[v]
    BY <2>3 DEF CaseInv, CaseTypes
  <2>5. RowsOf(files', worker') = RowsOf(files, worker)
    <3>1. \A r : r \in RowsOf(files', worker') <=> r \in RowsOf(files, worker)
      <4> TAKE r
      <4>1. r \in RowsOf(files', worker') <=> r \in files' \/ \E v \in Worker : r \in worker'[v].rows
        BY InRowsOf
      <4>2. r \in RowsOf(files, worker) <=> r \in files \/ \E v \in Worker : r \in worker[v].rows
        BY InRowsOf
      <4> QED BY <1>1, <2>2, <2>4, <4>1, <4>2
    <3> QED BY <3>1
  <2>6. CaseTypes'
    BY <1>1, <2>2, <2>3 DEF CaseInv, CaseTypes
  <2>7. RunsAreNumbered(started, ledger, files, worker')
    BY <1>1, <2>2, <2>4, <2>5 DEF CaseInv, RunsAreNumbered
  <2>8. ASSUME NEW v \in Worker
        PROVE  TakesInTurn(worker'[v], ledger, RowsOf(files, worker))
    <3>1. TakesInTurn(worker[v], ledger, RowsOf(files, worker))
      BY DEF CaseInv
    <3>2. CASE v = w
      <4>1. Spent(ledger, i, t.run) = {}
        BY <1>1, <1>2, <2>2, <3>1, <3>2 DEF TakesInTurn, AtItem, Spent
      <4> QED BY <1>1, <1>2, <2>2, <2>4, <3>1, <3>2, <4>1 DEF TakesInTurn, AtItem
    <3> QED BY <2>4, <3>1, <3>2
  <2>9. ASSUME runner = LiveRun PROVE OneLiveRun(claimed, ledger, worker')
    <3>1. OneLiveRun(claimed, ledger, worker) /\ Working(worker[w])
      BY <1>1, <2>9 DEF Working, CaseInv
    <3> QED BY <2>2, <2>4, <3>1 DEF OneLiveRun, Working
  <2> QED BY <1>1, <2>5, <2>6, <2>7, <2>8, <2>9 DEF CaseInv, ReportsAttempt, Reports
<1> QED BY <1>2, <1>3, <1>4

LEMMA AskKeeps ==
  ASSUME CaseInv, NEW w \in Worker, Ask(w) PROVE CaseInv'
<1>1. /\ runner' = runner /\ started' = started /\ claimed' = claimed
      /\ files' = files /\ worker[w].pc = "item" /\ AtItem(worker[w])
      /\ started \in Nat
  BY DEF Ask, Is, AtItem, CaseInv, CaseTypes
<1>2. PICK i \in Item, run \in Nat : i = worker[w].item /\ run = worker[w].run
  BY <1>1, StateFacts DEF TakesInTurn, AtItem, WorkerState
<1>3. PICK e : e = [item |-> i, run |-> run, status |-> "pending"]
  OBVIOUS
<1>4. e \in LedgerCall /\ e.item = i /\ e.run = run
  BY <1>3 DEF LedgerCall
<1>5. ledger' = Append(ledger, e)
  BY <1>2, <1>3 DEF Ask
<1>6. PICK n \in Nat : n = Len(ledger')
  BY <1>4, <1>5, StateFacts, AppendProperties
<1>7. /\ ledger' \in Seq(LedgerCall) /\ n \notin DOMAIN ledger
      /\ DOMAIN ledger' = DOMAIN ledger \cup {n} /\ ledger'[n] = e
      /\ \A c \in DOMAIN ledger : ledger'[c] = ledger[c]
  BY <1>4, <1>5, <1>6, StateFacts, AppendProperties, LenProperties
<1>8. ASSUME NEW j, NEW m
      PROVE  Spent(ledger', j, m) =
               Spent(ledger, j, m) \cup (IF j = i /\ m = run THEN {n} ELSE {})
  BY <1>4, <1>7 DEF Spent
<1>9. PICK own \in SUBSET Nat : own = worker[w].own \cup {n}
  BY StateFacts DEF WorkerState
<1>10. PICK t : t = [worker[w] EXCEPT !.pc = "wait", !.own = own]
  OBVIOUS
<1>11. /\ t \in WorkerState /\ t.pc = "wait" /\ t.run = worker[w].run /\ t.rows = worker[w].rows
       /\ t.item = worker[w].item /\ t.own = own /\ AtItem(t)
  BY <1>10, StateFacts DEF WorkerState, CasePc, AtItem
<1>12. worker' = [worker EXCEPT ![w] = t]
  BY <1>6, <1>9, <1>10 DEF Ask, Moves, CaseInv, CaseTypes, WorkerState
<1>13. \A v \in Worker : worker'[v] = IF v = w THEN t ELSE worker[v]
  BY <1>12 DEF CaseInv, CaseTypes
<1>14. RowsOf(files', worker') = RowsOf(files, worker)
  <2>1. \A r : r \in RowsOf(files', worker') <=> r \in RowsOf(files, worker)
    <3> TAKE r
    <3>1. r \in RowsOf(files', worker') <=> r \in files' \/ \E v \in Worker : r \in worker'[v].rows
      BY InRowsOf
    <3>2. r \in RowsOf(files, worker) <=> r \in files \/ \E v \in Worker : r \in worker[v].rows
      BY InRowsOf
    <3> QED BY <1>1, <1>11, <1>13, <3>1, <3>2
  <2> QED BY <2>1
<1>15. CaseTypes'
  BY <1>1, <1>7, <1>11, <1>12 DEF CaseInv, CaseTypes
<1>16. RunsAreNumbered(started, ledger, files, worker)
         /\ TakesInTurn(worker[w], ledger, RowsOf(files, worker))
  BY DEF CaseInv
<1>17. RunsAreNumbered(started, ledger', files', worker')
  <2>1. \A v \in Worker : worker'[v].pc # "idle" =>
          worker[v].pc # "idle" /\ worker'[v].run = worker[v].run
    BY <1>1, <1>11, <1>13
  <2>2. run <= started
    BY <1>1, <1>2, <1>16 DEF RunsAreNumbered
  <2>3. \A c \in DOMAIN ledger' : ledger'[c].run <= started
    BY <1>4, <1>7, <1>16, <2>2 DEF RunsAreNumbered
  <2> QED BY <1>14, <1>16, <2>1, <2>3 DEF RunsAreNumbered
<1>18. ASSUME NEW v \in Worker
       PROVE  TakesInTurn(worker'[v], ledger', RowsOf(files, worker))
  <2>1. TakesInTurn(worker[v], ledger, RowsOf(files, worker))
    BY DEF CaseInv
  <2>2. CASE v = w
    <3>1. t.own = Spent(ledger', t.item, t.run)
      BY <1>1, <1>2, <1>8, <1>9, <1>11, <1>16 DEF TakesInTurn
    <3>2. t.item \in Item \ Items(t.rows)
      BY <1>1, <1>11, <1>16 DEF TakesInTurn
    <3>3. \A c \in DOMAIN ledger' : ledger'[c].run = t.run =>
            ledger'[c].item \in Items(t.rows) \/ (AtItem(t) /\ ledger'[c].item = t.item)
      BY <1>1, <1>2, <1>4, <1>7, <1>11, <1>16 DEF TakesInTurn
    <3>4. \A r \in RowsOf(files, worker) : r.run = t.run => r.item \in Items(t.rows)
      BY <1>1, <1>11, <1>16 DEF TakesInTurn
    <3> QED BY <1>13, <2>2, <3>1, <3>2, <3>3, <3>4 DEF TakesInTurn
  <2>3. CASE v # w /\ worker[v].pc # "idle"
    <3>1. worker[v].run # run /\ worker'[v] = worker[v]
      BY <1>1, <1>2, <1>13, <1>16, <2>3 DEF RunsAreNumbered
    <3>2. AtItem(worker[v]) => worker[v].own = Spent(ledger', worker[v].item, worker[v].run)
      <4>1. PICK j, m : j = worker[v].item /\ m = worker[v].run
        OBVIOUS
      <4>2. m # run
        BY <3>1, <4>1
      <4>3. Spent(ledger', j, m) = Spent(ledger, j, m) \cup (IF j = i /\ m = run THEN {n} ELSE {})
        BY <1>8
      <4>4. Spent(ledger', j, m) = Spent(ledger, j, m)
        BY <4>2, <4>3
      <4>5. AtItem(worker[v]) => worker[v].own = Spent(ledger, j, m)
        BY <2>1, <2>3, <4>1 DEF TakesInTurn
      <4> QED BY <4>1, <4>4, <4>5
    <3>3. \A c \in DOMAIN ledger' : ledger'[c].run = worker[v].run =>
            ledger'[c].item \in Items(worker[v].rows)
              \/ (AtItem(worker[v]) /\ ledger'[c].item = worker[v].item)
      BY <1>4, <1>7, <2>1, <2>3, <3>1 DEF TakesInTurn
    <3> QED BY <2>1, <2>3, <3>1, <3>2, <3>3 DEF TakesInTurn
  <2>4. CASE v # w /\ worker[v].pc = "idle"
    BY <1>13, <2>4 DEF TakesInTurn
  <2> QED BY <2>2, <2>3, <2>4
<1>19. ASSUME runner = LiveRun PROVE OneLiveRun(claimed, ledger', worker')
  <2>1. OneLiveRun(claimed, ledger, worker) /\ Working(worker[w])
    BY <1>1, <1>19 DEF Working, CaseInv
  <2>2. claimed /\ \A v \in Worker : Working(worker[v]) => v = w
    BY <2>1 DEF OneLiveRun
  <2>3. \A v \in Worker : Working(worker'[v]) => v = w
    BY <1>13, <2>2
  <2>4. \A c \in DOMAIN ledger' : ledger'[c].run = run
    BY <1>2, <1>4, <1>7, <2>1 DEF OneLiveRun
  <2> QED BY <1>2, <1>11, <1>13, <2>1, <2>2, <2>3, <2>4 DEF OneLiveRun
<1>20. ReportsAttempt =>
         \A r \in RowsOf(files, worker) : Reports(r, ledger')
  <2> SUFFICES ASSUME ReportsAttempt, NEW r \in RowsOf(files, worker)
               PROVE  Reports(r, ledger')
    OBVIOUS
  <2>1. Reports(r, ledger)
    BY DEF CaseInv
  <2>2. ~(r.item = i /\ r.run = run)
    BY <1>1, <1>2, <1>16 DEF TakesInTurn
  <2>3. PICK j, m : j = r.item /\ m = r.run
    OBVIOUS
  <2>4. Spent(ledger', j, m) = Spent(ledger, j, m) \cup (IF j = i /\ m = run THEN {n} ELSE {})
    BY <1>8
  <2>5. Spent(ledger', j, m) = Spent(ledger, j, m)
    BY <2>2, <2>3, <2>4
  <2> QED BY <2>1, <2>3, <2>5 DEF Reports
<1> QED BY <1>1, <1>14, <1>15, <1>17, <1>18, <1>19, <1>20 DEF CaseInv, ReportsAttempt, Reports

\* What a row is charged with.
LEMMA ChargedIsSpent ==
  ASSUME CaseInv, NEW w \in Worker, AtItem(worker[w])
  PROVE  /\ Charged(w) \in SUBSET Nat
         /\ ReportsAttempt => Charged(w) = Spent(ledger, worker[w].item, worker[w].run)
<1>1. /\ runner.charges \in {"own", "run", "case"} /\ DOMAIN ledger \subseteq Nat
      /\ worker[w].own \in SUBSET Nat /\ worker[w].pc # "idle"
  BY RunnerFacts, StateFacts, LenProperties DEF CaseInv, CaseTypes, WorkerState, AtItem
<1>2. worker[w].own = Spent(ledger, worker[w].item, worker[w].run)
  BY <1>1, StateFacts DEF TakesInTurn
<1>3. CASE runner.charges = "own"
  <2>1. Charged(w) = worker[w].own
    BY <1>3 DEF Charged
  <2> QED BY <1>1, <1>2, <2>1
<1>4. CASE runner.charges = "run"
  <2>1. Charged(w) = OfRun(CallsOf(worker[w].item), worker[w].run)
    BY <1>4 DEF Charged
  <2> QED BY <1>1, <2>1 DEF OfRun, CallsOf, Spent
<1>5. CASE runner.charges = "case"
  <2>1. Charged(w) = CallsOf(worker[w].item)
    BY <1>5 DEF Charged
  <2>2. ReportsAttempt => \A c \in DOMAIN ledger : ledger[c].run = worker[w].run
    BY <1>5 DEF ReportsAttempt, CaseInv, OneLiveRun, Working, AtItem
  <2> QED BY <1>1, <2>1, <2>2 DEF CallsOf, Spent
<1> QED BY <1>1, <1>3, <1>4, <1>5

LEMMA FinishKeeps ==
  ASSUME CaseInv, NEW w \in Worker, Finish(w) PROVE CaseInv'
<1>1. /\ runner' = runner /\ started' = started /\ claimed' = claimed /\ ledger' = ledger
      /\ worker[w].pc = "item" /\ AtItem(worker[w]) /\ started \in Nat
  BY DEF Finish, Is, AtItem, CaseInv, CaseTypes
<1>2. PICK i \in Item, run \in Nat : i = worker[w].item /\ run = worker[w].run
  BY <1>1, StateFacts DEF TakesInTurn, WorkerState
<1>3. PICK by \in Makers :
        LET row == [item |-> worker[w].item, run |-> worker[w].run, by |-> by,
                    calls |-> IF by = "main" THEN {} ELSE Charged(w)]
            rows == worker[w].rows \cup {row}
        IN  /\ files' = CASE runner.writes = "row" -> files \cup {row}
                          [] runner.writes = "rows" -> rows
                          [] runner.writes = "end" -> files
            /\ Moves(w, IF runner.keeps = "rows" /\ halted THEN Resting
                        ELSE [worker[w] EXCEPT !.pc = "next", !.item = NoItem, !.own = {},
                                               !.rows = rows])
  BY DEF Finish
<1>4. PICK row : row = [item |-> i, run |-> run, by |-> by,
                        calls |-> IF by = "main" THEN {} ELSE Charged(w)]
  OBVIOUS
<1>5. /\ row \in CaseRow /\ row.item = i /\ row.run = run
      /\ ReportsAttempt => Reports(row, ledger)
  <2>1. row.item = i /\ row.run = run /\ row.by = by
          /\ row.calls = IF by = "main" THEN {} ELSE Charged(w)
    BY <1>4
  <2>2. by \in {"case", "main"} /\ (by = "main" => runner = AdaptiveRun)
    BY DEF Makers
  <2>3. row.calls \in SUBSET Nat
    BY <1>1, <2>1, ChargedIsSpent
  <2>4. row = [item |-> i, run |-> run, by |-> by, calls |-> row.calls]
    BY <1>4
  <2>5. row \in CaseRow
    BY <2>2, <2>3, <2>4 DEF CaseRow
  <2>6. ReportsAttempt => Reports(row, ledger)
    BY <1>1, <1>2, <2>1, <2>2, ChargedIsSpent DEF Reports
  <2> QED BY <2>1, <2>5, <2>6
<1>6. PICK rows : rows = worker[w].rows \cup {row}
  OBVIOUS
<1>7. /\ files' = CASE runner.writes = "row" -> files \cup {row}
                    [] runner.writes = "rows" -> rows
                    [] runner.writes = "end" -> files
      /\ Moves(w, IF runner.keeps = "rows" /\ halted THEN Resting
                  ELSE [worker[w] EXCEPT !.pc = "next", !.item = NoItem, !.own = {}, !.rows = rows])
  BY <1>2, <1>3, <1>4, <1>6
<1>8. files' \in {files, files \cup {row}, rows}
  BY <1>7, RunnerFacts DEF CaseInv, CaseTypes
<1>9. rows \in SUBSET CaseRow /\ files' \in SUBSET CaseRow
  BY <1>5, <1>6, <1>8, StateFacts
<1>10. PICK t \in WorkerState :
         /\ worker' = [worker EXCEPT ![w] = t] /\ ~AtItem(t)
         /\ \/ t.pc = "idle" /\ t.rows = {}
            \/ t.pc = "next" /\ t.run = run /\ t.rows = rows
  <2>1. CASE runner.keeps = "rows" /\ halted
    BY <1>7, <2>1, RestingFacts DEF Moves
  <2>2. CASE ~(runner.keeps = "rows" /\ halted)
    <3>1. PICK t : t = [worker[w] EXCEPT !.pc = "next", !.item = NoItem, !.own = {}, !.rows = rows]
      OBVIOUS
    <3>2. t \in WorkerState
      BY <1>9, <3>1, StateFacts DEF WorkerState, CasePc
    <3>3. t.pc = "next" /\ t.run = run /\ t.rows = rows /\ ~AtItem(t)
      BY <1>2, <3>1, StateFacts DEF WorkerState, AtItem
    <3>4. worker' = [worker EXCEPT ![w] = t]
      BY <1>7, <2>2, <3>1 DEF Moves
    <3> QED BY <3>2, <3>3, <3>4
  <2> QED BY <2>1, <2>2
<1>11. \A v \in Worker : worker'[v] = IF v = w THEN t ELSE worker[v]
  BY <1>10 DEF CaseInv, CaseTypes
<1>12. RowsOf(files', worker') \subseteq RowsOf(files, worker) \cup {row}
  <2> SUFFICES ASSUME NEW r \in RowsOf(files', worker'), r # row
               PROVE  r \in RowsOf(files, worker)
    OBVIOUS
  <2>1. r \in files' \/ \E v \in Worker : r \in worker'[v].rows
    BY InRowsOf
  <2>2. r \in files \/ \E v \in Worker : r \in worker[v].rows
    BY <1>6, <1>8, <1>10, <1>11, <2>1
  <2> QED BY <2>2, InRowsOf
<1>13. CaseTypes'
  BY <1>1, <1>9, <1>10 DEF CaseInv, CaseTypes
<1>14. RunsAreNumbered(started, ledger, files, worker)
         /\ TakesInTurn(worker[w], ledger, RowsOf(files, worker))
  BY DEF CaseInv
<1>15. RunsAreNumbered(started, ledger, files', worker')
  <2>1. \A v \in Worker : worker'[v].pc # "idle" =>
          worker[v].pc # "idle" /\ worker'[v].run = worker[v].run
    BY <1>1, <1>2, <1>10, <1>11
  <2>2. run <= started
    BY <1>1, <1>2, <1>14 DEF RunsAreNumbered
  <2>3. \A r \in RowsOf(files', worker') : r.run <= started
    BY <1>5, <1>12, <1>14, <2>2 DEF RunsAreNumbered
  <2> QED BY <1>14, <2>1, <2>3 DEF RunsAreNumbered
<1>16. ASSUME NEW v \in Worker
       PROVE  TakesInTurn(worker'[v], ledger, RowsOf(files', worker'))
  <2>1. TakesInTurn(worker[v], ledger, RowsOf(files, worker))
    BY DEF CaseInv
  <2>2. CASE v = w /\ t.pc = "next" /\ t.run = run /\ t.rows = rows
    <3>1. Items(t.rows) = Items(worker[w].rows) \cup {i}
      BY <1>5, <1>6, <2>2 DEF Items
    <3>2. \A c \in DOMAIN ledger : ledger[c].run = run => ledger[c].item \in Items(t.rows)
      BY <1>1, <1>2, <1>14, <3>1 DEF TakesInTurn
    <3>3. \A r \in RowsOf(files', worker') : r.run = run => r.item \in Items(t.rows)
      BY <1>1, <1>2, <1>5, <1>12, <1>14, <3>1 DEF TakesInTurn
    <3> QED BY <1>10, <1>11, <2>2, <3>2, <3>3 DEF TakesInTurn
  <2>3. CASE v = w /\ t.pc = "idle"
    BY <1>11, <2>3 DEF TakesInTurn
  <2>4. CASE v # w /\ worker[v].pc # "idle"
    <3>1. worker[v].run # run /\ worker'[v] = worker[v]
      BY <1>1, <1>2, <1>11, <1>14, <2>4 DEF RunsAreNumbered
    <3>2. \A r \in RowsOf(files', worker') : r.run = worker[v].run => r \in RowsOf(files, worker)
      BY <1>5, <1>12, <3>1
    <3> QED BY <2>1, <3>1, <3>2 DEF TakesInTurn
  <2>5. CASE v # w /\ worker[v].pc = "idle"
    BY <1>11, <2>5 DEF TakesInTurn
  <2> QED BY <1>10, <2>2, <2>3, <2>4, <2>5
<1>17. ASSUME runner = LiveRun PROVE OneLiveRun(claimed, ledger, worker')
  <2>1. OneLiveRun(claimed, ledger, worker) /\ Working(worker[w]) /\ t.pc # "check"
    BY <1>1, <1>10, <1>17 DEF Working, CaseInv
  <2>2. Working(t) => t.run = worker[w].run
    BY <1>2, <1>10 DEF Working
  <2> QED BY <1>11, <2>1, <2>2 DEF OneLiveRun
<1>18. ReportsAttempt =>
         \A r \in RowsOf(files', worker') : Reports(r, ledger)
  BY <1>5, <1>12 DEF CaseInv
<1> QED BY <1>1, <1>13, <1>15, <1>16, <1>17, <1>18 DEF CaseInv, ReportsAttempt, Reports

LEMMA CaseInvInit == CaseInit => CaseInv
<1> SUFFICES ASSUME CaseInit PROVE CaseInv
  OBVIOUS
<1>1. \A w \in Worker : worker[w] = Resting
  BY DEF CaseInit
<1>2. RowsOf(files, worker) = {}
  <2>1. \A r : r \notin RowsOf(files, worker)
    BY <1>1, InRowsOf, RestingFacts DEF CaseInit
  <2> QED BY <2>1
<1>3. CaseTypes
  BY RestingFacts DEF CaseInit, CaseTypes
<1>4. DOMAIN ledger = {}
  BY DEF CaseInit
<1> QED BY <1>1, <1>2, <1>3, <1>4, RestingFacts
        DEF CaseInit, CaseInv, RunsAreNumbered, TakesInTurn, OneLiveRun

LEMMA CaseInvNext == CaseInv /\ [CaseNext]_caseVars => CaseInv'
<1>1. ASSUME CaseInv, UNCHANGED caseVars PROVE CaseInv'
  BY <1>1 DEF caseVars, CaseInv, CaseTypes, ReportsAttempt, Reports
<1> QED BY <1>1, StartKeeps, ClaimKeeps, CheckKeeps, BeginItemKeeps, AskKeeps, ReturnKeeps,
           FinishKeeps, CompleteRunKeeps, WriteRowsKeeps, EndsKeeps DEF CaseNext

\* The inductive invariant of the case runners.
THEOREM CaseInvariant == CaseSpec => []CaseInv
BY CaseInvInit, CaseInvNext, PTL DEF CaseSpec

\* For any items, processes and bounds: a row of the runners that report one
\* attempt is charged with its own run's calls for its case and with no others; the
\* adaptive runner's row for a scenario that raised is charged with none.
THEOREM RowsCostTheirCalls == CaseSpec => []RowCostsItsCalls
<1>1. CaseInv => RowCostsItsCalls
  BY DEF CaseInv, ReportsAttempt, Reports, RowsOf, RowCostsItsCalls, Accounted, Spent, OfRun, CallsOf
<1> QED BY <1>1, CaseInvariant, PTL

=============================================================================
