------------------------------- MODULE MCWaiting --------------------------------
(***************************************************************************)
(* Two who wait for an end, side by side: the client of an event stream,    *)
(* for that of a run that workers take from each other; and the client of   *)
(* a run of the agents, for its answer.  A behaviour is one of one part,     *)
(* and the variables of the other rest.                                     *)
(***************************************************************************)
EXTENDS EventStream, MultiAgentRun

VARIABLE part

waitingVars == <<part, streamVars, runVars>>

\* A run of the agents whose planner failed, and which has said so.
Refused ==
  /\ node = "ended" /\ plan = Refusal /\ errors = {"planner"} /\ intent = "none"
  /\ facts = [i \in Id |-> "none"] /\ replans = 0 /\ pending = {}
  /\ task = [i \in Id |-> NoTask] /\ cache = [k \in ReadKey |-> NoEntry]
  /\ budget = [steps |-> 1, over |-> FALSE, late |-> FALSE]

\* The streams are read beside a run of the agents that is over.
Init ==
  /\ StreamInit
  /\ \/ part = "stream" /\ Refused
     \/ part = "agents" /\ RunInit

Streams(A) == part = "stream" /\ A /\ UNCHANGED <<part, runVars>>
Agents(A) == part = "agents" /\ A /\ UNCHANGED <<part, streamVars>>

Next == Streams(StreamNext) \/ Agents(RunNext)

\* What FairStreamSpec and FairRunSpec assume, each of its part.
Fairness ==
  /\ \A o \in Owner :
       WF_waitingVars(Streams((ResumeCommit(o) \/ ResumeRollback(o)) /\ UNCHANGED stream))
  /\ \A s \in Stream :
       SF_waitingVars(Streams(StreamStep(s))) /\ <>[][~Streams(Reconnect(s))]_waitingVars
  /\ WF_waitingVars(Agents(Supervise)) /\ WF_waitingVars(Agents(Execute))
  /\ \A i \in Id :
       WF_waitingVars(Agents(RunTask(i))) /\ SF_waitingVars(Agents(NextIteration(i)))

Spec == Init /\ [][Next]_waitingVars /\ Fairness

=============================================================================
