---------------------------- MODULE RunLifecycle ----------------------------
(***************************************************************************)
(* What the run tables promise to a client of one run and one session      *)
(* (docs/superpowers/specs/2026-10-27-interview-reliability-design.md).    *)
(* A run is active, over for good, or interrupted; an interrupted run can  *)
(* be started again only while no write of it has begun.  A session has at *)
(* most one holder, a run becomes active only by becoming the holder of    *)
(* its session, and it ends only as the holder.  ExecutionStore implements *)
(* this module.                                                            *)
(***************************************************************************)
CONSTANTS Run, Conv, None

VARIABLES
  phase,   \* where each run stands
  holder   \* the run that holds each session, or None

vars == <<phase, holder>>

Over == {"final", "restartable", "unsafe"}

Init ==
  /\ phase = [r \in Run |-> "absent"]
  /\ holder = [c \in Conv |-> None]

\* A new run takes a free session.
Start(r, c) ==
  /\ phase[r] = "absent" /\ holder[c] = None
  /\ phase' = [phase EXCEPT ![r] = "active"]
  /\ holder' = [holder EXCEPT ![c] = r]

\* A new run takes over a session; the old holder is interrupted in the same step.
TakeOver(r, c) ==
  /\ phase[r] = "absent"
  /\ holder[c] \in Run /\ phase[holder[c]] = "active"
  /\ \E p \in {"restartable", "unsafe"} :
       phase' = [phase EXCEPT ![holder[c]] = p, ![r] = "active"]
  /\ holder' = [holder EXCEPT ![c] = r]

\* The holder ends, or is found dead, and leaves the session free.
End(c) ==
  /\ holder[c] \in Run /\ phase[holder[c]] = "active"
  /\ \E p \in Over : phase' = [phase EXCEPT ![holder[c]] = p]
  /\ holder' = [holder EXCEPT ![c] = None]

\* A restartable run becomes the holder again.
Restart(r, c) ==
  /\ phase[r] = "restartable"
  /\ phase' = [phase EXCEPT ![r] = "active"]
  /\ holder' = [holder EXCEPT ![c] = r]

\* A write of an interrupted run is recorded late.
Taint(r) ==
  /\ phase[r] = "restartable"
  /\ phase' = [phase EXCEPT ![r] = "unsafe"]
  /\ UNCHANGED holder

Next ==
  \/ \E c \in Conv : End(c)
  \/ \E r \in Run, c \in Conv : Start(r, c) \/ TakeOver(r, c) \/ Restart(r, c)
  \/ \E r \in Run : Taint(r)

Spec == Init /\ [][Next]_vars

=============================================================================
