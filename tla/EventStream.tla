---------------------------- MODULE EventStream -----------------------------
(***************************************************************************)
(* The SSE streams of persisted events (_persisted_event_stream in         *)
(* app/routers/chat.py), any number of them on one store whose other       *)
(* callers do whatever ExecutionStore allows.  A stream reads the events   *)
(* after its cursor, then the status in a transaction of its own, and      *)
(* reads once more when the status is a terminal one.                      *)
(*                                                                         *)
(* Ids increase with the position of an event in its run, so a cursor is a *)
(* position; a client reopens a stream at a cursor it was given            *)
(* (Last-Event-ID) or at 0.                                                *)
(***************************************************************************)
EXTENDS ExecutionStore

CONSTANT Stream   \* streams, one per connection

VARIABLE stream

streamVars == <<storeVars, stream>>

StreamRow == [run: Run \cup {None}, cursor: Nat,
              saw: Active \cup Ended \cup {"absent"},   \* the status last read
              pc: {"closed", "read", "status", "recover", "final", "returned"}]

NoStream == [run |-> None, cursor |-> 0, saw |-> "absent", pc |-> "closed"]

StreamTypeOK == TypeOK /\ stream \in [Stream -> StreamRow]

Set(s, row) == stream' = [stream EXCEPT ![s] = row]

\* A client opens a stream on a run, and opens it again after a disconnect or
\* after its end, at any cursor it was given.
Connect(s, r) ==
  /\ stream[s].pc = "closed" /\ run[r].status # "absent"
  /\ Set(s, [run |-> r, cursor |-> 0, saw |-> "absent", pc |-> "read"])
  /\ UNCHANGED storeVars

Reconnect(s) ==
  /\ stream[s].pc # "closed"
  /\ \E cursor \in 0 .. stream[s].cursor :
       Set(s, [stream[s] EXCEPT !.pc = "read", !.saw = "absent",
                               !.cursor = cursor])
  /\ UNCHANGED storeVars

\* events_after: everything stored after the cursor is sent.
ReadEvents(s) ==
  /\ stream[s].pc = "read"
  /\ Set(s, [stream[s] EXCEPT !.cursor = Len(events[stream[s].run]), !.pc = "status"])
  /\ UNCHANGED storeVars

\* MUTATED: the stream returns on a terminal status without the last read.
ReadStatusReturns(s) ==
  /\ stream[s].pc = "status"
  /\ LET status == run[stream[s].run].status IN
       Set(s, [stream[s] EXCEPT !.saw = status,
                 !.pc = IF status \in Ended THEN "returned" ELSE "recover"])
  /\ UNCHANGED storeVars

\* MUTATED: "interrupted" is not in _TERMINAL_STATUSES.
ReadStatusWaits(s) ==
  /\ stream[s].pc = "status"
  /\ LET status == run[stream[s].run].status IN
       Set(s, [stream[s] EXCEPT !.saw = status,
                 !.pc = IF status \in Ended \ {"interrupted"} THEN "final" ELSE "recover"])
  /\ UNCHANGED storeVars

\* status: a terminal one leads to one more read, any other to a recovery.
ReadStatus(s) ==
  /\ stream[s].pc = "status"
  /\ LET status == run[stream[s].run].status IN
       Set(s, [stream[s] EXCEPT !.saw = status,
                 !.pc = IF status \in Ended THEN "final" ELSE "recover"])
  /\ UNCHANGED storeVars

\* recover_expired_lease, then the next round of the loop.
Recover(s, o) ==
  /\ stream[s].pc = "recover" /\ Unlocked(o)
  /\ LET c == run[stream[s].run].conv IN
       IF lease[c].run # None /\ ~lease[c].live
       THEN RecoverExpired(o, c) ELSE UNCHANGED storeVars
  /\ Set(s, [stream[s] EXCEPT !.pc = "read"])

\* The read after a terminal status; the generator returns.
ReadFinal(s) ==
  /\ stream[s].pc = "final"
  /\ Set(s, [stream[s] EXCEPT !.cursor = Len(events[stream[s].run]), !.pc = "returned"])
  /\ UNCHANGED storeVars

StreamInit == StoreInit /\ stream = [s \in Stream |-> NoStream]

StreamStep(s) ==
  ReadEvents(s) \/ ReadStatus(s) \/ ReadFinal(s) \/ \E o \in Owner : Recover(s, o)

StreamNext ==
  \/ StoreNext /\ UNCHANGED stream
  \/ \E s \in Stream : StreamStep(s) \/ Reconnect(s) \/ \E r \in Run : Connect(s, r)

StreamSpec == StreamInit /\ [][StreamNext]_streamVars

-----------------------------------------------------------------------------
(* Properties.                                                             *)

\* A stream that returned on a finished run has delivered the whole log: an
\* event persisted between its read of the events and its read of the status is
\* not lost, and nothing is added after it returned.
ReturnedStreamIsComplete ==
  \A s \in Stream :
    stream[s].pc = "returned" /\ stream[s].saw \in {"completed", "failed", "cancelled"}
      => stream[s].cursor = Len(events[stream[s].run])

-----------------------------------------------------------------------------
(* The server runs a stream until it returns; its recovery waits for the   *)
(* write lock, which every transaction releases, and gets it in the end,   *)
(* hence the strong fairness.  A client stays connected in the end.        *)

FairStreamSpec ==
  /\ StreamSpec
  /\ \A o \in Owner : WF_streamVars(/\ ResumeCommit(o) \/ ResumeRollback(o)
                                   /\ UNCHANGED stream)
  /\ \A s \in Stream : SF_streamVars(StreamStep(s))
  /\ \A s \in Stream : <>[][~Reconnect(s)]_streamVars

\* A stream open on a run that has ended returns, unless the run is resumed.
StreamEnds ==
  \A s \in Stream, r \in Run :
    stream[s].run = r /\ run[r].status \in Ended
      ~> stream[s].pc = "returned" \/ run[r].status \in Active

=============================================================================
