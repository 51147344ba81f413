----------------------------- MODULE StateStore -----------------------------
(***************************************************************************)
(* The state store (src/src/state.py): every task records its fills,       *)
(* orders and events through a bounded asyncio.Queue, one writer task puts *)
(* them into the database, and close stops the writer once the queue is    *)
(* drained.                                                                *)
(*                                                                         *)
(* A record is one call of record_fill, record_order, record_pnl_snapshot  *)
(* or record_event.  A call that finds the queue full is suspended in put; *)
(* each get wakes one of those calls, which looks at the queue again when  *)
(* it runs: a new call may have taken the place.  asyncio wakes the oldest *)
(* call; here it is any.                                                   *)
(***************************************************************************)
EXTENDS Naturals, Sequences

CONSTANTS
    Records,   \* the records the tasks of the bot make
    Cap,       \* queue_maxsize
    Stop       \* the None that ends the writer

ASSUME StateStoreAssumption == Cap \in Nat \ {0} /\ Stop \notin Records

VARIABLES
    queue,     \* _queue, oldest first
    state,     \* where each record is
    writer,    \* is _writer_task running?
    phase      \* where close is

vars == <<queue, state, writer, phase>>

TypeOK ==
    /\ queue \in Seq(Records \cup {Stop}) /\ Len(queue) <= Cap
    /\ state \in [Records -> {"new", "refused", "waiting", "woken", "cancelled",
                              "queued", "writing", "written", "failed"}]
    /\ writer \in {"running", "ended"}
    /\ phase \in {"open", "flush", "flushed", "stopping", "closed"}

In(s) == {r \in Records : state[r] = s}

Init ==
    /\ queue = <<>>
    /\ state = [r \in Records |-> "new"]
    /\ writer = "running"
    /\ phase = "open"

Full == Len(queue) >= Cap

(* The unfinished tasks of the queue: task_done is called whatever became   *)
(* of the write.                                                            *)
CountsFailures == In("queued") \cup In("writing") \cup In("failed")
Unfinished == In("queued") \cup In("writing")

(* One of the calls suspended in put goes on.                               *)
OneWoken(st) ==
    \/ In("waiting") = {} /\ state' = st
    \/ \E r \in In("waiting") : state' = [st EXCEPT ![r] = "woken"]

----------------------------------------------------------------------------
(* put: the record is queued, or its call waits.                            *)
PutOrWait(r) ==
    IF Full THEN /\ state' = [state EXCEPT ![r] = "waiting"]
                 /\ UNCHANGED queue
            ELSE /\ state' = [state EXCEPT ![r] = "queued"]
                 /\ queue' = Append(queue, r)

NeverRefused == TRUE
Accepts == phase = "open"

Record(r) ==
    /\ state[r] = "new"
    /\ \/ Accepts /\ PutOrWait(r)
       \/ /\ ~Accepts
          /\ state' = [state EXCEPT ![r] = "refused"]
          /\ UNCHANGED queue
    /\ UNCHANGED <<writer, phase>>

PutAgain(r) ==
    /\ state[r] = "woken"
    /\ PutOrWait(r)
    /\ UNCHANGED <<writer, phase>>

(* The shutdown cancels the tasks, those suspended in put among them, and   *)
(* waits for them before it closes the store.  A call cancelled after it    *)
(* was woken passes its place on.                                           *)
CancelPut(r) ==
    /\ phase = "open"
    /\ \/ /\ state[r] = "waiting"
          /\ state' = [state EXCEPT ![r] = "cancelled"]
       \/ /\ state[r] = "woken"
          /\ LET st == [state EXCEPT ![r] = "cancelled"] IN
             IF Full THEN state' = st ELSE OneWoken(st)
    /\ UNCHANGED <<queue, writer, phase>>

----------------------------------------------------------------------------
(* _writer_loop                                                             *)

Get ==
    /\ writer = "running"
    /\ In("writing") = {}
    /\ queue # <<>> /\ Head(queue) # Stop
    /\ queue' = Tail(queue)
    /\ OneWoken([state EXCEPT ![Head(queue)] = "writing"])
    /\ UNCHANGED <<writer, phase>>

(* The writer logs a write that failed and goes on with the next record.    *)
DiesOnError(s) == IF s = "failed" THEN "ended" ELSE writer
AfterWrite(s) == writer

(* execute and commit, in aiosqlite's thread: their answer comes after what *)
(* the get before it woke.  The last task_done wakes a flush.               *)
Write(r) ==
    /\ state[r] = "writing"
    /\ In("woken") = {}
    /\ \E s \in {"written", "failed"} :
           state' = [state EXCEPT ![r] = s] /\ writer' = AfterWrite(s)
    /\ phase' = IF phase = "flush" /\ Unfinished' = {} THEN "flushed" ELSE phase
    /\ UNCHANGED queue

GetStop ==
    /\ writer = "running"
    /\ In("writing") = {}
    /\ queue # <<>> /\ Head(queue) = Stop
    /\ queue' = Tail(queue)
    /\ OneWoken(state)
    /\ writer' = "ended"
    /\ UNCHANGED phase

----------------------------------------------------------------------------
(* close: no new records, flush, put the None, wait for the writer, close   *)
(* the connection.                                                          *)

(* A call woken before this step has run already, unless the writer is in   *)
(* the middle of a record.                                                  *)
Close ==
    /\ phase = "open"
    /\ Unfinished = {} => In("woken") = {}
    /\ phase' = IF Unfinished = {} THEN "flushed" ELSE "flush"
    /\ UNCHANGED <<queue, state, writer>>

PutStop ==
    /\ phase = "flushed"
    /\ ~Full
    /\ queue' = Append(queue, Stop)
    /\ phase' = "stopping"
    /\ UNCHANGED <<state, writer>>

CloseConnection ==
    /\ phase = "stopping"
    /\ writer = "ended"
    /\ phase' = "closed"
    /\ UNCHANGED <<queue, state, writer>>

----------------------------------------------------------------------------

Writer == Get \/ GetStop \/ \E r \in Records : Write(r)
Closer == PutStop \/ CloseConnection

(* The store has come to its end.                                           *)
Ended == phase = "closed" /\ UNCHANGED vars

Next == \/ \E r \in Records : Record(r) \/ PutAgain(r) \/ CancelPut(r)
        \/ Writer \/ Close \/ Closer \/ Ended

Spec == Init /\ [][Next]_vars

(* The writer's and the closer's turns come, and those of the calls that    *)
(* were woken.  Nobody has to record, to cancel or to close.                *)
FairSpec ==
    /\ Spec
    /\ WF_vars(Writer) /\ WF_vars(Closer)
    /\ \A r \in Records : WF_vars(PutAgain(r))

----------------------------------------------------------------------------
(* Properties.                                                              *)

(* close "flushes the queue": when the connection is closed, every record   *)
(* the store took has been given to the database, the calls that were       *)
(* waiting for a place when close began included.                           *)
NothingLost ==
    phase = "closed" => \A r \in Records :
        state[r] \in {"new", "refused", "cancelled", "written", "failed"}

(* A call that waits for a place in the queue is not forgotten: its record  *)
(* reaches the database, unless its task is cancelled.                      *)
WaitingServed ==
    \A r \in Records :
        state[r] = "waiting" ~> state[r] \in {"written", "failed", "cancelled"}

(* A close that began comes to its end.                                     *)
CloseEnds == phase = "flush" ~> phase = "closed"
=============================================================================
