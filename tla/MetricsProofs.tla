---------------------------- MODULE MetricsProofs ----------------------------
(***************************************************************************)
(* Proofs about the state store and about the metrics task that writes to  *)
(* it, for any records, any fills and any capacity of the queue.  The      *)
(* store's invariant is inductive for the store alone (Spec), and for the  *)
(* store with its metrics task (MetricsSpec), whose reports come back day  *)
(* after day.                                                              *)
(***************************************************************************)
EXTENDS Metrics, TLAPS

(* The queue holds records that are queued, each once, and the None that    *)
(* ends the writer only when close has put it there.                        *)
QueueInv ==
    /\ \A i \in 1 .. Len(queue) :
          \/ queue[i] = Stop /\ phase \in {"stopping", "closed"}
          \/ queue[i] \in Records /\ state[queue[i]] = "queued"
    /\ \A i, j \in 1 .. Len(queue) : queue[i] = queue[j] => i = j

(* A call that waits has something ahead of it that will wake it.           *)
WakeInv == In("waiting") # {} => queue # <<>> \/ In("woken") # {}

(* After the flush nothing is under way.                                    *)
FlushInv ==
    phase \in {"flushed", "stopping", "closed"} =>
        Unfinished = {} /\ In("waiting") = {} /\ In("woken") = {}

SafetyInv == TypeOK /\ QueueInv /\ WakeInv /\ FlushInv

----------------------------------------------------------------------------
LEMMA InitSafe == Init => SafetyInv
  BY StateStoreAssumption
     DEF Init, SafetyInv, TypeOK, QueueInv, WakeInv, FlushInv, In, Unfinished

(* Appending an element that is not there keeps the elements apart.         *)
LEMMA AppendFacts ==
    ASSUME NEW S, NEW q \in Seq(S), NEW e \in S
    PROVE  /\ Append(q, e) \in Seq(S)
           /\ Len(Append(q, e)) = Len(q) + 1
           /\ \A i \in 1 .. Len(q) : Append(q, e)[i] = q[i]
           /\ Append(q, e)[Len(q) + 1] = e
           /\ Append(q, e) # <<>>
  OBVIOUS

LEMMA TailFacts ==
    ASSUME NEW S, NEW q \in Seq(S), q # <<>>
    PROVE  /\ Tail(q) \in Seq(S)
           /\ Len(Tail(q)) = Len(q) - 1
           /\ Len(q) \in Nat \ {0}
           /\ Head(q) = q[1]
           /\ \A i \in 1 .. Len(q) - 1 : Tail(q)[i] = q[i + 1]
  OBVIOUS

----------------------------------------------------------------------------
(* One lemma per action.                                                    *)

LEMMA PutSafe ==
    ASSUME SafetyInv, NEW r \in Records, state[r] \in {"new", "woken"},
           phase = "open" \/ state[r] = "woken",
           PutOrWait(r), UNCHANGED <<writer, phase>>
    PROVE  SafetyInv'
<1>1. phase \notin {"flushed", "stopping", "closed"}
  BY DEF SafetyInv, FlushInv, In
<1>2. CASE Full
  <2>1. queue' = queue /\ state' = [state EXCEPT ![r] = "waiting"]
    BY <1>2 DEF PutOrWait
  <2>2. TypeOK'
    BY <2>1 DEF SafetyInv, TypeOK
  <2>3. QueueInv'
    BY <2>1 DEF SafetyInv, TypeOK, QueueInv
  <2>4. queue # <<>>
    BY <1>2, StateStoreAssumption DEF Full
  <2>5. QED
    BY <1>1, <2>1, <2>2, <2>3, <2>4 DEF SafetyInv, WakeInv, FlushInv
<1>3. CASE ~Full
  <2>1. queue' = Append(queue, r) /\ state' = [state EXCEPT ![r] = "queued"]
    BY <1>3 DEF PutOrWait
  <2>2. queue \in Seq(Records \cup {Stop}) /\ Len(queue) < Cap /\ Len(queue) \in Nat
    BY <1>3, StateStoreAssumption DEF SafetyInv, TypeOK, Full
  <2>3. /\ queue' \in Seq(Records \cup {Stop})
        /\ Len(queue') = Len(queue) + 1
        /\ \A i \in 1 .. Len(queue) : queue'[i] = queue[i]
        /\ queue'[Len(queue) + 1] = r
        /\ queue' # <<>>
    BY <2>1, <2>2, AppendFacts
  <2>4. TypeOK'
    BY <2>1, <2>2, <2>3, StateStoreAssumption DEF SafetyInv, TypeOK
  <2>5. \A i \in 1 .. Len(queue) : queue[i] # r
    BY StateStoreAssumption DEF SafetyInv, QueueInv
  <2>6. QueueInv'
    BY <2>1, <2>2, <2>3, <2>5 DEF SafetyInv, TypeOK, QueueInv
  <2>7. QED
    BY <1>1, <2>3, <2>4, <2>6 DEF SafetyInv, WakeInv, FlushInv
<1>4. QED
  BY <1>2, <1>3

LEMMA RecordSafe ==
    ASSUME SafetyInv, NEW r \in Records, Record(r)
    PROVE  SafetyInv'
<1>1. CASE Accepts
  BY <1>1, PutSafe DEF Record, Accepts
<1>2. CASE ~Accepts
  <2>1. /\ state' = [state EXCEPT ![r] = "refused"] /\ state[r] = "new"
        /\ UNCHANGED <<queue, writer, phase>>
    BY <1>2 DEF Record
  <2>2. QED
    BY <2>1 DEF SafetyInv, TypeOK, QueueInv, WakeInv, FlushInv, In, Unfinished
<1>3. QED
  BY <1>1, <1>2

LEMMA CancelSafe ==
    ASSUME SafetyInv, NEW r \in Records, CancelPut(r)
    PROVE  SafetyInv'
<1>1. UNCHANGED <<queue, writer, phase>> /\ phase = "open"
  BY DEF CancelPut
<1>2. CASE /\ state[r] \in {"waiting", "woken"}
           /\ state' = [state EXCEPT ![r] = "cancelled"]
           /\ state[r] = "woken" => Full \/ In("waiting") = {}
  <2>1. queue = <<>> => ~Full
    BY StateStoreAssumption DEF Full
  <2>2. QED
    BY <1>1, <1>2, <2>1
       DEF SafetyInv, TypeOK, QueueInv, WakeInv, FlushInv, In, Unfinished
<1>3. ASSUME NEW s \in In("waiting"), state[r] = "woken",
             state' = [[state EXCEPT ![r] = "cancelled"] EXCEPT ![s] = "woken"]
      PROVE  SafetyInv'
  BY <1>1, <1>3
     DEF SafetyInv, TypeOK, QueueInv, WakeInv, FlushInv, In, Unfinished
<1>4. QED
  BY <1>2, <1>3 DEF CancelPut, OneWoken

(* What the writer takes off the queue.                                     *)
LEMMA TakeSafe ==
    ASSUME SafetyInv, queue # <<>>, queue' = Tail(queue), UNCHANGED phase,
           writer' \in {"running", "ended"},
           NEW st,
           \/ Head(queue) = Stop /\ st = state
           \/ Head(queue) # Stop /\ st = [state EXCEPT ![Head(queue)] = "writing"],
           OneWoken(st)
    PROVE  SafetyInv'
<1>1. /\ queue' \in Seq(Records \cup {Stop})
      /\ Len(queue') = Len(queue) - 1
      /\ Len(queue) \in Nat \ {0}
      /\ Head(queue) = queue[1]
      /\ \A i \in 1 .. Len(queue) - 1 : queue'[i] = queue[i + 1]
  BY TailFacts DEF SafetyInv, TypeOK
<1>2. /\ \/ queue[1] = Stop /\ phase \in {"stopping", "closed"}
         \/ queue[1] \in Records /\ state[queue[1]] = "queued"
      /\ \A i \in 1 .. Len(queue) - 1 :
            queue'[i] # Head(queue)
            /\ \/ queue'[i] = Stop /\ phase \in {"stopping", "closed"}
               \/ queue'[i] \in Records /\ state[queue'[i]] = "queued"
      /\ \A i, j \in 1 .. Len(queue) - 1 : queue'[i] = queue'[j] => i = j
  <2>1. \A i \in 1 .. Len(queue) - 1 : i + 1 \in 1 .. Len(queue) /\ i + 1 # 1
    BY <1>1
  <2>2. 1 \in 1 .. Len(queue)
    BY <1>1
  <2>3. QED
    BY <1>1, <2>1, <2>2 DEF SafetyInv, QueueInv
<1>3. \A r \in Records : state[r] # "queued" =>
         st[r] = state[r] /\ \A i \in 1 .. Len(queue) - 1 : queue'[i] # r
  BY <1>1, <1>2, StateStoreAssumption DEF SafetyInv, TypeOK
<1>4. \A i \in 1 .. Len(queue) - 1 : queue'[i] \in Records =>
         st[queue'[i]] = state[queue'[i]]
  BY <1>1, <1>2 DEF SafetyInv, TypeOK
<1>5. st \in [Records -> {"new", "refused", "waiting", "woken", "cancelled",
                          "queued", "writing", "written", "failed"}]
  BY <1>1, <1>2 DEF SafetyInv, TypeOK
<1>6. /\ state' \in [Records -> {"new", "refused", "waiting", "woken",
                                 "cancelled", "queued", "writing", "written",
                                 "failed"}]
      /\ \A r \in Records : state[r] # "waiting" => state'[r] = st[r]
      /\ (\E r \in Records : state[r] = "waiting") =>
            \E r \in Records : state[r] = "waiting" /\ state'[r] = "woken"
      /\ \A r \in Records : state[r] = "waiting" =>
            state'[r] \in {"waiting", "woken"}
  BY <1>3, <1>5 DEF OneWoken, In
<1>7. TypeOK'
  BY <1>1, <1>6, StateStoreAssumption DEF SafetyInv, TypeOK
<1>8. QueueInv'
  BY <1>1, <1>2, <1>4, <1>6 DEF QueueInv
<1>9. WakeInv'
  <2>1. ASSUME NEW r \in Records, state'[r] = "waiting"
        PROVE  \E s \in Records : state'[s] = "woken"
    <3>1. CASE state[r] = "waiting"
      BY <3>1, <1>6
    <3>2. CASE state[r] # "waiting"
      BY <2>1, <3>2, <1>6, <1>3, <1>5 DEF SafetyInv, TypeOK
    <3>3. QED
      BY <3>1, <3>2
  <2>2. QED
    BY <2>1 DEF WakeInv, In
<1>10. FlushInv'
  <2>1. SUFFICES ASSUME phase \in {"flushed", "stopping", "closed"}
                 PROVE  \A r \in Records :
                           state'[r] \notin {"queued", "writing", "waiting", "woken"}
    BY DEF FlushInv, In, Unfinished
  <2>2. \A r \in Records :
           state[r] \notin {"queued", "writing", "waiting", "woken"}
    BY <2>1 DEF SafetyInv, FlushInv, In, Unfinished
  <2>3. QED
    BY <2>2, <1>3, <1>6
<1>11. QED
  BY <1>7, <1>8, <1>9, <1>10 DEF SafetyInv

LEMMA WriteSafe ==
    ASSUME SafetyInv, NEW r \in Records, Write(r)
    PROVE  SafetyInv'
<1>1. PICK s \in {"written", "failed"} : state' = [state EXCEPT ![r] = s]
  BY DEF Write, AfterWrite
<1>2. /\ UNCHANGED <<queue, writer>> /\ state[r] = "writing" /\ In("woken") = {}
      /\ phase' = IF phase = "flush" /\ Unfinished' = {} THEN "flushed" ELSE phase
  BY DEF Write, AfterWrite
<1>3. phase \in {"open", "flush"}
  BY <1>2 DEF SafetyInv, TypeOK, FlushInv, In, Unfinished
<1>4. TypeOK'
  BY <1>1, <1>2 DEF SafetyInv, TypeOK
<1>5. QueueInv'
  BY <1>1, <1>2, <1>3 DEF SafetyInv, TypeOK, QueueInv
<1>6. WakeInv'
  BY <1>1, <1>2 DEF SafetyInv, TypeOK, WakeInv, In
<1>7. FlushInv'
  <2>1. CASE phase = "flush" /\ Unfinished' = {}
    <3>1. queue # <<>> => 1 \in 1 .. Len(queue)
      BY DEF SafetyInv, TypeOK
    <3>2. queue = <<>>
      BY <3>1, <1>1, <1>2, <2>1 DEF SafetyInv, TypeOK, QueueInv, Unfinished, In
    <3>3. In("waiting") = {}
      BY <3>2, <1>2 DEF SafetyInv, WakeInv
    <3>4. QED
      BY <3>3, <1>1, <1>2, <2>1 DEF SafetyInv, TypeOK, FlushInv, In
  <2>2. CASE ~(phase = "flush" /\ Unfinished' = {})
    BY <2>2, <1>2, <1>3 DEF FlushInv
  <2>3. QED
    BY <2>1, <2>2
<1>8. QED
  BY <1>4, <1>5, <1>6, <1>7 DEF SafetyInv

LEMMA CloseSafe ==
    ASSUME SafetyInv, Close
    PROVE  SafetyInv'
<1>1. UNCHANGED <<queue, state, writer>> /\ phase = "open"
  BY DEF Close
<1>2. TypeOK' /\ QueueInv' /\ WakeInv'
  BY <1>1 DEF Close, SafetyInv, TypeOK, QueueInv, WakeInv, In
<1>3. FlushInv'
  <2>1. CASE Unfinished = {}
    <3>1. queue # <<>> => 1 \in 1 .. Len(queue)
      BY DEF SafetyInv, TypeOK
    <3>2. queue = <<>>
      BY <3>1, <1>1, <2>1 DEF SafetyInv, TypeOK, QueueInv, Unfinished, In
    <3>3. QED
      BY <3>2, <1>1, <2>1 DEF Close, SafetyInv, WakeInv, FlushInv, In, Unfinished
  <2>2. CASE Unfinished # {}
    BY <2>2, <1>1 DEF Close, FlushInv
  <2>3. QED
    BY <2>1, <2>2
<1>4. QED
  BY <1>2, <1>3 DEF SafetyInv

LEMMA PutStopSafe ==
    ASSUME SafetyInv, PutStop
    PROVE  SafetyInv'
<1>1. /\ queue' = Append(queue, Stop) /\ phase = "flushed" /\ phase' = "stopping"
      /\ UNCHANGED <<state, writer>> /\ ~Full
  BY DEF PutStop
<1>2. queue = <<>>
  <2>1. queue # <<>> => 1 \in 1 .. Len(queue)
    BY DEF SafetyInv, TypeOK
  <2>2. QED
    BY <2>1, <1>1 DEF SafetyInv, QueueInv, FlushInv, Unfinished, In
<1>3. queue' = <<Stop>>
  BY <1>1, <1>2
<1>4. TypeOK' /\ QueueInv'
  BY <1>1, <1>3, StateStoreAssumption DEF SafetyInv, TypeOK, QueueInv
<1>5. WakeInv' /\ FlushInv'
  BY <1>1, <1>3 DEF SafetyInv, WakeInv, FlushInv, In, Unfinished
<1>6. QED
  BY <1>4, <1>5 DEF SafetyInv

LEMMA StepSafe ==
    ASSUME SafetyInv, [Next]_vars
    PROVE  SafetyInv'
<1>1. ASSUME NEW r \in Records, PutAgain(r)
      PROVE  SafetyInv'
  BY <1>1, PutSafe DEF PutAgain
<1>2. CASE Get
  <2>1. /\ queue # <<>> /\ queue' = Tail(queue) /\ Head(queue) # Stop
        /\ UNCHANGED <<writer, phase>>
        /\ OneWoken([state EXCEPT ![Head(queue)] = "writing"])
    BY <1>2 DEF Get
  <2>2. writer' \in {"running", "ended"} /\ phase' = phase
    BY <2>1 DEF SafetyInv, TypeOK
  <2>3. QED
    BY ONLY SafetyInv, <2>1, <2>2, TakeSafe
<1>3. CASE GetStop
  <2>1. /\ queue # <<>> /\ queue' = Tail(queue) /\ Head(queue) = Stop
        /\ writer' \in {"running", "ended"} /\ phase' = phase
        /\ OneWoken(state)
    BY <1>3 DEF GetStop
  <2>2. QED
    BY ONLY SafetyInv, <2>1, TakeSafe
<1>4. CASE CloseConnection
  <2>1. UNCHANGED <<queue, state, writer>> /\ phase = "stopping" /\ phase' = "closed"
    BY <1>4 DEF CloseConnection
  <2>2. TypeOK' /\ WakeInv' /\ FlushInv'
    BY <2>1 DEF SafetyInv, TypeOK, WakeInv, FlushInv, In, Unfinished
  <2>3. QueueInv'
    BY <2>1 DEF SafetyInv, QueueInv
  <2>4. QED
    BY <2>2, <2>3 DEF SafetyInv
<1>5. CASE UNCHANGED vars
  BY <1>5 DEF vars, SafetyInv, TypeOK, QueueInv, WakeInv, FlushInv, In, Unfinished
<1>6. QED
  BY <1>1, <1>2, <1>3, <1>4, <1>5, RecordSafe, CancelSafe, WriteSafe, CloseSafe,
     PutStopSafe DEF Next, Writer, Closer, Ended

(* The inductive invariant.                                                  *)
LEMMA Safe == Spec => []SafetyInv
<1>1. Init => SafetyInv
  BY InitSafe
<1>2. SafetyInv /\ [Next]_vars => SafetyInv'
  BY StepSafe
<1>3. QED
  BY <1>1, <1>2, PTL DEF Spec

----------------------------------------------------------------------------
(* The queue never holds more than its bound, whatever calls put, wait, are *)
(* woken and are cancelled around it.                                       *)
THEOREM TypeCorrect == Spec => []TypeOK
<1>1. SafetyInv => TypeOK
  BY DEF SafetyInv
<1>2. QED
  BY <1>1, Safe, PTL

(* close loses no record: when the connection is closed, whatever the store *)
(* took has been given to the database, the records of the calls that were  *)
(* still waiting for a place when close began included.                     *)
THEOREM CloseLosesNothing == Spec => []NothingLost
<1>1. SafetyInv => NothingLost
  BY DEF SafetyInv, TypeOK, FlushInv, NothingLost, Unfinished, In
<1>2. QED
  BY <1>1, Safe, PTL

----------------------------------------------------------------------------
(* The numbers of the day.                                                  *)

(* What the counters, the summaries recorded and the summary under way have *)
(* of the fills.  A fill comes once, so what was booked cannot be counted   *)
(* again; while a summary waits, the counters hold it and the late fills.   *)
IInv ==
    /\ counted \cup booked \cup summary \subseteq seen
    /\ pc = "rollover" => /\ summary \subseteq counted
                          /\ counted \subseteq summary \cup late
    /\ CountedOnce

LEMMA InitIInv == MetricsInit => IInv
  BY DEF MetricsInit, IInv, CountedOnce

(* A summary taken from the counters, or from them but for the late fills.  *)
LEMMA ReportedStep ==
    ASSUME IInv, NEW fills, fills \subseteq counted,
           counted \subseteq fills \cup late,
           Reported(fills), UNCHANGED <<seen, late>>
    PROVE  IInv'
<1>1. /\ booked' = booked \cup fills /\ summary' = {} /\ counted' = {}
      /\ pc' = "snapshot"
  BY DEF Reported, Reset
<1> QED
  BY <1>1 DEF IInv, CountedOnce

LEMMA Untouched ==
    ASSUME IInv, UNCHANGED <<counted, summary, history>>,
           pc' = "rollover" => pc = "rollover"
    PROVE  IInv'
  BY DEF IInv, CountedOnce, history

LEMMA StepIInv == IInv /\ [MetricsNext]_all => IInv'
<1> SUFFICES ASSUME IInv, [MetricsNext]_all
             PROVE  IInv'
  OBVIOUS
<1>1. CASE StoreSteps
  BY <1>1, Untouched DEF StoreSteps, metrics
<1>2. ASSUME NEW f \in Fills, OnFill(f)
      PROVE  IInv'
  <2>1. /\ f \notin seen /\ seen' = seen \cup {f} /\ counted' = counted \cup {f}
        /\ late' = IF pc = "rollover" THEN late \cup {f} ELSE late
        /\ UNCHANGED <<pc, summary, booked>>
    BY <1>2 DEF OnFill
  <2> QED
    BY <2>1 DEF IInv, CountedOnce
<1>3. CASE Ages
  BY <1>3, Untouched DEF Ages
<1>4. CASE Midnight
  BY <1>4, Untouched DEF Midnight
<1>5. ASSUME NEW r \in {Summary, Snapshot}, Forget(r)
      PROVE  IInv'
  BY <1>5, Untouched DEF Forget, metrics
<1>6. CASE Rollover
  <2>1. UNCHANGED <<seen, late>>
    BY <1>6 DEF Rollover
  <2>2. CASE summary' = counted /\ pc' = "rollover" /\ UNCHANGED <<counted, booked>>
    BY <2>1, <2>2 DEF IInv, CountedOnce
  <2>3. CASE Reported(counted)
    BY <2>1, <2>3, ReportedStep
  <2> QED
    BY <1>6, <2>2, <2>3 DEF Rollover
<1>7. CASE RolloverGoesOn
  <2>1. pc = "rollover" /\ UNCHANGED <<seen, late>>
    BY <1>7 DEF RolloverGoesOn
  <2>2. CASE UNCHANGED <<counted, pc, summary, booked>>
    BY <2>1, <2>2, Untouched DEF history
  <2>3. CASE Reported(summary)
    BY <2>1, <2>3, ReportedStep DEF IInv
  <2> QED
    BY <1>7, <2>2, <2>3 DEF RolloverGoesOn
<1>8. CASE SnapshotNow
  BY <1>8, Untouched DEF SnapshotNow
<1>9. CASE SnapshotGoesOn
  BY <1>9, Untouched DEF SnapshotGoesOn
<1>10. CASE MetricsStop
  BY <1>10, Untouched DEF MetricsStop
<1>11. CASE UNCHANGED all
  BY <1>11, Untouched DEF all, metrics
<1> QED
  BY <1>1, <1>2, <1>3, <1>4, <1>5, <1>6, <1>7, <1>8, <1>9, <1>10, <1>11
     DEF MetricsNext, Task

(* In every execution a fill is in the counters of one day and in the       *)
(* summary of that day, and in none only if it was counted while a summary  *)
(* waited for a place in the queue: the reset after record_event is what    *)
(* loses those.                                                             *)
THEOREM FillsCountedOnce == MetricsSpec => []CountedOnce
<1>1. MetricsInit => IInv
  BY InitIInv
<1>2. IInv /\ [MetricsNext]_all => IInv'
  BY StepIInv
<1>3. IInv => CountedOnce
  BY DEF IInv
<1> QED
  BY <1>1, <1>2, <1>3, PTL DEF MetricsSpec

----------------------------------------------------------------------------
(* The store with its metrics task.                                         *)

(* The steps of the store by themselves.                                    *)
LEMMA StoreSafe ==
    ASSUME SafetyInv,
           \/ Writer \/ Closer \/ Close \/ Ended \/ UNCHANGED store
           \/ \E r \in Records : Record(r) \/ PutAgain(r) \/ CancelPut(r)
    PROVE  SafetyInv'
  BY StepSafe DEF Next, vars, store

(* A report that is done with comes round again: it is in no queue.         *)
LEMMA ForgetSafe ==
    ASSUME SafetyInv, NEW r \in Records, Forget(r)
    PROVE  SafetyInv'
<1>1. /\ state[r] \in {"written", "failed"} /\ state' = [state EXCEPT ![r] = "new"]
      /\ UNCHANGED <<queue, writer, phase>>
  BY DEF Forget
<1>2. TypeOK' /\ QueueInv'
  BY <1>1 DEF SafetyInv, TypeOK, QueueInv
<1>3. WakeInv' /\ FlushInv'
  BY <1>1 DEF SafetyInv, TypeOK, WakeInv, FlushInv, In, Unfinished
<1> QED
  BY <1>2, <1>3 DEF SafetyInv

(* What the task keeps of the fills.                                        *)
FillsTyped ==
    /\ counted \subseteq seen /\ seen \subseteq Fills
    /\ pending \in Seq(seen) /\ aged \in 0 .. Len(pending)
    /\ newDay \in BOOLEAN
    /\ pc \in {"sleep", "rollover", "snapshot", "put", "stopped"}
    /\ summary \subseteq seen /\ booked \subseteq seen /\ late \subseteq seen

MInv == SafetyInv /\ FillsTyped

LEMMA InitMInv == MetricsInit => MInv
<1> SUFFICES ASSUME MetricsInit
             PROVE  MInv
  OBVIOUS
<1>1. SafetyInv
  BY InitSafe DEF MetricsInit
<1>2. <<>> \in Seq({}) /\ Len(<<>>) = 0
  OBVIOUS
<1>3. FillsTyped
  <2>1. pending = <<>> /\ seen = {} /\ aged = 0
    BY DEF MetricsInit
  <2>2. pending \in Seq(seen)
    BY <1>2, <2>1
  <2>3. aged \in 0 .. Len(pending)
    BY <1>2, <2>1
  <2> QED
    BY <2>2, <2>3 DEF MetricsInit, FillsTyped
<1> QED
  BY <1>1, <1>3 DEF MInv

LEMMA MetricsTypeFromMInv == MInv => MetricsTypeOK
  BY DEF MInv, FillsTyped, MetricsTypeOK, SafetyInv

LEMMA StepFillsTyped == FillsTyped /\ [MetricsNext]_all => FillsTyped'
<1> SUFFICES ASSUME FillsTyped, [MetricsNext]_all
             PROVE  FillsTyped'
  OBVIOUS
<1>t. Len(pending) \in Nat /\ aged \in Nat /\ aged <= Len(pending)
  BY DEF FillsTyped
<1>1. CASE StoreSteps
  BY <1>1 DEF StoreSteps, metrics, history, FillsTyped
<1>2. ASSUME NEW f \in Fills, OnFill(f)
      PROVE  FillsTyped'
  <2>1. /\ seen' = seen \cup {f} /\ counted' = counted \cup {f}
        /\ pending' \in {pending, Append(pending, f)}
        /\ late' \subseteq late \cup {f}
        /\ UNCHANGED <<aged, newDay, pc, summary, booked>>
    BY <1>2 DEF OnFill
  <2>2. pending \in Seq(seen') /\ f \in seen'
    BY <2>1 DEF FillsTyped
  <2>3. Append(pending, f) \in Seq(seen') /\ Len(Append(pending, f)) = Len(pending) + 1
    BY <2>2, AppendFacts
  <2>4. pending' \in Seq(seen') /\ Len(pending') \in Nat /\ Len(pending) <= Len(pending')
    BY <1>t, <2>1, <2>2, <2>3
  <2> QED
    BY <1>t, <2>1, <2>4 DEF FillsTyped
<1>3. CASE Ages
  BY <1>t, <1>3 DEF Ages, history, FillsTyped
<1>4. CASE Midnight
  BY <1>4 DEF Midnight, history, FillsTyped
<1>5. ASSUME NEW r \in {Summary, Snapshot}, Forget(r)
      PROVE  FillsTyped'
  BY <1>5 DEF Forget, metrics, history, FillsTyped
<1>6. ASSUME NEW fills, fills \subseteq seen, Reported(fills),
             UNCHANGED <<pending, aged, seen, late>>
      PROVE  FillsTyped'
  BY <1>6 DEF Reported, Reset, FillsTyped
<1>7. CASE Rollover
  <2>1. CASE Reported(counted)
    BY <1>6, <1>7, <2>1 DEF Rollover, FillsTyped
  <2>2. CASE summary' = counted /\ pc' = "rollover" /\ UNCHANGED <<counted, newDay, booked>>
    BY <1>7, <2>2 DEF Rollover, FillsTyped
  <2> QED
    BY <1>7, <2>1, <2>2 DEF Rollover
<1>8. CASE RolloverGoesOn
  <2>1. CASE Reported(summary)
    BY <1>6, <1>8, <2>1 DEF RolloverGoesOn, FillsTyped
  <2>2. CASE UNCHANGED <<counted, newDay, pc, summary, booked>>
    BY <1>8, <2>2 DEF RolloverGoesOn, FillsTyped
  <2> QED
    BY <1>8, <2>1, <2>2 DEF RolloverGoesOn
<1>9. CASE SnapshotNow
  <2>1. /\ pending' = SubSeq(pending, aged + 1, Len(pending)) /\ aged' = aged - aged
        /\ pc' \in {"put", "sleep"} /\ UNCHANGED <<counted, newDay, summary, history>>
    BY <1>9 DEF SnapshotNow, Due
  <2>2. pending' \in Seq(seen)
    <3>1. \A i \in aged + 1 .. Len(pending) : pending[i] \in seen
      BY <1>t DEF FillsTyped
    <3> QED
      BY <1>t, <2>1, <3>1 DEF FillsTyped
  <2>3. aged' = 0 /\ Len(pending') \in Nat
    BY <1>t, <2>1, <2>2
  <2> QED
    BY <2>1, <2>2, <2>3 DEF history, FillsTyped
<1>10. CASE SnapshotGoesOn
  BY <1>10 DEF SnapshotGoesOn, history, FillsTyped
<1>11. CASE MetricsStop
  BY <1>11 DEF MetricsStop, history, FillsTyped
<1>12. CASE UNCHANGED all
  BY <1>12 DEF all, metrics, history, FillsTyped
<1> QED
  BY <1>1, <1>2, <1>3, <1>4, <1>5, <1>7, <1>8, <1>9, <1>10, <1>11, <1>12
     DEF MetricsNext, Task

LEMMA StepMInv == MInv /\ [MetricsNext]_all => MInv'
<1> SUFFICES ASSUME MInv, [MetricsNext]_all
             PROVE  SafetyInv'
  BY StepFillsTyped DEF MInv
<1> USE DEF MInv
<1>1. Summary \in Records /\ Snapshot \in Records /\ Fills \subseteq Records
  BY MetricsAssumption
<1>2. CASE StoreSteps
  BY <1>2, StoreSafe DEF StoreSteps, Others
<1>3. CASE \/ \E f \in Fills : OnFill(f)
           \/ Ages \/ Midnight \/ UNCHANGED all
  BY <1>3, StoreSafe DEF OnFill, Ages, Midnight, all
<1>4. CASE \E r \in {Summary, Snapshot} : Forget(r)
  BY <1>1, <1>4, ForgetSafe
<1>5. CASE Task
  BY <1>1, <1>5, StoreSafe DEF Task, Rollover, RolloverGoesOn, SnapshotNow, SnapshotGoesOn
<1>6. CASE MetricsStop
  <2>1. CancelPut(Summary) \/ CancelPut(Snapshot) \/ UNCHANGED store
    BY <1>6 DEF MetricsStop
  <2> QED
    BY <1>1, <2>1, StoreSafe
<1> QED
  BY <1>2, <1>3, <1>4, <1>5, <1>6 DEF MetricsNext

(* In every execution of the store with its metrics task the counters, the  *)
(* summaries and the list of fills to be measured hold fills the task was   *)
(* told of, no more of the list is due than there is of it, and the queue   *)
(* stays within its bound.                                                  *)
THEOREM MetricsTypeCorrect == MetricsSpec => []MetricsTypeOK
<1>1. MetricsInit => MInv
  BY InitMInv
<1>2. MInv /\ [MetricsNext]_all => MInv'
  BY StepMInv
<1>3. MInv => MetricsTypeOK
  BY MetricsTypeFromMInv
<1> QED
  BY <1>1, <1>2, <1>3, PTL DEF MetricsSpec

(* Nor does close lose a record of a store whose summaries and snapshots    *)
(* come round again and whose metrics task was stopped while one of its     *)
(* calls waited.                                                            *)
THEOREM MetricsCloseLosesNothing == MetricsSpec => []NothingLost
<1>1. MetricsInit => MInv
  BY InitMInv
<1>2. MInv /\ [MetricsNext]_all => MInv'
  BY StepMInv
<1>3. MInv => NothingLost
  BY DEF MInv, SafetyInv, TypeOK, FlushInv, NothingLost, Unfinished, In
<1> QED
  BY <1>1, <1>2, <1>3, PTL DEF MetricsSpec
=============================================================================
