--------------------------- MODULE MarketDataProofs ---------------------------
(***************************************************************************)
(* Proofs about MarketData, for any time-outs, any back-off and any queue. *)
(***************************************************************************)
EXTENDS MarketData, FiniteSetTheorems, TLAPS

(* stop waits for the main task before it asks the callback task to end.    *)
StopInv ==
    /\ stop \in {"callbacks", "done"} => conn = "ended"
    /\ stop = "done" => cb = "ended"
    /\ stop = "main" => conn \in {"closing", "ended"}

SafetyInv == TypeOK /\ StopInv

----------------------------------------------------------------------------
LEMMA Constants ==
    /\ Initial \in Nat /\ MaxBackoff \in Nat /\ Initial <= MaxBackoff
    /\ Cap \in Nat \ {0} /\ StopWait \in Nat /\ Horizon \in Nat
  BY MarketDataAssumption

LEMMA InitSafe == Init => SafetyInv
<1> SUFFICES ASSUME Init PROVE SafetyInv
  OBVIOUS
<1>1. backoff \in Initial .. MaxBackoff /\ stopClock \in 0 .. StopWait
  BY Constants DEF Init
<1>2. age \in 0 .. Horizon /\ quiet \in 0 .. Horizon
  BY Constants DEF Init
<1>3. queue \in Seq(Kinds \cup {"stop"}) /\ Len(queue) <= Cap
  BY Constants DEF Init
<1>4. TypeOK
  BY <1>1, <1>2, <1>3 DEF Init, TypeOK
<1>5. QED
  BY <1>4 DEF Init, SafetyInv, StopInv

(* There are finitely many events in the queue.                             *)
LEMMA DisconnectsNat == TypeOK => Disconnects \in Nat
<1> SUFFICES ASSUME TypeOK PROVE Disconnects \in Nat
  OBVIOUS
<1>1. DOMAIN queue = 1 .. Len(queue) /\ Len(queue) \in Nat
  BY DEF TypeOK
<1>2. IsFiniteSet(1 .. Len(queue))
  BY <1>1, FS_Interval
<1>3. IsFiniteSet({i \in DOMAIN queue : queue[i] = "disconnect"})
  BY <1>1, <1>2, FS_Subset
<1>4. QED
  BY <1>3, FS_CardinalityType DEF Disconnects

(* What put_nowait leaves behind: the queue within its bound.               *)
LEMMA PutType ==
    ASSUME TypeOK, NEW kind \in Kinds \cup {"stop"}, Put(kind)
    PROVE  queue' \in Seq(Kinds \cup {"stop"}) /\ Len(queue') <= Cap
<1>1. Len(queue) \in Nat /\ Cap \in Nat
  BY Constants DEF TypeOK
<1>2. CASE Len(queue) < Cap
  <2>1. queue' = Append(queue, kind)
    BY <1>2 DEF Put
  <2>2. Len(queue') = Len(queue) + 1 /\ queue' \in Seq(Kinds \cup {"stop"})
    BY <2>1 DEF TypeOK
  <2>3. QED
    BY <2>2, <1>1, <1>2
<1>3. CASE ~(Len(queue) < Cap)
  BY <1>3 DEF Put, TypeOK
<1>4. QED
  BY <1>2, <1>3

(* The back-off stays within its bounds.                                    *)
LEMMA BackoffBounds ==
    ASSUME TypeOK
    PROVE  Doubled \in Initial .. MaxBackoff /\ Initial \in Initial .. MaxBackoff
  BY Constants DEF TypeOK, Doubled

LEMMA TypeStep == TypeOK /\ [Next]_vars => TypeOK'
<1> SUFFICES ASSUME TypeOK, [Next]_vars PROVE TypeOK'
  OBVIOUS
<1>1. CASE Opened
  BY <1>1, BackoffBounds, Constants DEF TypeOK, Opened, Goto, stopping
<1>2. CASE SubscribeFails
  BY <1>2, BackoffBounds DEF TypeOK, SubscribeFails, Goto, ages, stopping
<1>3. CASE OpenFails
  BY <1>3, PutType
     DEF TypeOK, OpenFails, AgeAfterFailure, Goto, stopping, Kinds
<1>4. CASE Message
  <2>1. queue' \in Seq(Kinds \cup {"stop"}) /\ Len(queue') <= Cap
    BY <1>4, PutType DEF Message, TypeOK, Kinds
  <2>2. QED
    BY <1>4, <2>1, Constants DEF TypeOK, Message, stopping
<1>5. CASE SessionFails
  BY <1>5 DEF TypeOK, SessionFails, Goto, ages, stopping
<1>6. CASE Closed
  <2>1. queue' \in Seq(Kinds \cup {"stop"}) /\ Len(queue') <= Cap
    BY <1>6, PutType DEF Closed, ToldEnd, TypeOK, Kinds
  <2>2. untold' \in Nat
    BY <1>6, DisconnectsNat DEF Closed, TypeOK
  <2>3. QED
    BY <1>6, <2>1, <2>2 DEF TypeOK, Closed, Goto, ages, stopping
<1>7. CASE WaitIsOver
  BY <1>7, BackoffBounds DEF TypeOK, WaitIsOver, Retries, Goto, ages, stopping
<1>8. CASE Dispatch
  <2>1. /\ queue' \in Seq(Kinds \cup {"stop"})
        /\ Len(queue') = Len(queue) - 1
        /\ Head(queue) \in Kinds \cup {"stop"}
    BY <1>8 DEF Dispatch, TypeOK
  <2>2. Len(queue') <= Cap
    BY <2>1, Constants DEF TypeOK
  <2>3. untold' \in Nat
    BY <1>8 DEF Dispatch, TypeOK
  <2>4. QED
    BY <1>8, <2>1, <2>2, <2>3 DEF TypeOK, Dispatch, session, ages, stopping
<1>9. CASE CallbackEnds
  BY <1>9 DEF TypeOK, CallbackEnds, session, ages, stopping
<1>10. CASE CallStop
  BY <1>10 DEF TypeOK, CallStop, Goto, ages
<1>11. CASE AskCallbacks
  BY <1>11, PutType DEF TypeOK, AskCallbacks, session, ages
<1>12. CASE StopReturns
  BY <1>12 DEF TypeOK, StopReturns, Cancelled, session, ages
<1>13. CASE Tick
  BY <1>13, Constants DEF TypeOK, Tick, Older
<1>14. CASE UNCHANGED vars
  BY <1>14 DEF TypeOK, vars, session, ages, stopping
<1>15. QED
  BY <1>1, <1>2, <1>3, <1>4, <1>5, <1>6, <1>7, <1>8, <1>9, <1>10, <1>11, <1>12,
     <1>13, <1>14 DEF Next, Callbacks, Stop

LEMMA StopStep == SafetyInv /\ [Next]_vars => StopInv'
<1> SUFFICES ASSUME SafetyInv, [Next]_vars PROVE StopInv'
  OBVIOUS
<1> USE DEF SafetyInv, StopInv
<1>1. CASE Opened \/ SubscribeFails \/ OpenFails
  BY <1>1 DEF Opened, SubscribeFails, OpenFails, Goto, stopping
<1>2. CASE Message \/ SessionFails
  BY <1>2 DEF Message, SessionFails, Goto, stopping
<1>3. CASE Closed \/ WaitIsOver
  BY <1>3 DEF Closed, WaitIsOver, Goto, Stopping, stopping
<1>4. CASE Dispatch \/ CallbackEnds
  BY <1>4 DEF Dispatch, CallbackEnds, Kinds, session, stopping
<1>5. CASE CallStop
  BY <1>5 DEF CallStop, Goto
<1>6. CASE AskCallbacks
  BY <1>6 DEF AskCallbacks, session
<1>7. CASE StopReturns
  BY <1>7 DEF StopReturns, Cancelled, session
<1>8. CASE Tick
  BY <1>8 DEF Tick
<1>9. CASE UNCHANGED vars
  BY <1>9 DEF vars, session, stopping
<1>10. QED
  BY <1>1, <1>2, <1>3, <1>4, <1>5, <1>6, <1>7, <1>8, <1>9
     DEF Next, Callbacks, Stop

(* The inductive invariant.                                                 *)
LEMMA Safe == Spec => []SafetyInv
<1>1. SafetyInv /\ [Next]_vars => SafetyInv'
  BY TypeStep, StopStep DEF SafetyInv
<1>2. QED
  BY InitSafe, <1>1, PTL DEF Spec

----------------------------------------------------------------------------
(* The callback queue and the back-off keep their bounds, for any of them.  *)
THEOREM TypeCorrect == Spec => []TypeOK
<1>1. SafetyInv => TypeOK
  BY DEF SafetyInv
<1>2. QED
  BY <1>1, Safe, PTL

(* When stop has returned no callback runs and none will, even if one hung  *)
(* or the queue had no place for the request to end.                        *)
THEOREM StopSilencesCallbacks == Spec => []StoppedMeansQuiet
<1>1. SafetyInv => StoppedMeansQuiet
  BY DEF SafetyInv, StopInv, StoppedMeansQuiet
<1>2. QED
  BY <1>1, Safe, PTL
=============================================================================
