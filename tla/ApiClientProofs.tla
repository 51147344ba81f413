-------------------------- MODULE ApiClientProofs --------------------------
(* Proofs about the exchange client.                                        *)
EXTENDS ApiClient, TLAPS

(* The meter and the bucket are two views of one number: what the meter     *)
(* holds is what the bucket lacks.                                          *)
MeterInv == meter = Capacity - Available

(* An order the exchange made of a placement left its id there.             *)
IdInv == \A p \in Placements : placed[p] = 0 \/ (placed[p] = 1 /\ p \in known)

(* A call that has yet to send sleeps at least as long as it was asked to.  *)
BanInv ==
    \A c \in Calls :
        /\ stage[c] \in {"new", "waiting"} => banned[c] <= timer[c]
        /\ stage[c] = "out" => banned[c] = 0

SafetyInv ==
    /\ TypeOK /\ MeterInv /\ IdInv
    /\ CloseNeverFlips /\ OkIsDone /\ BanInv

LEMMA DelayType ==
    ASSUME NEW n \in Nat
    PROVE  Backoff(n) \in DelayTimes
<1>1. CASE n < Len(Delays)
  BY <1>1, ApiClientAssumption DEF Backoff
<1>2. CASE ~(n < Len(Delays))
  <2>1. Len(Delays) \in 1 .. Len(Delays)
    BY ApiClientAssumption
  <2>2. QED
    BY <1>2, <2>1, ApiClientAssumption DEF Backoff
<1>3. QED
  BY <1>1, <1>2

LEMMA InitSafe == Init => SafetyInv
BY ApiClientAssumption
   DEF Init, SafetyInv, TypeOK, MeterInv, Available, IdInv, CloseNeverFlips,
       OkIsDone, BanInv, Requests, Calls, DelayTimes, Outcomes

(* What the exchange does keeps its own part of the invariant.              *)
LEMMA ExecuteSafe ==
    ASSUME SafetyInv, NEW r \in Requests, Acceptable(r), Execute(r)
    PROVE  /\ known' \subseteq Placements
           /\ placed' \in [Placements -> Nat]
           /\ targets' \subseteq targets /\ r[1] \notin targets'
           /\ position' \in Int
           /\ IdInv' /\ CloseNeverFlips'
           /\ \A p \in Placements : placed[p] = 1 => placed'[p] = 1
           /\ r[1] \in Placements => placed'[r[1]] = 1
<1>1. r[1] \in Calls
  BY DEF Requests
<1>2. known' \subseteq Placements /\ placed' \in [Placements -> Nat]
  BY DEF SafetyInv, TypeOK, Execute, ClientId
<1>3. targets' \subseteq targets /\ r[1] \notin targets'
  BY DEF Execute
<1>4. position' \in Int /\ CloseNeverFlips'
  <2>1. r[1] \in Closes => position > 0
    BY ApiClientAssumption DEF SafetyInv, TypeOK, Acceptable, ReduceOnly
  <2>2. QED
    BY <2>1 DEF SafetyInv, TypeOK, Execute, CloseNeverFlips
<1>5. IdInv'
  <2>1. SUFFICES ASSUME NEW p \in Placements
                 PROVE  placed'[p] = 0 \/ (placed'[p] = 1 /\ p \in known')
    BY DEF IdInv
  <2>2. known \subseteq known'
    BY DEF Execute
  <2>3. CASE p # r[1]
    BY <2>2, <2>3 DEF SafetyInv, IdInv, Execute
  <2>4. CASE p = r[1]
    <3>1. p \notin known
      BY <2>4, ApiClientAssumption DEF SafetyInv, TypeOK, Acceptable, ClientId
    <3>2. placed[p] = 0
      BY <3>1 DEF SafetyInv, IdInv
    <3>3. placed'[p] = 1 /\ p \in known'
      BY <3>2, <2>4 DEF Execute, ClientId
    <3>4. QED
      BY <3>3
  <2>5. QED
    BY <2>3, <2>4
<1>6. \A p \in Placements : placed[p] = 1 \/ p = r[1] => placed'[p] = 1
  <2>1. SUFFICES ASSUME NEW p \in Placements, placed[p] = 1 \/ p = r[1]
                 PROVE  placed'[p] = 1
    OBVIOUS
  <2>2. placed'[p] = IF p = r[1] THEN placed[p] + 1 ELSE placed[p]
    BY DEF Execute
  <2>3. placed'[p] = 0 \/ placed'[p] = 1
    BY <1>5 DEF IdInv
  <2>4. placed[p] \in Nat
    BY DEF SafetyInv, TypeOK
  <2>5. QED
    BY <2>1, <2>2, <2>3, <2>4
<1>7. QED
  BY <1>2, <1>3, <1>4, <1>5, <1>6

(* The rest of the invariant, for a step of the exchange alone.             *)
LEMMA LateSafe ==
    ASSUME SafetyInv, NEW r \in Requests, LateRequest(r)
    PROVE  SafetyInv'
<1>1. /\ UNCHANGED <<tokens, since, stage, attempt, timer, banned, meter>>
      /\ late' \subseteq late
  BY DEF LateRequest, bucket, calls
<1>2. CASE Acceptable(r) /\ Execute(r)
  BY <1>1, <1>2, ExecuteSafe
     DEF SafetyInv, TypeOK, MeterInv, Available, OkIsDone, BanInv
<1>3. CASE UNCHANGED exchange
  BY <1>1, <1>3
     DEF SafetyInv, TypeOK, MeterInv, Available, IdInv, CloseNeverFlips,
         OkIsDone, BanInv, exchange
<1>4. QED
  BY <1>2, <1>3 DEF LateRequest

LEMMA FillSafe ==
    ASSUME SafetyInv, Fill
    PROVE  SafetyInv'
<1>1. /\ UNCHANGED <<tokens, since, stage, attempt, timer, late, known, placed,
                     banned, meter>>
      /\ targets' \subseteq targets /\ position' \in Int /\ position' >= 0
  BY DEF Fill, bucket, calls, SafetyInv, TypeOK, CloseNeverFlips
<1>2. QED
  BY <1>1
     DEF SafetyInv, TypeOK, MeterInv, Available, IdInv, CloseNeverFlips,
         OkIsDone, BanInv

LEMMA BeginSafe ==
    ASSUME SafetyInv, NEW c \in Calls, Begin(c)
    PROVE  SafetyInv'
<1>1. \E s \in {"waiting", "failed"} : stage' = [stage EXCEPT ![c] = s]
  BY DEF Begin, Goto
<1>2. /\ UNCHANGED <<tokens, since, attempt, timer, late, known, placed, targets,
                     position, meter>>
      /\ banned' = [banned EXCEPT ![c] = 0]
  BY DEF Begin, bucket, exchange
<1>3. stage' \in [Calls -> {"new", "waiting", "out"} \cup Outcomes]
  BY <1>1 DEF SafetyInv, TypeOK, Outcomes
<1>4. banned' \in [Calls -> DelayTimes] /\ timer[c] \in DelayTimes
  BY <1>2, ApiClientAssumption DEF SafetyInv, TypeOK, DelayTimes
<1>5. TypeOK' /\ MeterInv' /\ IdInv' /\ CloseNeverFlips'
  BY <1>2, <1>3, <1>4
     DEF SafetyInv, TypeOK, MeterInv, Available, IdInv, CloseNeverFlips
<1>6. OkIsDone'
  BY <1>1, <1>2, <1>3 DEF SafetyInv, TypeOK, OkIsDone, Calls
<1>7. BanInv'
  <2>1. SUFFICES ASSUME NEW d \in Calls
                 PROVE  /\ stage'[d] \in {"new", "waiting"} => banned'[d] <= timer'[d]
                        /\ stage'[d] = "out" => banned'[d] = 0
    BY DEF BanInv
  <2>2. CASE d = c
    BY <1>1, <1>2, <1>4, <2>2 DEF SafetyInv, TypeOK, DelayTimes
  <2>3. CASE d # c
    BY <1>1, <1>2, <2>3 DEF SafetyInv, TypeOK, BanInv
  <2>4. QED
    BY <2>2, <2>3
<1>8. QED
  BY <1>5, <1>6, <1>7 DEF SafetyInv

(* A request moves its cost from the bucket to the meter; a call that finds *)
(* too little leaves both as they are.                                      *)
LEMMA AcquireSafe ==
    ASSUME SafetyInv, NEW c \in Calls, Acquire(c)
    PROVE  SafetyInv'
<1>1. /\ tokens \in 0 .. Capacity /\ since \in 0 .. Capacity
      /\ Available \in 0 .. Capacity
  BY ApiClientAssumption DEF SafetyInv, TypeOK, Available
<1>2. since' = 0 /\ stage[c] = "waiting" /\ timer[c] = 0
      /\ UNCHANGED <<attempt, late, known, placed, targets, position, banned>>
  BY DEF Acquire, Looked, exchange
<1>3. CASE Available >= Cost /\ tokens' = Available - Cost
            /\ meter' = meter + Cost /\ Goto(c, "out") /\ UNCHANGED timer
  <2>1. tokens' \in 0 .. Capacity /\ Available' = Available - Cost
    BY <1>1, <1>2, <1>3, ApiClientAssumption DEF Available
  <2>2. meter' \in Nat /\ MeterInv'
    BY <1>1, <1>3, <2>1, ApiClientAssumption DEF SafetyInv, TypeOK, MeterInv
  <2>3. TypeOK' /\ IdInv' /\ CloseNeverFlips'
    BY <1>2, <1>3, <2>1, <2>2, ApiClientAssumption
       DEF Goto, SafetyInv, TypeOK, IdInv, CloseNeverFlips
  <2>4. OkIsDone'
    BY <1>2, <1>3 DEF Goto, SafetyInv, TypeOK, OkIsDone, Calls
  <2>5. BanInv'
    <3>1. banned[c] = 0
      BY <1>2 DEF SafetyInv, TypeOK, BanInv, DelayTimes
    <3>2. stage'[c] = "out" /\ \A d \in Calls \ {c} : stage'[d] = stage[d]
      BY <1>3 DEF Goto, SafetyInv, TypeOK
    <3>3. QED
      BY <1>2, <1>3, <3>1, <3>2 DEF SafetyInv, BanInv
  <2>6. QED
    BY <2>2, <2>3, <2>4, <2>5 DEF SafetyInv
<1>4. CASE Available < Cost /\ tokens' = Available
            /\ timer' = [timer EXCEPT ![c] = Cost - Available]
            /\ UNCHANGED <<stage, meter>>
  <2>1. tokens' \in 0 .. Capacity /\ Available' = Available
    BY <1>1, <1>2, <1>4, ApiClientAssumption DEF Available
  <2>2. Cost - Available \in DelayTimes
    BY <1>1, <1>4, ApiClientAssumption DEF DelayTimes
  <2>3. BanInv'
    <3>1. banned[c] \in Nat /\ banned[c] <= 0
      BY <1>2 DEF SafetyInv, TypeOK, BanInv, DelayTimes
    <3>2. timer'[c] \in Nat /\ \A d \in Calls \ {c} : timer'[d] = timer[d]
      BY <1>4, <2>2 DEF SafetyInv, TypeOK, DelayTimes
    <3>3. QED
      BY <1>2, <1>4, <3>1, <3>2 DEF SafetyInv, BanInv
  <2>4. QED
    BY <1>2, <1>4, <2>1, <2>2, <2>3, ApiClientAssumption
       DEF SafetyInv, TypeOK, MeterInv, IdInv, CloseNeverFlips, OkIsDone
<1>5. QED
  BY <1>3, <1>4 DEF Acquire

LEMMA EndSafe ==
    ASSUME SafetyInv, NEW c \in Calls, NEW o \in Outcomes, End(c, o)
    PROVE  /\ stage' \in [Calls -> {"new", "waiting", "out"} \cup Outcomes]
           /\ attempt' \in [Calls -> 0 .. MaxRetries]
           /\ timer' \in [Calls -> DelayTimes]
           /\ \A d \in Calls \ {c} : stage'[d] = stage[d] /\ timer'[d] = timer[d]
           /\ stage'[c] = o
<1>1. /\ stage' = [stage EXCEPT ![c] = o]
      /\ attempt' = [attempt EXCEPT ![c] = 0]
      /\ timer' = [timer EXCEPT ![c] = 0]
  BY DEF End, Goto
<1>2. 0 \in 0 .. MaxRetries /\ 0 \in DelayTimes
  BY ApiClientAssumption DEF DelayTimes
<1>3. QED
  BY <1>1, <1>2 DEF SafetyInv, TypeOK

(* What becomes of a call when its thread has ended: it ended or sleeps, as *)
(* long as it was asked to.                                                 *)
LEMMA TryAgainSafe ==
    ASSUME SafetyInv, NEW c \in Calls, NEW delay \in DelayTimes,
           TryAgain(c, delay), stage[c] = "out"
    PROVE  /\ stage' \in [Calls -> {"new", "waiting", "out"} \cup Outcomes]
           /\ attempt' \in [Calls -> 0 .. MaxRetries]
           /\ timer' \in [Calls -> DelayTimes]
           /\ \A d \in Calls \ {c} : stage'[d] = stage[d] /\ timer'[d] = timer[d]
           /\ stage'[c] = "failed" \/ (stage'[c] = "waiting" /\ timer'[c] = delay)
<1>1. CASE attempt[c] < MaxRetries
  <2>1. /\ attempt' = [attempt EXCEPT ![c] = attempt[c] + 1]
        /\ timer' = [timer EXCEPT ![c] = delay]
        /\ stage' = [stage EXCEPT ![c] = "waiting"]
    BY <1>1, ApiClientAssumption DEF TryAgain, NextAttempt, Goto, SafetyInv, TypeOK
  <2>2. attempt[c] + 1 \in 0 .. MaxRetries
    BY <1>1, ApiClientAssumption DEF SafetyInv, TypeOK
  <2>3. QED
    BY <2>1, <2>2 DEF SafetyInv, TypeOK
<1>2. CASE ~(attempt[c] < MaxRetries)
  <2>1. End(c, "failed")
    BY <1>2 DEF TryAgain, Exhausted
  <2>2. QED
    BY <2>1, EndSafe DEF Outcomes
<1>3. QED
  BY <1>1, <1>2

LEMMA BackoffType == ASSUME SafetyInv, NEW c \in Calls
                     PROVE  Backoff(attempt[c]) \in DelayTimes
  BY DelayType DEF SafetyInv, TypeOK

(* A call that did not end as done: the exchange is as it was, or nothing   *)
(* is known of it.                                                          *)
LEMMA DoubtSafe ==
    ASSUME SafetyInv, NEW c \in Calls, NEW delay \in DelayTimes,
           late' \subseteq Requests,
           UNCHANGED <<tokens, since, known, placed, targets, position, meter>>,
           banned' \in [Calls -> DelayTimes],
           \A d \in Calls \ {c} : banned'[d] = banned[d],
           stage' \in [Calls -> {"new", "waiting", "out"} \cup Outcomes],
           attempt' \in [Calls -> 0 .. MaxRetries],
           timer' \in [Calls -> DelayTimes],
           \A d \in Calls \ {c} : stage'[d] = stage[d] /\ timer'[d] = timer[d],
           \/ stage'[c] \in {"refused", "failed"}
           \/ stage'[c] = "waiting" /\ banned'[c] <= timer'[c]
    PROVE  SafetyInv'
<1>1. TypeOK' /\ MeterInv' /\ IdInv' /\ CloseNeverFlips'
  BY DEF SafetyInv, TypeOK, MeterInv, Available, IdInv, CloseNeverFlips
<1>2. OkIsDone'
  <2>1. SUFFICES ASSUME NEW d \in Calls, stage'[d] = "ok"
                 PROVE  /\ d \in Cancels => d \notin targets'
                        /\ d \in Placements => placed'[d] = 1
    BY DEF OkIsDone, Calls
  <2>2. stage[d] = "ok"
    BY <2>1
  <2>3. QED
    BY <2>2 DEF SafetyInv, OkIsDone
<1>3. BanInv'
  <2>1. SUFFICES ASSUME NEW d \in Calls
                 PROVE  /\ stage'[d] \in {"new", "waiting"} => banned'[d] <= timer'[d]
                        /\ stage'[d] = "out" => banned'[d] = 0
    BY DEF BanInv
  <2>2. CASE d = c
    BY <2>2
  <2>3. CASE d # c
    BY <2>3 DEF SafetyInv, BanInv
  <2>4. QED
    BY <2>2, <2>3
<1>4. QED
  BY <1>1, <1>2, <1>3 DEF SafetyInv

LEMMA InDoubtType ==
    ASSUME SafetyInv, NEW c \in Calls, InDoubt(c)
    PROVE  late' \subseteq Requests
  BY DEF InDoubt, SafetyInv, TypeOK, Requests

LEMMA NetworkFailsSafe ==
    ASSUME SafetyInv, NEW c \in Calls, NetworkFails(c)
    PROVE  SafetyInv'
<1>1. banned[c] = 0 /\ stage[c] = "out" /\ Backoff(attempt[c]) \in DelayTimes
  BY BackoffType DEF NetworkFails, SafetyInv, BanInv
<1>2. /\ UNCHANGED <<tokens, since, known, placed, targets, position, meter, banned>>
      /\ TryAgain(c, Backoff(attempt[c])) /\ late' \subseteq Requests
  BY InDoubtType DEF NetworkFails, bucket, exchange
<1>3. 0 <= Backoff(attempt[c])
  BY <1>1 DEF DelayTimes
<1>4. banned' \in [Calls -> DelayTimes]
  BY <1>2 DEF SafetyInv, TypeOK
<1>5. QED
  BY <1>1, <1>2, <1>3, <1>4, TryAgainSafe, DoubtSafe

LEMMA RateLimitedSafe ==
    ASSUME SafetyInv, NEW c \in Calls, RateLimited(c)
    PROVE  SafetyInv'
<1>1. PICK asked \in RetryAfter :
         /\ banned' = [banned EXCEPT ![c] = asked]
         /\ TryAgain(c, Longer(Backoff(attempt[c]), asked))
  BY DEF RateLimited
<1> DEFINE delay == Longer(Backoff(attempt[c]), asked)
<1>2. delay \in DelayTimes /\ asked \in DelayTimes /\ asked <= delay
  BY BackoffType, ApiClientAssumption DEF Longer, DelayTimes
<1>3. /\ UNCHANGED <<tokens, since, known, placed, targets, position, meter, late>>
      /\ stage[c] = "out" /\ late' \subseteq Requests
  BY DEF RateLimited, bucket, exchange, SafetyInv, TypeOK
<1>4. /\ banned' \in [Calls -> DelayTimes] /\ banned'[c] = asked
      /\ \A d \in Calls \ {c} : banned'[d] = banned[d]
  BY <1>1, <1>2 DEF SafetyInv, TypeOK
<1> HIDE DEF delay
<1>5. TryAgain(c, delay)
  BY <1>1 DEF delay
<1>6. QED
  BY <1>2, <1>3, <1>4, <1>5, TryAgainSafe, DoubtSafe

(* A call that is refused or fails for good, its caller's cancellation      *)
(* included.                                                                *)
LEMMA FailedSafe ==
    ASSUME SafetyInv, NEW c \in Calls, NEW o \in {"refused", "failed"}, End(c, o),
           late' \subseteq Requests,
           UNCHANGED <<bucket, exchange, banned, meter>>
    PROVE  SafetyInv'
<1>1. UNCHANGED <<tokens, since, known, placed, targets, position, meter, banned>>
  BY DEF bucket, exchange
<1>2. banned' \in [Calls -> DelayTimes] /\ 0 \in DelayTimes
  BY <1>1, ApiClientAssumption DEF SafetyInv, TypeOK, DelayTimes
<1>3. QED
  BY <1>1, <1>2, EndSafe, DoubtSafe DEF Outcomes

(* An answer: what it says of the exchange is so.                           *)
LEMMA AnsweredSafe ==
    ASSUME SafetyInv, NEW c \in Calls, Answered(c)
    PROVE  SafetyInv'
<1> DEFINE r == <<c, attempt[c]>>
<1>1. r \in Requests /\ r[1] = c
  BY DEF Requests, SafetyInv, TypeOK
<1>2. UNCHANGED <<tokens, since, late, banned, meter>> /\ late' \subseteq Requests
  BY DEF Answered, bucket, SafetyInv, TypeOK
<1>3. CASE Acceptable(r) /\ Execute(r) /\ End(c, "ok")
  <2>1. /\ known' \subseteq Placements /\ placed' \in [Placements -> Nat]
        /\ targets' \subseteq targets /\ c \notin targets'
        /\ position' \in Int /\ IdInv' /\ CloseNeverFlips'
        /\ \A p \in Placements : placed[p] = 1 => placed'[p] = 1
        /\ c \in Placements => placed'[c] = 1
    BY <1>1, <1>3, ExecuteSafe
  <2>2. /\ stage' \in [Calls -> {"new", "waiting", "out"} \cup Outcomes]
        /\ attempt' \in [Calls -> 0 .. MaxRetries]
        /\ timer' \in [Calls -> DelayTimes]
        /\ \A d \in Calls \ {c} : stage'[d] = stage[d] /\ timer'[d] = timer[d]
        /\ stage'[c] = "ok"
    BY <1>3, EndSafe DEF Outcomes
  <2>3. TypeOK' /\ MeterInv'
    BY <1>2, <2>1, <2>2 DEF SafetyInv, TypeOK, MeterInv, Available
  <2>4. OkIsDone'
    BY <2>1, <2>2 DEF SafetyInv, OkIsDone, Calls
  <2>5. BanInv'
    BY <1>2, <2>2 DEF SafetyInv, BanInv
  <2>6. QED
    BY <2>1, <2>3, <2>4, <2>5 DEF SafetyInv
<1>4. CASE \E o \in {"refused", "failed"} : End(c, o) /\ UNCHANGED exchange
  BY <1>2, <1>4, FailedSafe DEF bucket
<1>5. QED
  BY <1>3, <1>4 DEF Answered

(* A tick adds to the bucket what it takes from the meter, and brings the   *)
(* end of every sleep and of every ban one tick nearer.                     *)
LEMMA TickSafe ==
    ASSUME SafetyInv, Tick
    PROVE  SafetyInv'
<1>1. UNCHANGED <<tokens, stage, attempt, late, known, placed, targets, position>>
  BY DEF Tick, exchange
<1>2. since' \in 0 .. Capacity
  BY ApiClientAssumption DEF Tick, SafetyInv, TypeOK
<1>3. MeterInv' /\ meter' \in Nat
  BY <1>1, ApiClientAssumption
     DEF Tick, Less, SafetyInv, TypeOK, MeterInv, Available
<1>4. timer' \in [Calls -> DelayTimes] /\ banned' \in [Calls -> DelayTimes]
  BY ApiClientAssumption DEF Tick, Less, SafetyInv, TypeOK, DelayTimes
<1>5. BanInv'
  BY <1>1, <1>4, ApiClientAssumption
     DEF Tick, Less, SafetyInv, TypeOK, DelayTimes, BanInv
<1>6. QED
  BY <1>1, <1>2, <1>3, <1>4, <1>5
     DEF SafetyInv, TypeOK, IdInv, CloseNeverFlips, OkIsDone

LEMMA NextSafe == SafetyInv /\ [Next]_vars => SafetyInv'
<1> SUFFICES ASSUME SafetyInv, [Next]_vars PROVE SafetyInv'
  OBVIOUS
<1>1. CASE \E c \in Calls : Begin(c)
  BY <1>1, BeginSafe
<1>2. CASE \E c \in Calls : Acquire(c)
  BY <1>2, AcquireSafe
<1>3. CASE \E c \in Calls : Answered(c)
  BY <1>3, AnsweredSafe
<1>4. CASE \E c \in Calls : NetworkFails(c)
  BY <1>4, NetworkFailsSafe
<1>5. CASE \E c \in Calls : RateLimited(c)
  BY <1>5, RateLimitedSafe
<1>6. CASE \E c \in Calls : UnknownError(c)
  BY <1>6, InDoubtType, FailedSafe DEF UnknownError
<1>7. CASE \E c \in Calls : CancelCaller(c)
  <2>1. PICK c \in Calls : CancelCaller(c)
    BY <1>7
  <2>2. late' \subseteq Requests
    BY <2>1, InDoubtType DEF CancelCaller, SafetyInv, TypeOK
  <2>3. QED
    BY <2>1, <2>2, FailedSafe DEF CancelCaller
<1>8. CASE \E r \in Requests : LateRequest(r)
  BY <1>8, LateSafe
<1>9. CASE Fill
  BY <1>9, FillSafe
<1>10. CASE Tick
  BY <1>10, TickSafe
<1>11. CASE UNCHANGED vars
  BY <1>11 DEF vars, bucket, calls, exchange, SafetyInv, TypeOK, MeterInv,
       Available, IdInv, CloseNeverFlips, OkIsDone, BanInv
<1>12. QED
  BY <1>1, <1>2, <1>3, <1>4, <1>5, <1>6, <1>7, <1>8, <1>9, <1>10, <1>11
     DEF Next, Returns

----------------------------------------------------------------------------

(* A request goes out in one place.                                         *)
LEMMA OnlyAcquireSends ==
    ASSUME SafetyInv, [Next]_vars, NEW c \in Calls,
           stage[c] # "out", stage'[c] = "out"
    PROVE  stage[c] = "waiting" /\ timer[c] = 0
<1>1. ASSUME NEW d \in Calls, Acquire(d)
      PROVE  stage[c] = "waiting" /\ timer[c] = 0
  BY <1>1 DEF Acquire, Goto, SafetyInv, TypeOK
<1>2. ASSUME NEW d \in Calls, NEW s \in {"waiting"} \cup Outcomes, Goto(d, s)
      PROVE  FALSE
  BY <1>2 DEF Goto, SafetyInv, TypeOK, Outcomes
<1>3. ~UNCHANGED stage
  OBVIOUS
<1>4. ASSUME NEW d \in Calls,
             Begin(d) \/ Returns(d) \/ CancelCaller(d)
      PROVE  \E s \in {"waiting"} \cup Outcomes : Goto(d, s)
  BY <1>4 DEF Begin, Returns, Answered, NetworkFails, RateLimited, UnknownError,
       CancelCaller, TryAgain, End, Exhausted, Outcomes
<1>5. ~Tick /\ ~Fill /\ (\A r \in Requests : ~LateRequest(r)) /\ ~UNCHANGED vars
  BY <1>3 DEF Tick, Fill, LateRequest, calls, vars
<1>6. QED
  BY <1>1, <1>2, <1>4, <1>5 DEF Next

LEMMA Safe == Spec => []SafetyInv
  BY InitSafe, NextSafe, PTL DEF Spec

(* Type correctness, for any calls, any bucket and any number of retries.   *)
THEOREM TypeCorrect == Spec => []TypeOK
<1>1. SafetyInv => TypeOK
  BY DEF SafetyInv
<1>2. QED
  BY Safe, <1>1, PTL

(* The attempts of the calls never outrun the bucket, however many share    *)
(* it.  The fetches of the metadata, which take no token, are not counted.  *)
THEOREM RateKept == Spec => []Throttled
<1>1. SafetyInv => Throttled
  BY ApiClientAssumption
     DEF SafetyInv, TypeOK, MeterInv, Available, Throttled
<1>2. QED
  BY Safe, <1>1, PTL

(* Retries and late requests make at most one order of a placement.         *)
THEOREM PlacedOnce == Spec => []AtMostOnce
<1>1. SafetyInv => AtMostOnce
  BY DEF SafetyInv, IdInv, AtMostOnce
<1>2. QED
  BY Safe, <1>1, PTL

(* The retries of the emergency close never turn the position over.         *)
THEOREM ClosesNeverFlip == Spec => []CloseNeverFlips
<1>1. SafetyInv => CloseNeverFlips
  BY DEF SafetyInv
<1>2. QED
  BY Safe, <1>1, PTL

(* What was reported as done is done, and stays so: a cancel that was       *)
(* answered with ok left no resting order behind, a placement made exactly  *)
(* one order.                                                               *)
THEOREM DoneIsDone == Spec => []OkIsDone
<1>1. SafetyInv => OkIsDone
  BY DEF SafetyInv
<1>2. QED
  BY Safe, <1>1, PTL

(* No attempt of a call goes out before the time the exchange asked it to   *)
(* wait is over.                                                            *)
THEOREM RetryAfterKept == Spec => NotEarly
<1> DEFINE Kept == \A c \in Calls :
                     stage[c] # "out" /\ stage'[c] = "out" => banned[c] = 0
<1>1. SafetyInv /\ [Next]_vars => [Kept]_vars
  <2> SUFFICES ASSUME SafetyInv, [Next]_vars, ~UNCHANGED vars,
                      NEW c \in Calls, stage[c] # "out", stage'[c] = "out"
               PROVE  banned[c] = 0
    BY DEF Kept
  <2>1. stage[c] = "waiting" /\ timer[c] = 0
    BY OnlyAcquireSends
  <2>2. QED
    BY <2>1 DEF SafetyInv, TypeOK, BanInv, DelayTimes
<1>2. QED
  BY Safe, <1>1, PTL DEF Spec, NotEarly
=============================================================================
