----------------------------- MODULE ApiClient -----------------------------
(***************************************************************************)
(* The live side of the exchange client (src/src/hl_client.py): every      *)
(* attempt of a call takes a token from one bucket and runs in a thread,   *)
(* and the call is tried again after network errors and rate limits.       *)
(*                                                                         *)
(* The calls are those that change something on the exchange: placements   *)
(* with a client order id, cancels, which the order manager repeats, and   *)
(* the reduce-only order that closes the position in an emergency and      *)
(* carries no id.  A request whose answer was lost, or whose caller was    *)
(* cancelled, may still reach the exchange, at any later time.             *)
(*                                                                         *)
(* The metadata is fetched past all this: without a token, and without a   *)
(* second attempt.                                                         *)
(*                                                                         *)
(* A unit of tokens is what the bucket gains in one tick of the clock.     *)
(***************************************************************************)
EXTENDS Integers, Sequences, FiniteSets

CONSTANTS
    Placements, Cancels, Closes,  \* calls
    Capacity,    \* of the bucket
    Cost,        \* of one request
    MaxRetries,  \* max_retries
    Delays,      \* retry_delays_s
    RetryAfter,  \* the waiting times the exchange may ask for; 0: none
    Horizon,     \* bound on the waiting times
    MaxLate      \* bound on the requests in doubt at a time

Calls == Placements \cup Cancels \cup Closes
DelayTimes == 0 .. Horizon

ASSUME ApiClientAssumption ==
    /\ Placements \cap (Cancels \cup Closes) = {} /\ Cancels \cap Closes = {}
    /\ Cost \in Nat \ {0} /\ Capacity \in Nat /\ Cost <= Capacity
    /\ MaxRetries \in Nat
    /\ Horizon \in Nat /\ Cost <= Horizon
    /\ Delays \in Seq(DelayTimes) /\ Delays # <<>>
    /\ RetryAfter \subseteq DelayTimes
    /\ MaxLate \in Nat

VARIABLES
    tokens,    \* _tokens of the bucket, when it was last looked at
    since,     \* since then (counted up to Capacity)
    stage,     \* where each call is, or its outcome
    attempt,   \* which attempt each call is at
    timer,     \* how long each call still sleeps
    late,      \* requests nobody waits for any more
    known,     \* exchange: the client order ids it has seen
    placed,    \* exchange: how many orders it made of each placement
    targets,   \* exchange: the cancels whose order still rests
    position,  \* exchange: the position the closes are to close
    banned,    \* history: how long the exchange wants each call to wait
    meter      \* history: a leaky bucket that measures the attempts

bucket == <<tokens, since>>
calls == <<stage, attempt, timer>>
exchange == <<known, placed, targets, position>>
vars == <<bucket, calls, late, exchange, banned, meter>>

(* A refusal is an HLOrderRejectedError, a failure any other exception, the *)
(* cancellation of the caller included.                                     *)
Outcomes == {"ok", "refused", "failed"}

(* The attempts of the calls, each a request of its own.                    *)
Requests == Calls \X (0 .. MaxRetries)

TypeOK ==
    /\ tokens \in 0 .. Capacity /\ since \in 0 .. Capacity
    /\ stage \in [Calls -> {"new", "waiting", "out"} \cup Outcomes]
    /\ attempt \in [Calls -> 0 .. MaxRetries]
    /\ timer \in [Calls -> DelayTimes]
    /\ late \subseteq Requests
    /\ known \subseteq Placements
    /\ placed \in [Placements -> Nat]
    /\ targets \subseteq Cancels
    /\ position \in Int
    /\ banned \in [Calls -> DelayTimes]
    /\ meter \in Nat

Init ==
    /\ tokens = Capacity /\ since = 0
    /\ stage = [c \in Calls |-> "new"]
    /\ attempt = [c \in Calls |-> 0]
    /\ timer = [c \in Calls |-> 0]
    /\ late = {}
    /\ known = {} /\ placed = [p \in Placements |-> 0]
    /\ targets = Cancels /\ position = 1
    /\ banned = [c \in Calls |-> 0]
    /\ meter = 0

----------------------------------------------------------------------------
(* The exchange.                                                            *)

(* The client order id of a request: the retries of a placement repeat it.  *)
FreshId(r) == r
ClientId(r) == r[1]

AnySide == TRUE
ReduceOnly == position > 0

(* Would the exchange do what the request asks for?                         *)
Acceptable(r) ==
    \/ r[1] \in Placements /\ ClientId(r) \notin known
    \/ r[1] \in targets
    \/ r[1] \in Closes /\ ReduceOnly

Execute(r) ==
    /\ known' = IF r[1] \in Placements THEN known \cup {ClientId(r)} ELSE known
    /\ placed' = [p \in Placements |-> IF p = r[1] THEN placed[p] + 1
                                                   ELSE placed[p]]
    /\ targets' = targets \ {r[1]}
    /\ position' = IF r[1] \in Closes THEN position - 1 ELSE position

(* A request whose caller has gone on reaches the exchange.                 *)
LateRequest(r) ==
    /\ r \in late
    /\ late' = late \ {r}
    /\ IF Acceptable(r) THEN Execute(r) ELSE UNCHANGED exchange
    /\ UNCHANGED <<bucket, calls, banned, meter>>

(* Other orders are filled: the order of a cancel is gone, or the position  *)
(* closes by itself.                                                        *)
Fill ==
    /\ \/ \E c \in targets : targets' = targets \ {c} /\ UNCHANGED position
       \/ position > 0 /\ position' = position - 1 /\ UNCHANGED targets
    /\ UNCHANGED <<bucket, calls, late, known, placed, banned, meter>>

----------------------------------------------------------------------------
(* TokenBucket.acquire                                                      *)

Goto(c, s) == stage' = [stage EXCEPT ![c] = s]

Available == IF tokens + since < Capacity THEN tokens + since ELSE Capacity

NotLooked == since
Looked == 0

(* A call that finds too few tokens sleeps until they would be there; other *)
(* calls may have them by then.                                             *)
Acquire(c) ==
    /\ stage[c] = "waiting" /\ timer[c] = 0
    /\ since' = Looked
    /\ \/ /\ Available >= Cost
          /\ tokens' = Available - Cost
          /\ meter' = meter + Cost
          /\ Goto(c, "out")
          /\ UNCHANGED timer
       \/ /\ Available < Cost
          /\ tokens' = Available
          /\ timer' = [timer EXCEPT ![c] = Cost - Available]
          /\ UNCHANGED <<stage, meter>>
    /\ UNCHANGED <<attempt, late, exchange, banned>>

----------------------------------------------------------------------------
(* place_order, cancel_order and _call_with_retry                           *)

(* Every call needs the metadata of its symbol first.  Where that is not in *)
(* the cache the call fetches it, by a request that takes no token, and     *)
(* fails with it.  A cancel is called again as long as the order manager    *)
(* believes in the order; what an earlier call was asked to wait for does   *)
(* not hold back the new one.                                               *)
Begin(c) ==
    /\ \/ stage[c] = "new"
       \/ c \in Cancels /\ stage[c] \in Outcomes
    /\ Goto(c, "waiting") \/ Goto(c, "failed")
    /\ banned' = [banned EXCEPT ![c] = 0]
    /\ UNCHANGED <<bucket, attempt, timer, late, exchange, meter>>

End(c, outcome) ==
    /\ Goto(c, outcome)
    /\ attempt' = [attempt EXCEPT ![c] = 0]
    /\ timer' = [timer EXCEPT ![c] = 0]

(* The answer of the exchange: done, or a reason why not.  An order and a   *)
(* cancel alike can be refused for other reasons than those of Acceptable:  *)
(* an order that is not acknowledged yet is not cancelled, and goes on to   *)
(* rest.                                                                    *)
Answered(c) ==
    LET r == <<c, attempt[c]>> IN
    /\ stage[c] = "out"
    /\ \/ Acceptable(r) /\ Execute(r) /\ End(c, "ok")
       \/ \E outcome \in {"refused", "failed"} : End(c, outcome) /\ UNCHANGED exchange
    /\ UNCHANGED <<bucket, late, banned, meter>>

(* The answer is lost or not understood: the request was lost with it, or   *)
(* is on its way.                                                           *)
InDoubt(c) ==
    \/ UNCHANGED late
    \/ Cardinality(late) < MaxLate /\ late' = late \cup {<<c, attempt[c]>>}

AsAnswered == "ok"
Exhausted == "failed"

Backoff(n) == Delays[IF n < Len(Delays) THEN n + 1 ELSE Len(Delays)]

SameAttempt(c) == attempt[c]
NextAttempt(c) == attempt[c] + 1

(* After an error that may pass: again after the delay, or never.           *)
TryAgain(c, delay) ==
    \/ /\ attempt[c] < MaxRetries
       /\ attempt' = [attempt EXCEPT ![c] = NextAttempt(c)]
       /\ timer' = [timer EXCEPT ![c] = delay]
       /\ Goto(c, "waiting")
    \/ attempt[c] >= MaxRetries /\ End(c, Exhausted)

NetworkFails(c) ==
    /\ stage[c] = "out"
    /\ InDoubt(c)
    /\ TryAgain(c, Backoff(attempt[c]))
    /\ UNCHANGED <<bucket, exchange, banned, meter>>

JustBackoff(base, asked) == base
Longer(base, asked) == IF base < asked THEN asked ELSE base

RateLimited(c) ==
    /\ stage[c] = "out"
    /\ \E asked \in RetryAfter :
           /\ banned' = [banned EXCEPT ![c] = asked]
           /\ TryAgain(c, Longer(Backoff(attempt[c]), asked))
    /\ UNCHANGED <<bucket, late, exchange, meter>>

UnknownError(c) ==
    /\ stage[c] = "out"
    /\ InDoubt(c)
    /\ End(c, "failed")
    /\ UNCHANGED <<bucket, exchange, banned, meter>>

(* The caller's task is cancelled.  A request in its thread goes on.        *)
CancelCaller(c) ==
    /\ stage[c] \in {"waiting", "out"}
    /\ IF stage[c] = "out" THEN InDoubt(c) ELSE UNCHANGED late
    /\ End(c, "failed")
    /\ UNCHANGED <<bucket, exchange, banned, meter>>

----------------------------------------------------------------------------

Less(n) == IF n > 0 THEN n - 1 ELSE 0

Tick ==
    /\ since' = IF since < Capacity THEN since + 1 ELSE since
    /\ timer' = [c \in Calls |-> Less(timer[c])]
    /\ banned' = [c \in Calls |-> Less(banned[c])]
    /\ meter' = Less(meter)
    /\ UNCHANGED <<tokens, stage, attempt, late, exchange>>

Returns(c) ==
    Answered(c) \/ NetworkFails(c) \/ RateLimited(c) \/ UnknownError(c)

Next == \/ \E c \in Calls : Begin(c) \/ Acquire(c) \/ Returns(c) \/ CancelCaller(c)
        \/ \E r \in Requests : LateRequest(r)
        \/ Fill \/ Tick

Spec == Init /\ [][Next]_vars

(* Time passes, sleepers wake, and the SDK's call in the thread ends.       *)
FairSpec ==
    /\ Spec
    /\ WF_vars(Tick)
    /\ \A c \in Calls : WF_vars(Acquire(c)) /\ WF_vars(Returns(c))

----------------------------------------------------------------------------
(* Properties.                                                              *)

(* Whatever the calls do, in no stretch of t ticks do their attempts, first *)
(* ones and retries, send more requests than the bucket holds and gains in  *)
(* it: a meter that leaks a unit a tick never holds more than the bucket    *)
(* can.  It says nothing of the metadata: every call that finds none in the *)
(* cache sends a request for it (hl_client.py:545) past the bucket.         *)
Throttled == meter <= Capacity

(* However many answers are lost and however late requests arrive, the      *)
(* retries of a placement make at most one order.                           *)
AtMostOnce == \A p \in Placements : placed[p] <= 1

(* The emergency close has no client order id, so its retries can be        *)
(* executed twice: being reduce-only, they never turn the position over.    *)
CloseNeverFlips == position >= 0

(* What a call reports as done is done, once, and stays so, whatever its    *)
(* earlier attempts did or still do: the order of a cancel is off the book, *)
(* a placement has made its order.  A refusal says nothing: a cancel is     *)
(* refused while its order rests, and the retry of a placement because the  *)
(* attempt before it, whose answer was lost, has made the order.            *)
OkIsDone ==
    /\ \A c \in Cancels : stage[c] = "ok" => c \notin targets
    /\ \A p \in Placements : stage[p] = "ok" => placed[p] = 1

(* No attempt of a call goes out before the time the exchange asked that    *)
(* call for is over.                                                        *)
NotEarly ==
    [][\A c \in Calls : stage[c] # "out" /\ stage'[c] = "out"
                            => banned[c] = 0]_vars

(* A call ends, however often it fails, unless those that are called again  *)
(* and again keep being served: the bucket knows no order among the calls   *)
(* that sleep for its tokens, and one of them can be overtaken for ever.    *)
CallsEnd ==
    \A c \in Calls :
        stage[c] = "waiting" ~> \/ stage[c] \in Outcomes
                                \/ \E d \in Cancels \ {c} : stage[d] = "out"
=============================================================================
