----------------------------- MODULE MarketData -----------------------------
(***************************************************************************)
(* The market data feed (src/src/market_data.py): the task that keeps a    *)
(* WebSocket session and reconnects with back-off, the task that hands     *)
(* events to the bot's callbacks through a bounded queue, stop, and the    *)
(* kill switch of the risk manager that watches the feed's silence.        *)
(*                                                                         *)
(* Time is counted in ticks.  A tick does not pass the end of a time-out:  *)
(* the action that the time-out brings comes first.                        *)
(***************************************************************************)
EXTENDS Naturals, Sequences, FiniteSets

CONSTANTS
    Silence,      \* silence_timeout_s
    Initial,      \* initial_backoff_s
    MaxBackoff,   \* max_backoff_s
    OpenTime,     \* how long the WebSocket library tries to connect
    CloseTime,    \* how long it takes to close
    StopWait,     \* how long stop waits for the callback task
    Cap,          \* cb_queue_maxsize
    KillAfter,    \* connection_timeout_s of the risk manager
    Horizon       \* bound: ages are not told apart from here on

ASSUME MarketDataAssumption ==
    /\ {Silence, MaxBackoff, OpenTime, CloseTime, StopWait} \subseteq Nat
    /\ {Initial, Cap} \subseteq Nat \ {0}
    /\ Initial <= MaxBackoff
    /\ {KillAfter, Horizon} \subseteq Nat /\ KillAfter < Horizon

VARIABLES
    conn,      \* where the main task is
    clock,     \* how long it has been there
    backoff,   \* its local variable backoff
    known,     \* has a session begun?  (_last_message_at is not 0)
    age,       \* since _last_message_at
    quiet,     \* history: since the exchange sent anything
    queue,     \* _cb_queue
    cb,        \* the callback that runs, or where the callback task is
    stop,      \* how far stop() has come
    stopClock, \* how long it has waited for the callback task
    killed,    \* has the kill switch tripped?
    untold     \* history: a session ended with a place in the queue; as many
               \* disconnects as this must still be told until the bot has heard of it

session == <<conn, clock, backoff>>
ages == <<known, age, quiet>>
stopping == <<stop, stopClock>>
vars == <<session, ages, queue, cb, stopping, killed, untold>>

Kinds == {"book", "disconnect"}
Stopping == stop # "no"

TypeOK ==
    /\ conn \in {"opening", "up", "closing", "waiting", "ended"}
    /\ clock \in Nat
    /\ backoff \in Initial .. MaxBackoff
    /\ known \in BOOLEAN
    /\ age \in 0 .. Horizon /\ quiet \in 0 .. Horizon
    /\ queue \in Seq(Kinds \cup {"stop"}) /\ Len(queue) <= Cap
    /\ cb \in Kinds \cup {"idle", "ended"}
    /\ stop \in {"no", "main", "callbacks", "done"}
    /\ stopClock \in 0 .. StopWait
    /\ killed \in BOOLEAN
    /\ untold \in Nat

Init ==
    /\ conn = "opening" /\ clock = 0 /\ backoff = Initial
    /\ known = FALSE /\ age = 0 /\ quiet = 0
    /\ queue = <<>> /\ cb = "idle"
    /\ stop = "no" /\ stopClock = 0
    /\ killed = FALSE
    /\ untold = 0

(* put_nowait: an event that finds the queue full is dropped.               *)
Put(kind) == queue' = IF Len(queue) < Cap THEN Append(queue, kind) ELSE queue

Goto(place) == conn' = place /\ clock' = 0

----------------------------------------------------------------------------
(* _connect_loop                                                            *)

(* Connected, subscribed, and _run_session begins.                          *)
Opened ==
    /\ conn = "opening"
    /\ Goto("up")
    /\ backoff' = Initial
    /\ known' = TRUE
    /\ age' = 0
    /\ quiet' = IF known THEN quiet ELSE 0
    /\ UNCHANGED <<queue, cb, stopping, killed, untold>>

(* A subscription that cannot be sent ends the session before it begins.    *)
SubscribeFails ==
    /\ conn = "opening"
    /\ Goto("closing")
    /\ backoff' = Initial
    /\ UNCHANGED <<ages, queue, cb, stopping, killed, untold>>

AgeReset == 0
AgeAfterFailure == age

OpenFails ==
    /\ conn = "opening"
    /\ age' = AgeAfterFailure
    /\ Put("disconnect")
    /\ Goto("waiting")
    /\ UNCHANGED <<backoff, known, quiet, cb, stopping, killed, untold>>

(* A message: a book goes to the callbacks, most others go no further.      *)
Message ==
    /\ conn = "up"
    /\ clock' = 0
    /\ age' = 0 /\ quiet' = 0
    /\ Put("book") \/ UNCHANGED queue
    /\ UNCHANGED <<conn, backoff, known, cb, stopping, killed, untold>>

(* The session fails, at the latest when nothing came for Silence.          *)
SessionFails ==
    /\ conn = "up"
    /\ Goto("closing")
    /\ UNCHANGED <<backoff, ages, queue, cb, stopping, killed, untold>>

(* The disconnects before a new one.                                        *)
Disconnects == Cardinality({i \in DOMAIN queue : queue[i] = "disconnect"})

(* "finally": the socket is closed, then the bot is told.                   *)
SilentEnd == UNCHANGED queue
ToldEnd == Put("disconnect")

Closed ==
    /\ conn = "closing"
    /\ IF Stopping THEN UNCHANGED queue ELSE ToldEnd
    /\ Goto(IF Stopping THEN "ended" ELSE "waiting")
    /\ untold' = IF untold > 0 \/ Stopping \/ Len(queue) = Cap THEN untold
                 ELSE Disconnects + 1
    /\ UNCHANGED <<backoff, ages, cb, stopping, killed>>

Doubled == IF backoff * 2 < MaxBackoff THEN backoff * 2 ELSE MaxBackoff

GivesUp == "ended"
Retries == "opening"

WaitIsOver ==
    /\ conn = "waiting"
    /\ clock >= backoff
    /\ Goto(Retries)
    /\ backoff' = Doubled
    /\ UNCHANGED <<ages, queue, cb, stopping, killed, untold>>

----------------------------------------------------------------------------
(* _callback_loop                                                           *)

Dispatch ==
    /\ cb = "idle"
    /\ queue # <<>>
    /\ queue' = Tail(queue)
    /\ cb' = IF Head(queue) = "stop" THEN "ended" ELSE Head(queue)
    /\ untold' = IF Head(queue) = "disconnect" /\ untold > 0 THEN untold - 1
                 ELSE untold
    /\ UNCHANGED <<session, ages, stopping, killed>>

(* A callback returns or raises.                                            *)
CallbackEnds ==
    /\ cb \in Kinds
    /\ cb' = "idle"
    /\ UNCHANGED <<session, ages, queue, stopping, killed, untold>>

----------------------------------------------------------------------------
(* stop: the main task is cancelled, then the callback task is asked to end *)
(* and cancelled when it does not.  A session's socket is still closed.     *)

CallStop ==
    /\ stop = "no"
    /\ stop' = "main"
    /\ Goto(IF conn = "up" THEN "closing" ELSE "ended")
    /\ UNCHANGED <<backoff, ages, queue, cb, stopClock, killed, untold>>

AskCallbacks ==
    /\ stop = "main"
    /\ conn = "ended"
    /\ Put("stop")
    /\ stop' = "callbacks"
    /\ UNCHANGED <<session, ages, cb, stopClock, killed, untold>>

NeverLate == FALSE
Late == stopClock >= StopWait

Abandoned == cb
Cancelled == "ended"

StopReturns ==
    /\ stop = "callbacks"
    /\ \/ cb = "ended" /\ UNCHANGED cb
       \/ Late /\ cb' = Cancelled
    /\ stop' = "done"
    /\ UNCHANGED <<session, ages, queue, stopClock, killed, untold>>

----------------------------------------------------------------------------
(* Time, and the check of the risk manager that comes every second.         *)

Older(a) == IF a < Horizon THEN a + 1 ELSE a

(* No time-out is due.                                                      *)
Undue ==
    /\ conn = "opening" => clock < OpenTime
    /\ conn = "up" => clock < Silence
    /\ conn = "closing" => clock < CloseTime
    /\ conn = "waiting" => clock < backoff
    /\ stop = "callbacks" => ~Late

Tick ==
    /\ Undue
    /\ clock' = IF conn = "ended" THEN clock ELSE clock + 1
    /\ stopClock' = IF stop = "callbacks" /\ stopClock < StopWait
                    THEN stopClock + 1 ELSE stopClock
    /\ age' = IF known THEN Older(age) ELSE age
    /\ quiet' = IF known THEN Older(quiet) ELSE quiet
    /\ killed' = (killed \/ (known /\ ~Stopping /\ age' > KillAfter))
    /\ UNCHANGED <<conn, backoff, known, queue, cb, stop, untold>>

----------------------------------------------------------------------------

Due == \/ conn = "opening" /\ clock >= OpenTime /\ OpenFails
       \/ conn = "up" /\ clock >= Silence /\ SessionFails
       \/ Closed \/ WaitIsOver

Callbacks == Dispatch \/ CallbackEnds
Stop == AskCallbacks \/ StopReturns

Next == \/ Opened \/ SubscribeFails \/ OpenFails \/ Message \/ SessionFails
        \/ Closed \/ WaitIsOver \/ Callbacks \/ CallStop \/ Stop \/ Tick

Spec == Init /\ [][Next]_vars

(* Time passes, time-outs fire, tasks that can run are run.  A callback     *)
(* need not end, and the exchange need not accept or send anything.         *)
FairSpec ==
    /\ Spec
    /\ WF_vars(Tick) /\ WF_vars(Due) /\ WF_vars(Dispatch)
    /\ WF_vars(AskCallbacks) /\ WF_vars(StopReturns)

----------------------------------------------------------------------------
(* Properties.                                                              *)

(* When stop has returned, no callback runs and none will, although a       *)
(* callback may have hung and the queue may have had no place for the       *)
(* request to end.                                                          *)
StoppedMeansQuiet == stop = "done" => conn = "ended" /\ cb = "ended"

(* stop comes to its end whatever the callbacks do.                         *)
StopEnds == Stopping ~> stop = "done"

(* An exchange that can no longer be reached gets the bot killed: attempts  *)
(* to reconnect do not count as messages.                                   *)
OutageKills ==
    known /\ conn # "up" ~> killed \/ conn = "up" \/ Stopping

(* A session that ended is followed by another attempt to connect: neither  *)
(* its end nor the back-off ends the task.                                  *)
KeepsTrying == conn = "closing" ~> conn = "opening" \/ Stopping

(* No callback hangs: whatever runs comes to its end.                       *)
CallbacksReturn == []<>(cb \notin Kinds)

(* If no callback hangs, the bot hears of every session that ended while    *)
(* there was a place in the queue, in its turn, unless it is stopped first. *)
(* Of one that ended with the queue full it does not hear (_connect_loop    *)
(* suppresses QueueFull).                                                   *)
DisconnectTold == CallbacksReturn => (untold > 0 ~> untold = 0 \/ Stopping)

(* "connection_timeout_s: how long a WebSocket silence leads to a kill"      *)
(* (risk.py:86): a silence of that length ends or gets the bot killed.      *)
SilenceKills == quiet > KillAfter ~> quiet = 0 \/ killed \/ Stopping
=============================================================================
