------------------------------ MODULE Lifecycle ------------------------------
(***************************************************************************)
(* Pause, kill and shutdown of a running bot: the quote loop, the shutdown *)
(* watcher and the shutdown sequence of src/src/main.py, the check task of *)
(* src/src/risk.py, and the operator whose /pause, /resume and /kill the   *)
(* notifier hands to the risk manager.  It begins where start_components   *)
(* ends.                                                                   *)
(*                                                                         *)
(* They meet at three places: the flags of the risk manager, which a task  *)
(* reads before an await and relies on after it; the shutdown event; and   *)
(* the lock of the order manager, an asyncio.Lock, whose waiters go in the *)
(* order in which they came: "line" is the set of its holder and waiters,  *)
(* and the task of the line with nobody ahead of it holds the lock.        *)
(*                                                                         *)
(* The order manager is here its calls to the exchange under that lock     *)
(* (OrderManager has the rest); "book" is what the exchange holds.         *)
(***************************************************************************)
EXTENDS Naturals

CONSTANTS
    Quotes,       \* the orders the quote loop can have on the book
    Close,        \* the order of an emergency close
    Suppresses    \* can the quote engine suppress a QuoteSet?

ASSUME LifecycleAssumption ==
    /\ Close \notin Quotes
    /\ Suppresses \in BOOLEAN

VARIABLES
    pc,           \* where each task is suspended
    line,         \* the order manager's _lock: its holder and its waiters
    ahead,        \* of each task of the line, those that joined before it
    seen,         \* the open orders a cancel-all has read, per task
    todo,         \* quotes the running update has still to place
    shutdownEvent,
    killed,       \* _is_killed
    paused,       \* _is_paused
    request,      \* _kill_pending of the notifier, and whether it expired
    vol,          \* volatility, against the halt and resume thresholds
    book,         \* exchange: the bot's open orders
    open,         \* exchange: is the position open?
    closes,       \* history: emergency closes that sent their order
    failed,       \* history: a call failed, or the feed had no mid price
    signalled     \* history: a signal asked for the shutdown

flags == <<shutdownEvent, killed, paused>>
history == <<closes, failed, signalled>>
lock == <<line, ahead>>
vars == <<pc, lock, seen, todo, flags, vol, request, book, open, history>>

Killers == {"check", "operator"}
Tasks == {"main", "quoter", "watcher"} \cup Killers

Labels == {"waiting", "idle", "read", "bulk", "diff", "place", "close",
           "confirmed", "alert", "stopping", "stopRest", "closed", "exited"}

PcOf(t) ==
    CASE t = "main"    -> {"waiting", "read", "bulk", "stopping", "stopRest",
                           "closed"}
      [] t = "quoter"  -> {"idle", "read", "bulk", "diff", "place", "exited"}
      [] t = "watcher" -> {"idle", "exited"}
      [] OTHER         -> {"idle", "confirmed", "read", "bulk", "close",
                           "alert", "exited"}

TypeOK ==
    /\ pc \in [Tasks -> Labels]
    /\ \A t \in Tasks : pc[t] \in PcOf(t)
    /\ line \subseteq Tasks
    /\ ahead \in [Tasks -> SUBSET Tasks]
    /\ \A t \in Tasks : ahead[t] \subseteq line \ {t}
    /\ seen \in [Tasks -> SUBSET (Quotes \cup {Close})]
    /\ todo \subseteq Quotes
    /\ shutdownEvent \in BOOLEAN /\ killed \in BOOLEAN /\ paused \in BOOLEAN
    /\ open \in BOOLEAN /\ failed \in BOOLEAN /\ signalled \in BOOLEAN
    /\ request \in {"none", "fresh", "expired"}
    /\ vol \in {"calm", "between", "high"}
    /\ book \subseteq Quotes \cup {Close}
    /\ closes \in Nat

Init ==
    /\ pc = [t \in Tasks |-> IF t = "main" THEN "waiting" ELSE "idle"]
    /\ line = {}
    /\ ahead = [t \in Tasks |-> {}]
    /\ seen = [t \in Tasks |-> {}]
    /\ todo = {}
    /\ shutdownEvent = FALSE
    /\ killed = FALSE
    /\ paused = FALSE
    /\ request = "none"
    /\ vol = "calm"
    /\ book = {}
    /\ open \in BOOLEAN
    /\ closes = 0
    /\ failed = FALSE
    /\ signalled = FALSE

Goto(t, label) == pc' = [pc EXCEPT ![t] = label]

NeverJoins(t) == UNCHANGED lock
Join(t) ==
    /\ line' = line \cup {t}
    /\ ahead' = [ahead EXCEPT ![t] = line]

NeverLeave(ts) == UNCHANGED lock
Leave(ts) ==
    /\ line' = line \ ts
    /\ ahead' = [t \in Tasks |-> IF t \in ts THEN {} ELSE ahead[t] \ ts]

(* Nobody is ahead of the holder, nor of a suppressed update_quotes, which  *)
(* cancels without having joined.                                           *)
MayGo(t) == ahead[t] = {}

----------------------------------------------------------------------------
(* The world: volatility moves, orders fill.                                *)

VolMoves ==
    /\ vol' \in {"calm", "between", "high"} \ {vol}
    /\ UNCHANGED <<pc, lock, seen, todo, flags, request, book, open, history>>

Fills(o) ==
    /\ o \in book
    /\ book' \in {book, book \ {o}}
    /\ open' \in IF o = Close THEN {FALSE, open} ELSE BOOLEAN
    /\ UNCHANGED <<pc, lock, seen, todo, flags, vol, request, history>>

----------------------------------------------------------------------------
(* cancel_all, called by main, by the quote loop and by emergency_close: the *)
(* open orders are read and then cancelled, under the lock.                 *)

(* The end of cancel_all.  In shutdown no await separates it from the       *)
(* cancellation of the quote loop and the watcher.                          *)
EndSweep(t) ==
    IF t = "main"
    THEN /\ pc' = [pc EXCEPT !["main"] = "stopping", !["quoter"] = "exited",
                             !["watcher"] = "exited"]
         /\ Leave({"main", "quoter"})
    ELSE /\ Goto(t, IF t = "quoter" THEN "idle" ELSE "close")
         /\ Leave({t})

ReadOpen(t) ==
    /\ pc[t] = "read"
    /\ MayGo(t)
    /\ \/ /\ book # {}
          /\ seen' = [seen EXCEPT ![t] = book]
          /\ Goto(t, "bulk")
          /\ UNCHANGED <<lock, failed>>
       \/ /\ book = {}
          /\ EndSweep(t)
          /\ UNCHANGED <<seen, failed>>
       \/ /\ failed' = TRUE
          /\ EndSweep(t)
          /\ UNCHANGED seen
    /\ UNCHANGED <<todo, flags, vol, request, book, open, closes, signalled>>

BulkCancel(t) ==
    /\ pc[t] = "bulk"
    /\ \/ /\ book' = book \ seen[t]
          /\ UNCHANGED failed
       \/ /\ \E gone \in SUBSET seen[t] : book' = book \ gone
          /\ failed' = TRUE
    /\ seen' = [seen EXCEPT ![t] = {}]
    /\ EndSweep(t)
    /\ UNCHANGED <<todo, flags, vol, request, open, closes, signalled>>

----------------------------------------------------------------------------
(* quote_loop.  The flags are read, and the lock is asked for, in one step. *)

QuotesWhilePaused == ~killed
QuotesWhileKilled == ~paused
MayQuote == ~killed /\ ~paused

(* The loop's sleep ends.  The time-out can win over the shutdown event,    *)
(* but not once main has seen the event.                                    *)
QuoterTick ==
    /\ pc["quoter"] = "idle"
    /\ pc["main"] = "waiting"
    /\ IF MayQuote
       THEN \/ /\ \E qs \in SUBSET Quotes : todo' = qs
               /\ Goto("quoter", "diff")
               /\ Join("quoter")
            \/ /\ Suppresses
               /\ Goto("quoter", "read")
               /\ UNCHANGED <<todo, lock>>
       ELSE /\ Goto("quoter", "read")
            /\ Join("quoter")
            /\ UNCHANGED todo
    /\ UNCHANGED <<seen, flags, vol, request, book, open, history>>

QuoterExit ==
    /\ pc["quoter"] = "idle"
    /\ shutdownEvent
    /\ Goto("quoter", "exited")
    /\ UNCHANGED <<lock, seen, todo, flags, vol, request, book, open, history>>

(* update_quotes: the cancels, then one order at a time.                    *)
QuoterCancels ==
    /\ pc["quoter"] = "diff"
    /\ MayGo("quoter")
    /\ \E qs \in SUBSET Quotes :
          /\ book' = book \ qs
          /\ todo' = todo \ book'
    /\ Goto("quoter", "place")
    /\ UNCHANGED <<lock, seen, flags, vol, request, open, history>>

(* A placement is accepted or refused, or it fails and its request may      *)
(* still reach the exchange, now or later (ApiClient has that): once a call *)
(* has failed, no property looks at the quotes.                             *)
QuoterPlaces ==
    /\ pc["quoter"] = "place"
    /\ \E q \in todo :
          /\ todo' = todo \ {q}
          /\ book' \in {book, book \cup {q}}
    /\ failed' \in {failed, TRUE}
    /\ UNCHANGED <<pc, lock, seen, flags, vol, request, open, closes, signalled>>

(* The update is done, or an exception of the client has ended it.          *)
QuoterDone ==
    /\ pc["quoter"] = "place"
    /\ todo' = {}
    /\ Goto("quoter", "idle")
    /\ Leave({"quoter"})
    /\ UNCHANGED <<seen, flags, vol, request, book, open, history>>

----------------------------------------------------------------------------
(* The risk manager.                                                        *)

(* _set_pause: who asked for the pause makes no difference to what ends it. *)
Pause == paused' = TRUE
Unpause == paused' = FALSE

(* check_all with no kill switch tripped: the volatility halt.              *)
CheckVolatility ==
    /\ pc["check"] = "idle"
    /\ ~killed
    /\ (vol = "high" /\ Pause) \/ (vol = "calm" /\ Unpause)
    /\ UNCHANGED <<pc, lock, seen, todo, shutdownEvent, killed, vol, request, book,
                   open, history>>

KillsAgain == TRUE
NotKilled == ~killed

(* trigger_kill, from check_all (any of its switches) or from a confirmed   *)
(* /kill, as far as the cancel_all of emergency_close.                      *)
TriggerKill(k) ==
    /\ pc[k] = IF k = "operator" THEN "confirmed" ELSE "idle"
    /\ NotKilled
    /\ killed' = TRUE
    /\ Goto(k, "read")
    /\ Join(k)
    /\ UNCHANGED <<seen, todo, shutdownEvent, paused, vol, request, book,
                   open, history>>

(* The order that closes the position is a Gtc limit order through the      *)
(* book: it fills, it rests, or the call fails.  A retry whose first        *)
(* attempt was executed finds nothing left to reduce.                       *)
SendClose(k) ==
    /\ pc[k] = "close"
    /\ \/ /\ ~open
          /\ UNCHANGED <<book, open, closes, failed>>
       \/ /\ open
          /\ closes' = closes + 1
          /\ \/ open' = FALSE /\ UNCHANGED book
             \/ book' = book \cup {Close} /\ UNCHANGED open
          /\ UNCHANGED failed
       \/ /\ open
          /\ failed' = TRUE
          /\ book' \in {book, book \cup {Close}}
          /\ open' \in BOOLEAN
          /\ UNCHANGED closes
    /\ Goto(k, "alert")
    /\ UNCHANGED <<lock, seen, todo, flags, vol, request, signalled>>

(* _on_risk_kill: the alert is sent, then the shutdown event is set.        *)
KillAlerted(k) ==
    /\ pc[k] = "alert"
    /\ shutdownEvent' = TRUE
    /\ Goto(k, "exited")
    /\ UNCHANGED <<lock, seen, todo, killed, paused, vol, request, book, open,
                   history>>

----------------------------------------------------------------------------
(* The notifier's commands, handled one after the other.                    *)

Listens == pc["operator"] = "idle" /\ pc["main"] # "closed"

PauseCommand ==
    /\ Listens
    /\ Pause
    /\ UNCHANGED <<pc, lock, seen, todo, shutdownEvent, killed, vol, request, book,
                   open, history>>

ResumeCommand ==
    /\ Listens
    /\ Unpause
    /\ UNCHANGED <<pc, lock, seen, todo, shutdownEvent, killed, vol, request, book,
                   open, history>>

(* /kill asks for a confirmation, which is good for a while.                *)
KillCommand ==
    /\ Listens
    /\ request' = "fresh"
    /\ UNCHANGED <<pc, lock, seen, todo, flags, vol, book, open, history>>

RequestExpires ==
    /\ request = "fresh"
    /\ request' = "expired"
    /\ UNCHANGED <<pc, lock, seen, todo, flags, vol, book, open, history>>

(* The confirmation uses the request up; one in time is answered, and the   *)
(* kill follows the answer.                                                 *)
Confirm ==
    /\ Listens
    /\ request' = "none"
    /\ IF request = "fresh" THEN Goto("operator", "confirmed") ELSE UNCHANGED pc
    /\ UNCHANGED <<lock, seen, todo, flags, vol, book, open, history>>

(* The bot was killed before the answer was out.                            *)
KilledAlready ==
    /\ pc["operator"] = "confirmed"
    /\ ~NotKilled
    /\ Goto("operator", "idle")
    /\ UNCHANGED <<lock, seen, todo, flags, vol, request, book, open, history>>

----------------------------------------------------------------------------
(* main.                                                                    *)

Signal ==
    /\ ~shutdownEvent
    /\ shutdownEvent' = TRUE
    /\ signalled' = TRUE
    /\ UNCHANGED <<pc, lock, seen, todo, killed, paused, vol, request, book,
                   open, closes, failed>>

(* _shutdown_watcher polls the flag, not the end of the emergency close.    *)
WatcherTick ==
    /\ pc["watcher"] = "idle"
    /\ killed \/ shutdownEvent
    /\ shutdownEvent' = TRUE
    /\ Goto("watcher", "exited")
    /\ UNCHANGED <<lock, seen, todo, killed, paused, vol, request, book, open,
                   history>>

ShutdownBegins ==
    /\ pc["main"] = "waiting"
    /\ shutdownEvent
    /\ Goto("main", "read")
    /\ Join("main")
    /\ UNCHANGED <<seen, todo, flags, vol, request, book, open, history>>

(* risk_manager.stop cancels the check task wherever it is suspended; a lock *)
(* it holds or waits for goes with it.                                      *)
StopRisk ==
    /\ pc["main"] = "stopping"
    /\ pc' = [pc EXCEPT !["main"] = "stopRest", !["check"] = "exited"]
    /\ Leave({"check"})
    /\ seen' = [seen EXCEPT !["check"] = {}]
    /\ UNCHANGED <<todo, flags, vol, request, book, open, history>>

NotAwaited == TRUE
CommandHandled == pc["operator"] \in {"idle", "exited"}

(* notifier.stop lets the command being handled end; state_store.close.     *)
StopRest ==
    /\ pc["main"] = "stopRest"
    /\ CommandHandled
    /\ pc' = [pc EXCEPT !["main"] = "closed", !["operator"] = "exited"]
    /\ UNCHANGED <<lock, seen, todo, flags, vol, request, book, open, history>>

----------------------------------------------------------------------------

World == VolMoves \/ \E o \in Quotes \cup {Close} : Fills(o)
Sweep(t) == ReadOpen(t) \/ BulkCancel(t)
Quoter == \/ QuoterTick \/ QuoterExit \/ QuoterCancels
          \/ QuoterPlaces \/ QuoterDone \/ Sweep("quoter")
Killing(k) == Sweep(k) \/ SendClose(k) \/ KillAlerted(k)
Operator == \/ PauseCommand \/ ResumeCommand
            \/ KillCommand \/ RequestExpires \/ Confirm \/ KilledAlready
Risk == \/ CheckVolatility
        \/ \E k \in Killers : TriggerKill(k) \/ Killing(k)
Main == ShutdownBegins \/ Sweep("main") \/ StopRisk \/ StopRest

(* The bot has come to its end.                                             *)
Ended == pc["main"] = "closed" /\ UNCHANGED vars

Next == World \/ Quoter \/ Risk \/ Operator \/ Main \/ Signal \/ WatcherTick \/ Ended

Spec == Init /\ [][Next]_vars

(* API calls end, timers fire and a task that can run is run.  notifier.stop *)
(* ends the polling for commands, so those before its end are finitely many: *)
(* strong fairness of StopRest.  Nothing is owed by the market, the operator *)
(* or the kill switches.                                                     *)
Fairness ==
    /\ WF_vars(Quoter)
    /\ WF_vars(Main) /\ SF_vars(StopRest)
    /\ WF_vars(WatcherTick)
    /\ \A k \in Killers : WF_vars(Killing(k))
    /\ WF_vars(TriggerKill("operator") \/ KilledAlready)

FairSpec == Spec /\ Fairness

----------------------------------------------------------------------------
(* Properties.                                                              *)

(* Once the cancel_all of an emergency close has ended, no quote is on the  *)
(* book and none comes, although an update that read "not killed" may have  *)
(* been waiting for the lock: it was in the line first.                     *)
QuietAfterKill ==
    \A k \in Killers :
        pc[k] \in {"close", "alert"} /\ ~failed => book \cap Quotes = {}

(* Two kill switches, or a switch and the operator, do not both send an     *)
(* order that closes the position.                                          *)
ClosedOnce == closes <= 1

(* After a shutdown whose calls succeeded no quote of the bot is left on    *)
(* the exchange, whatever the quote loop was doing when it began.           *)
ShutdownLeavesNoQuotes ==
    pc["main"] = "closed" /\ ~failed => book \cap Quotes = {}

(* A kill ends the bot: the emergency close, its alert and the shutdown do  *)
(* not block each other on the order manager's lock.                        *)
KillEndsBot == killed ~> pc["main"] = "closed"

(* A kill the operator confirmed in time happens, though a shutdown may be  *)
(* under way while the confirmation is being answered.                      *)
ConfirmedKills == pc["operator"] = "confirmed" ~> killed

(* A pause takes the quotes off the book, unless it is lifted or the bot is *)
(* killed, shut down or fails to reach the exchange first.                  *)
PauseClears ==
    paused ~> \/ book \cap Quotes = {}
              \/ ~paused \/ killed \/ shutdownEvent \/ failed

(* "A kill triggers emergency_close, which cancels all orders and closes    *)
(* the position" (risk.py:3-5): a bot that went down for the kill alone, no *)
(* signal having asked it to, has tried to close an open position before it *)
(* is gone.                                                                 *)
KillCloses ==
    pc["main"] = "closed" /\ killed /\ ~signalled => closes > 0 \/ ~open \/ failed
=============================================================================
