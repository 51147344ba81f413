-------------------------- MODULE LifecycleProofs --------------------------
(* Theorems about Lifecycle, for every set of quotes.                       *)
EXTENDS Lifecycle, TLAPS

USE LifecycleAssumption DEF LifecycleAssumption

Updating == pc["quoter"] \in {"diff", "place"}
QuotesOnBook == book \cap Quotes

(* The line: a task in the middle of its calls has joined, and nobody is    *)
(* ahead of it once its first call is out.                                  *)
LineInv ==
    /\ \A t \in Tasks : pc[t] \in {"bulk", "place"} => ahead[t] = {}
    /\ \A t \in Tasks : pc[t] \in {"idle", "waiting", "confirmed"} => t \notin line
    /\ \A t \in Tasks : t \notin line => ahead[t] = {}
    /\ Updating => "quoter" \in line

(* A killer that has still to sweep has every running update ahead of it in *)
(* the line, so that none is left when its turn comes; what it read covers  *)
(* every quote on the book, and after its sweep there is none.              *)
KillInv ==
    \A k \in Killers :
        /\ pc[k] \in {"read", "bulk", "close", "alert"} => killed
        /\ pc[k] \in {"read", "bulk"} /\ Updating => "quoter" \in ahead[k]
        /\ pc[k] = "bulk" => QuotesOnBook \subseteq seen[k]
        /\ pc[k] \in {"close", "alert"}
              => ~Updating /\ (failed \/ QuotesOnBook = {})

(* The same of the sweep of a shutdown, which takes the quote loop with it. *)
ShutdownInv ==
    /\ pc["main"] \in {"read", "bulk"} /\ Updating => "quoter" \in ahead["main"]
    /\ pc["main"] = "bulk" => QuotesOnBook \subseteq seen["main"]
    /\ pc["main"] \in {"stopping", "stopRest", "closed"}
          => pc["quoter"] = "exited" /\ (failed \/ QuotesOnBook = {})

SafetyInv == TypeOK /\ LineInv /\ KillInv /\ ShutdownInv

(* Of the killers only the first goes on to close the position, as the flag *)
(* is set for good before anything is awaited; when its order is out, none  *)
(* is left that could send another.                                         *)
Closing(k) == pc[k] \in {"read", "bulk", "close"}
CloseInv ==
    /\ \A k \in Killers : Closing(k) => killed /\ closes = 0
    /\ \A j, k \in Killers : Closing(j) /\ Closing(k) => j = k
    /\ closes > 0 => killed
    /\ closes <= 1

----------------------------------------------------------------------------
LEMMA InitSafety == Init => SafetyInv
<1> SUFFICES ASSUME Init PROVE SafetyInv
  OBVIOUS
<1>1. \A t \in Tasks : /\ pc[t] \in PcOf(t) \cap Labels
                       /\ pc[t] \in {"waiting", "idle"}
                       /\ t \in Killers \cup {"quoter"} => pc[t] = "idle"
                       /\ t = "main" => pc[t] = "waiting"
  BY DEF Init, Tasks, Killers, Labels, PcOf
<1>2. TypeOK
  BY <1>1 DEF Init, TypeOK, Tasks
<1>3. LineInv
  BY <1>1 DEF Init, LineInv, Updating, Tasks
<1>4. KillInv
  BY <1>1 DEF KillInv, Killers, Tasks
<1>5. ShutdownInv
  BY <1>1 DEF ShutdownInv, Tasks
<1>6. QED
  BY <1>2, <1>3, <1>4, <1>5 DEF SafetyInv

LEMMA EndSweepType ==
    ASSUME TypeOK, NEW t \in Tasks \ {"watcher"}, EndSweep(t)
    PROVE  /\ pc' \in [Tasks -> Labels]
           /\ \A u \in Tasks : pc'[u] \in PcOf(u)
           /\ line' \subseteq Tasks
           /\ ahead' \in [Tasks -> SUBSET Tasks]
           /\ \A u \in Tasks : ahead'[u] \subseteq line' \ {u}
<1>1. CASE t = "main"
  BY <1>1 DEF EndSweep, Leave, TypeOK, Tasks, Killers, Labels, PcOf
<1>2. CASE t # "main"
  BY <1>2 DEF EndSweep, Leave, Goto, TypeOK, Tasks, Killers, Labels, PcOf
<1>3. QED
  BY <1>1, <1>2

LEMMA TypeStep ==
    ASSUME TypeOK, LineInv, [Next]_vars
    PROVE  TypeOK'
<1>1. ASSUME VolMoves
      PROVE  TypeOK'
  BY <1>1 DEF TypeOK, Tasks, Killers, VolMoves, lock, flags, history
<1>2. ASSUME NEW o \in Quotes \cup {Close}, Fills(o)
      PROVE  TypeOK'
  BY <1>2 DEF TypeOK, Tasks, Killers, Fills, lock, flags, history
<1>3. ASSUME NEW t \in Tasks \ {"watcher"}, ReadOpen(t)
      PROVE  TypeOK'
  <2>1. seen' \in [Tasks -> SUBSET (Quotes \cup {Close})]
    BY <1>3 DEF TypeOK, ReadOpen
  <2>2. failed' \in BOOLEAN
    BY <1>3 DEF TypeOK, ReadOpen
  <2>3. CASE EndSweep(t)
    BY <2>1, <2>2, <2>3, <1>3, EndSweepType DEF TypeOK, ReadOpen, flags
  <2>4. CASE Goto(t, "bulk") /\ UNCHANGED lock
    <3>1. pc' \in [Tasks -> Labels] /\ \A u \in Tasks : pc'[u] \in PcOf(u)
      BY <2>4 DEF TypeOK, Goto, Tasks, Killers, Labels, PcOf
    <3>2. QED
      BY <2>1, <2>2, <2>4, <3>1, <1>3 DEF TypeOK, ReadOpen, lock, flags
  <2>5. QED
    BY <2>3, <2>4, <1>3 DEF ReadOpen, lock
<1>4. ASSUME NEW t \in Tasks \ {"watcher"}, BulkCancel(t)
      PROVE  TypeOK'
  <2>1. EndSweep(t)
    BY <1>4 DEF BulkCancel
  <2>2. seen' \in [Tasks -> SUBSET (Quotes \cup {Close})] /\ failed' \in BOOLEAN
    BY <1>4 DEF TypeOK, BulkCancel
  <2>3. QED
    BY <2>1, <2>2, <1>4, EndSweepType DEF TypeOK, BulkCancel, flags
<1>5. ASSUME QuoterTick
      PROVE  TypeOK'
  BY <1>5 DEF TypeOK, Tasks, Killers, Labels, PcOf, QuoterTick, MayQuote,
              Join, Goto, lock, flags, history, LineInv
<1>6. ASSUME QuoterExit
      PROVE  TypeOK'
  BY <1>6 DEF TypeOK, Tasks, Killers, Labels, PcOf, QuoterExit, Goto, lock,
              flags, history
<1>7. ASSUME QuoterCancels
      PROVE  TypeOK'
  BY <1>7 DEF TypeOK, Tasks, Killers, Labels, PcOf, QuoterCancels, MayGo,
              Goto, lock, flags, history
<1>8. ASSUME QuoterPlaces
      PROVE  TypeOK'
  <2>1. PICK q \in todo : todo' = todo \ {q} /\ book' \in {book, book \cup {q}}
    BY <1>8 DEF QuoterPlaces
  <2>2. todo' \subseteq Quotes /\ book' \subseteq Quotes \cup {Close}
    BY <2>1 DEF TypeOK
  <2>3. failed' \in BOOLEAN
    BY <1>8 DEF TypeOK, QuoterPlaces
  <2>4. UNCHANGED <<pc, line, ahead, seen, shutdownEvent, killed, paused, vol,
                    request, open, closes, signalled>>
    BY <1>8 DEF QuoterPlaces, lock, flags
  <2>5. QED
    BY <2>2, <2>3, <2>4 DEF TypeOK
<1>9. ASSUME QuoterDone
      PROVE  TypeOK'
  BY <1>9 DEF TypeOK, Tasks, Killers, Labels, PcOf, QuoterDone, Leave, Goto,
              flags, history
<1>10. ASSUME CheckVolatility
      PROVE  TypeOK'
  BY <1>10 DEF TypeOK, Tasks, Killers, CheckVolatility, Pause, Unpause, lock,
               history
<1>11. ASSUME NEW k \in Killers, TriggerKill(k)
      PROVE  TypeOK'
  BY <1>11 DEF TypeOK, Tasks, Killers, Labels, PcOf, TriggerKill, NotKilled,
               Join, Goto, history, LineInv
<1>12. ASSUME NEW k \in Killers, SendClose(k)
      PROVE  TypeOK'
  <2>1. pc' \in [Tasks -> Labels] /\ \A u \in Tasks : pc'[u] \in PcOf(u)
    BY <1>12 DEF TypeOK, SendClose, Goto, Tasks, Killers, Labels, PcOf
  <2>2. closes' \in {closes, closes + 1} /\ book' \in {book, book \cup {Close}}
    BY <1>12 DEF SendClose
  <2>3. closes' \in Nat
    BY <2>2 DEF TypeOK
  <2>4. book' \subseteq Quotes \cup {Close}
    BY <2>2 DEF TypeOK
  <2>5. open' \in BOOLEAN
    BY <1>12 DEF TypeOK, SendClose
  <2>6. failed' \in BOOLEAN
    BY <1>12 DEF TypeOK, SendClose
  <2>7. QED
    BY <2>1, <2>3, <2>4, <2>5, <2>6, <1>12 DEF TypeOK, SendClose, lock, flags
<1>13. ASSUME NEW k \in Killers, KillAlerted(k)
      PROVE  TypeOK'
  BY <1>13 DEF TypeOK, Tasks, Killers, Labels, PcOf, KillAlerted, Goto, lock,
               history
<1>14. ASSUME PauseCommand
      PROVE  TypeOK'
  BY <1>14 DEF TypeOK, Tasks, Killers, PauseCommand, Pause, lock, history
<1>15. ASSUME ResumeCommand
      PROVE  TypeOK'
  BY <1>15 DEF TypeOK, Tasks, Killers, ResumeCommand, Unpause, lock, history
<1>16. ASSUME ShutdownBegins
      PROVE  TypeOK'
  BY <1>16 DEF TypeOK, Tasks, Killers, Labels, PcOf, ShutdownBegins, Join,
               Goto, flags, history, LineInv
<1>17. ASSUME StopRisk
      PROVE  TypeOK'
  BY <1>17 DEF TypeOK, Tasks, Killers, Labels, PcOf, StopRisk, Leave, flags,
               history
<1>18. ASSUME StopRest
      PROVE  TypeOK'
  BY <1>18 DEF TypeOK, Tasks, Killers, Labels, PcOf, StopRest, lock, flags,
               history
<1>19. ASSUME Signal
      PROVE  TypeOK'
  BY <1>19 DEF TypeOK, Tasks, Killers, Signal, lock, history
<1>20. ASSUME WatcherTick
      PROVE  TypeOK'
  BY <1>20 DEF TypeOK, Tasks, Killers, Labels, PcOf, WatcherTick, Goto, lock,
               history
<1>21. ASSUME KillCommand
      PROVE  TypeOK'
  BY <1>21 DEF TypeOK, Tasks, Killers, Labels, PcOf, KillCommand, Listens,
               lock, flags, history
<1>22. ASSUME RequestExpires
      PROVE  TypeOK'
  BY <1>22 DEF TypeOK, Tasks, Killers, Labels, PcOf, RequestExpires,
               lock, flags, history
<1>23. ASSUME Confirm
      PROVE  TypeOK'
  BY <1>23 DEF TypeOK, Tasks, Killers, Labels, PcOf, Confirm, Listens, Goto,
               lock, flags, history
<1>24. ASSUME KilledAlready
      PROVE  TypeOK'
  BY <1>24 DEF TypeOK, Tasks, Killers, Labels, PcOf, KilledAlready, Goto,
               lock, flags, history
<1>25. CASE UNCHANGED vars
  BY <1>25 DEF TypeOK, Tasks, Killers, vars, lock, flags, history
<1>26. QED
  BY <1>1, <1>2, <1>3, <1>4, <1>5, <1>6, <1>7, <1>8, <1>9, <1>10,
                <1>11, <1>12, <1>13, <1>14, <1>15, <1>16, <1>17, <1>18, <1>19,
                <1>20, <1>21, <1>22, <1>23, <1>24, <1>25
     DEF Next, World, Quoter, Sweep, Risk, Operator, Killing, Main, Ended,
         Tasks, Killers

LEMMA LineStep ==
    ASSUME TypeOK, LineInv, [Next]_vars
    PROVE  LineInv'
<1>1. ASSUME VolMoves
      PROVE  LineInv'
  BY <1>1 DEF TypeOK, Tasks, Killers, LineInv, Updating, VolMoves, lock,
              flags, history
<1>2. ASSUME NEW o \in Quotes \cup {Close}, Fills(o)
      PROVE  LineInv'
  BY <1>2 DEF TypeOK, Tasks, Killers, LineInv, Updating, Fills, lock, flags,
              history
<1>3. ASSUME NEW t \in Tasks \ {"watcher"}, ReadOpen(t)
      PROVE  LineInv'
  BY <1>3 DEF TypeOK, Tasks, Killers, LineInv, Updating, ReadOpen, EndSweep,
              Leave, MayGo, Goto, lock, flags
<1>4. ASSUME NEW t \in Tasks \ {"watcher"}, BulkCancel(t)
      PROVE  LineInv'
  BY <1>4 DEF TypeOK, Tasks, Killers, LineInv, Updating, BulkCancel, EndSweep,
              Leave, MayGo, Goto, flags
<1>5. ASSUME QuoterTick
      PROVE  LineInv'
  BY <1>5 DEF TypeOK, Tasks, Killers, LineInv, Updating, QuoterTick, MayQuote,
              Join, Goto, lock, flags, history
<1>6. ASSUME QuoterExit
      PROVE  LineInv'
  BY <1>6 DEF TypeOK, Tasks, Killers, LineInv, Updating, QuoterExit, Goto,
              lock, flags, history
<1>7. ASSUME QuoterCancels
      PROVE  LineInv'
  BY <1>7 DEF TypeOK, Tasks, Killers, LineInv, Updating, QuoterCancels, MayGo,
              Goto, lock, flags, history
<1>8. ASSUME QuoterPlaces
      PROVE  LineInv'
  BY <1>8 DEF TypeOK, Tasks, Killers, LineInv, Updating, QuoterPlaces, lock,
              flags, history
<1>9. ASSUME QuoterDone
      PROVE  LineInv'
  BY <1>9 DEF TypeOK, Tasks, Killers, LineInv, Updating, QuoterDone, Leave,
              Goto, flags, history
<1>10. ASSUME CheckVolatility
      PROVE  LineInv'
  BY <1>10 DEF TypeOK, Tasks, Killers, LineInv, Updating, CheckVolatility,
               Pause, Unpause, lock, history
<1>11. ASSUME NEW k \in Killers, TriggerKill(k)
      PROVE  LineInv'
  BY <1>11 DEF TypeOK, Tasks, Killers, LineInv, Updating, TriggerKill,
               NotKilled, Join, Goto, history
<1>12. ASSUME NEW k \in Killers, SendClose(k)
      PROVE  LineInv'
  BY <1>12 DEF TypeOK, Tasks, Killers, LineInv, Updating, SendClose, Goto,
               lock, flags
<1>13. ASSUME NEW k \in Killers, KillAlerted(k)
      PROVE  LineInv'
  BY <1>13 DEF TypeOK, Tasks, Killers, LineInv, Updating, KillAlerted, Goto,
               lock, history
<1>14. ASSUME PauseCommand
      PROVE  LineInv'
  BY <1>14 DEF TypeOK, Tasks, Killers, LineInv, Updating, PauseCommand, Pause,
               lock
<1>15. ASSUME ResumeCommand
      PROVE  LineInv'
  BY <1>15 DEF TypeOK, Tasks, Killers, LineInv, Updating, ResumeCommand,
               Unpause, lock
<1>16. ASSUME ShutdownBegins
      PROVE  LineInv'
  BY <1>16 DEF TypeOK, Tasks, Killers, LineInv, Updating, ShutdownBegins,
               Join, Goto, flags, history
<1>17. ASSUME StopRisk
      PROVE  LineInv'
  BY <1>17 DEF TypeOK, Tasks, Killers, LineInv, Updating, StopRisk, Leave,
               flags, history
<1>18. ASSUME StopRest
      PROVE  LineInv'
  BY <1>18 DEF TypeOK, Tasks, Killers, LineInv, Updating, StopRest, lock,
               flags, history
<1>19. ASSUME Signal
      PROVE  LineInv'
  BY <1>19 DEF TypeOK, Tasks, Killers, LineInv, Updating, Signal, lock,
               history
<1>20. ASSUME WatcherTick
      PROVE  LineInv'
  BY <1>20 DEF TypeOK, Tasks, Killers, LineInv, Updating, WatcherTick, Goto,
               lock, history
<1>21. ASSUME KillCommand
      PROVE  LineInv'
  BY <1>21 DEF TypeOK, Tasks, Killers, LineInv, Updating, KillCommand, Listens,
               lock, flags, history
<1>22. ASSUME RequestExpires
      PROVE  LineInv'
  BY <1>22 DEF TypeOK, Tasks, Killers, LineInv, Updating, RequestExpires,
               lock, flags, history
<1>23. ASSUME Confirm
      PROVE  LineInv'
  BY <1>23 DEF TypeOK, Tasks, Killers, LineInv, Updating, Confirm, Listens, Goto,
               lock, flags, history
<1>24. ASSUME KilledAlready
      PROVE  LineInv'
  BY <1>24 DEF TypeOK, Tasks, Killers, LineInv, Updating, KilledAlready, Goto,
               lock, flags, history
<1>25. CASE UNCHANGED vars
  BY <1>25 DEF TypeOK, Tasks, Killers, LineInv, Updating, vars, lock, flags,
               history
<1>26. QED
  BY <1>1, <1>2, <1>3, <1>4, <1>5, <1>6, <1>7, <1>8, <1>9, <1>10,
                <1>11, <1>12, <1>13, <1>14, <1>15, <1>16, <1>17, <1>18, <1>19,
                <1>20, <1>21, <1>22, <1>23, <1>24, <1>25
     DEF Next, World, Quoter, Sweep, Risk, Operator, Killing, Main, Ended,
         Tasks, Killers

LEMMA KillStep ==
    ASSUME TypeOK, LineInv, KillInv, [Next]_vars
    PROVE  KillInv'
<1>1. ASSUME VolMoves
      PROVE  KillInv'
  BY <1>1 DEF TypeOK, Tasks, Killers, LineInv, KillInv, Updating,
              QuotesOnBook, VolMoves, lock, flags, history
<1>2. ASSUME NEW o \in Quotes \cup {Close}, Fills(o)
      PROVE  KillInv'
  BY <1>2 DEF TypeOK, Tasks, Killers, LineInv, KillInv, Updating,
              QuotesOnBook, Fills, lock, flags, history
<1>3. ASSUME NEW t \in Tasks \ {"watcher"}, ReadOpen(t)
      PROVE  KillInv'
  BY <1>3 DEF TypeOK, Tasks, Killers, LineInv, KillInv, Updating,
              QuotesOnBook, ReadOpen, EndSweep, Leave, MayGo, Goto, lock,
              flags
<1>4. ASSUME NEW t \in Tasks \ {"watcher"}, BulkCancel(t)
      PROVE  KillInv'
  BY <1>4 DEF TypeOK, Tasks, Killers, LineInv, KillInv, Updating,
              QuotesOnBook, BulkCancel, EndSweep, Leave, MayGo, Goto, flags
<1>5. ASSUME QuoterTick
      PROVE  KillInv'
  BY <1>5 DEF TypeOK, Tasks, Killers, LineInv, KillInv, Updating,
              QuotesOnBook, QuoterTick, MayQuote, Join, Goto, lock, flags,
              history
<1>6. ASSUME QuoterExit
      PROVE  KillInv'
  BY <1>6 DEF TypeOK, Tasks, Killers, LineInv, KillInv, Updating,
              QuotesOnBook, QuoterExit, Goto, lock, flags, history
<1>7. ASSUME QuoterCancels
      PROVE  KillInv'
  BY <1>7 DEF TypeOK, Tasks, Killers, LineInv, KillInv, Updating,
              QuotesOnBook, QuoterCancels, MayGo, Goto, lock, flags, history
<1>8. ASSUME QuoterPlaces
      PROVE  KillInv'
  BY <1>8 DEF TypeOK, Tasks, Killers, LineInv, KillInv, Updating,
              QuotesOnBook, QuoterPlaces, lock, flags, history
<1>9. ASSUME QuoterDone
      PROVE  KillInv'
  BY <1>9 DEF TypeOK, Tasks, Killers, LineInv, KillInv, Updating,
              QuotesOnBook, QuoterDone, Leave, Goto, flags, history
<1>10. ASSUME CheckVolatility
      PROVE  KillInv'
  BY <1>10 DEF TypeOK, Tasks, Killers, LineInv, KillInv, Updating,
               QuotesOnBook, CheckVolatility, Pause, Unpause, lock,
               history
<1>11. ASSUME NEW k \in Killers, TriggerKill(k)
      PROVE  KillInv'
  BY <1>11 DEF TypeOK, Tasks, Killers, LineInv, KillInv, Updating,
               QuotesOnBook, TriggerKill, NotKilled, Join, Goto, history
<1>12. ASSUME NEW k \in Killers, SendClose(k)
      PROVE  KillInv'
  BY <1>12 DEF TypeOK, Tasks, Killers, LineInv, KillInv, Updating,
               QuotesOnBook, SendClose, Goto, lock, flags
<1>13. ASSUME NEW k \in Killers, KillAlerted(k)
      PROVE  KillInv'
  BY <1>13 DEF TypeOK, Tasks, Killers, LineInv, KillInv, Updating,
               QuotesOnBook, KillAlerted, Goto, lock, history
<1>14. ASSUME PauseCommand
      PROVE  KillInv'
  BY <1>14 DEF TypeOK, Tasks, Killers, LineInv, KillInv, Updating,
               QuotesOnBook, PauseCommand, Pause, lock, history
<1>15. ASSUME ResumeCommand
      PROVE  KillInv'
  BY <1>15 DEF TypeOK, Tasks, Killers, LineInv, KillInv, Updating,
               QuotesOnBook, ResumeCommand, Unpause, lock, history
<1>16. ASSUME ShutdownBegins
      PROVE  KillInv'
  BY <1>16 DEF TypeOK, Tasks, Killers, LineInv, KillInv, Updating,
               QuotesOnBook, ShutdownBegins, Join, Goto, flags, history
<1>17. ASSUME StopRisk
      PROVE  KillInv'
  BY <1>17 DEF TypeOK, Tasks, Killers, LineInv, KillInv, Updating,
               QuotesOnBook, StopRisk, Leave, flags, history
<1>18. ASSUME StopRest
      PROVE  KillInv'
  BY <1>18 DEF TypeOK, Tasks, Killers, LineInv, KillInv, Updating,
               QuotesOnBook, StopRest, lock, flags, history
<1>19. ASSUME Signal
      PROVE  KillInv'
  BY <1>19 DEF TypeOK, Tasks, Killers, LineInv, KillInv, Updating,
               QuotesOnBook, Signal, lock, history
<1>20. ASSUME WatcherTick
      PROVE  KillInv'
  BY <1>20 DEF TypeOK, Tasks, Killers, LineInv, KillInv, Updating,
               QuotesOnBook, WatcherTick, Goto, lock, history
<1>21. ASSUME KillCommand
      PROVE  KillInv'
  BY <1>21 DEF TypeOK, Tasks, Killers, LineInv, KillInv, Updating,
               QuotesOnBook, KillCommand, Listens,
               lock, flags, history
<1>22. ASSUME RequestExpires
      PROVE  KillInv'
  BY <1>22 DEF TypeOK, Tasks, Killers, LineInv, KillInv, Updating,
               QuotesOnBook, RequestExpires,
               lock, flags, history
<1>23. ASSUME Confirm
      PROVE  KillInv'
  BY <1>23 DEF TypeOK, Tasks, Killers, LineInv, KillInv, Updating,
               QuotesOnBook, Confirm, Listens, Goto,
               lock, flags, history
<1>24. ASSUME KilledAlready
      PROVE  KillInv'
  BY <1>24 DEF TypeOK, Tasks, Killers, LineInv, KillInv, Updating,
               QuotesOnBook, KilledAlready, Goto,
               lock, flags, history
<1>25. CASE UNCHANGED vars
  BY <1>25 DEF TypeOK, Tasks, Killers, LineInv, KillInv, Updating,
               QuotesOnBook, vars, lock, flags, history
<1>26. QED
  BY <1>1, <1>2, <1>3, <1>4, <1>5, <1>6, <1>7, <1>8, <1>9, <1>10,
                <1>11, <1>12, <1>13, <1>14, <1>15, <1>16, <1>17, <1>18, <1>19,
                <1>20, <1>21, <1>22, <1>23, <1>24, <1>25
     DEF Next, World, Quoter, Sweep, Risk, Operator, Killing, Main, Ended,
         Tasks, Killers

LEMMA CloseStep ==
    ASSUME TypeOK, CloseInv, [Next]_vars
    PROVE  CloseInv'
<1>1. ASSUME VolMoves
      PROVE  CloseInv'
  BY <1>1 DEF TypeOK, Tasks, Killers, CloseInv, Closing, VolMoves, lock,
              flags, history
<1>2. ASSUME NEW o \in Quotes \cup {Close}, Fills(o)
      PROVE  CloseInv'
  BY <1>2 DEF TypeOK, Tasks, Killers, CloseInv, Closing, Fills, lock, flags,
              history
<1>3. ASSUME NEW t \in Tasks \ {"watcher"}, ReadOpen(t)
      PROVE  CloseInv'
  BY <1>3 DEF TypeOK, Tasks, Killers, CloseInv, Closing, ReadOpen, EndSweep,
              Leave, MayGo, Goto, lock, flags
<1>4. ASSUME NEW t \in Tasks \ {"watcher"}, BulkCancel(t)
      PROVE  CloseInv'
  BY <1>4 DEF TypeOK, Tasks, Killers, CloseInv, Closing, BulkCancel, EndSweep,
              Leave, MayGo, Goto, flags
<1>5. ASSUME QuoterTick
      PROVE  CloseInv'
  BY <1>5 DEF TypeOK, Tasks, Killers, CloseInv, Closing, QuoterTick, MayQuote,
              Join, Goto, lock, flags, history
<1>6. ASSUME QuoterExit
      PROVE  CloseInv'
  BY <1>6 DEF TypeOK, Tasks, Killers, CloseInv, Closing, QuoterExit, Goto,
              lock, flags, history
<1>7. ASSUME QuoterCancels
      PROVE  CloseInv'
  BY <1>7 DEF TypeOK, Tasks, Killers, CloseInv, Closing, QuoterCancels, MayGo,
              Goto, lock, flags, history
<1>8. ASSUME QuoterPlaces
      PROVE  CloseInv'
  BY <1>8 DEF TypeOK, Tasks, Killers, CloseInv, Closing, QuoterPlaces, lock,
              flags, history
<1>9. ASSUME QuoterDone
      PROVE  CloseInv'
  BY <1>9 DEF TypeOK, Tasks, Killers, CloseInv, Closing, QuoterDone, Leave,
              Goto, flags, history
<1>10. ASSUME CheckVolatility
      PROVE  CloseInv'
  BY <1>10 DEF TypeOK, Tasks, Killers, CloseInv, Closing, CheckVolatility,
               Pause, Unpause, lock, history
<1>11. ASSUME NEW k \in Killers, TriggerKill(k)
      PROVE  CloseInv'
  BY <1>11 DEF TypeOK, Tasks, Killers, CloseInv, Closing, TriggerKill,
               NotKilled, Join, Goto, history
<1>12. ASSUME NEW k \in Killers, SendClose(k)
      PROVE  CloseInv'
  BY <1>12 DEF TypeOK, Tasks, Killers, CloseInv, Closing, SendClose, Goto,
               lock, flags
<1>13. ASSUME NEW k \in Killers, KillAlerted(k)
      PROVE  CloseInv'
  BY <1>13 DEF TypeOK, Tasks, Killers, CloseInv, Closing, KillAlerted, Goto,
               lock, history
<1>14. ASSUME PauseCommand
      PROVE  CloseInv'
  BY <1>14 DEF TypeOK, Tasks, Killers, CloseInv, Closing, PauseCommand, Pause,
               lock, history
<1>15. ASSUME ResumeCommand
      PROVE  CloseInv'
  BY <1>15 DEF TypeOK, Tasks, Killers, CloseInv, Closing, ResumeCommand,
               Unpause, lock, history
<1>16. ASSUME ShutdownBegins
      PROVE  CloseInv'
  BY <1>16 DEF TypeOK, Tasks, Killers, CloseInv, Closing, ShutdownBegins,
               Join, Goto, flags, history
<1>17. ASSUME StopRisk
      PROVE  CloseInv'
  BY <1>17 DEF TypeOK, Tasks, Killers, CloseInv, Closing, StopRisk, Leave,
               flags, history
<1>18. ASSUME StopRest
      PROVE  CloseInv'
  BY <1>18 DEF TypeOK, Tasks, Killers, CloseInv, Closing, StopRest, lock,
               flags, history
<1>19. ASSUME Signal
      PROVE  CloseInv'
  BY <1>19 DEF TypeOK, Tasks, Killers, CloseInv, Closing, Signal, lock,
               history
<1>20. ASSUME WatcherTick
      PROVE  CloseInv'
  BY <1>20 DEF TypeOK, Tasks, Killers, CloseInv, Closing, WatcherTick, Goto,
               lock, history
<1>21. ASSUME KillCommand
      PROVE  CloseInv'
  BY <1>21 DEF TypeOK, Tasks, Killers, CloseInv, Closing, KillCommand,
               Listens, lock, flags, history
<1>22. ASSUME RequestExpires
      PROVE  CloseInv'
  BY <1>22 DEF TypeOK, Tasks, Killers, CloseInv, Closing, RequestExpires,
               lock, flags, history
<1>23. ASSUME Confirm
      PROVE  CloseInv'
  BY <1>23 DEF TypeOK, Tasks, Killers, CloseInv, Closing, Confirm, Listens,
               Goto, lock, flags, history
<1>24. ASSUME KilledAlready
      PROVE  CloseInv'
  BY <1>24 DEF TypeOK, Tasks, Killers, CloseInv, Closing, KilledAlready, Goto,
               lock, flags, history
<1>25. CASE UNCHANGED vars
  BY <1>25 DEF TypeOK, Tasks, Killers, CloseInv, Closing, vars, lock, flags,
               history
<1>26. QED
  BY <1>1, <1>2, <1>3, <1>4, <1>5, <1>6, <1>7, <1>8, <1>9, <1>10,
                <1>11, <1>12, <1>13, <1>14, <1>15, <1>16, <1>17, <1>18, <1>19,
                <1>20, <1>21, <1>22, <1>23, <1>24, <1>25
     DEF Next, World, Quoter, Sweep, Risk, Operator, Killing, Main, Ended,
         Tasks, Killers

LEMMA ShutdownStep ==
    ASSUME TypeOK, LineInv, ShutdownInv, [Next]_vars
    PROVE  ShutdownInv'
<1>1. ASSUME VolMoves
      PROVE  ShutdownInv'
  BY <1>1 DEF TypeOK, Tasks, Killers, LineInv, ShutdownInv, Updating,
              QuotesOnBook, VolMoves, lock, flags, history
<1>2. ASSUME NEW o \in Quotes \cup {Close}, Fills(o)
      PROVE  ShutdownInv'
  BY <1>2 DEF TypeOK, Tasks, Killers, LineInv, ShutdownInv, Updating,
              QuotesOnBook, Fills, lock, flags, history
<1>3. ASSUME NEW t \in Tasks \ {"watcher"}, ReadOpen(t)
      PROVE  ShutdownInv'
  BY <1>3 DEF TypeOK, Tasks, Killers, LineInv, ShutdownInv, Updating,
              QuotesOnBook, ReadOpen, EndSweep, Leave, MayGo, Goto, lock,
              flags
<1>4. ASSUME NEW t \in Tasks \ {"watcher"}, BulkCancel(t)
      PROVE  ShutdownInv'
  BY <1>4 DEF TypeOK, Tasks, Killers, LineInv, ShutdownInv, Updating,
              QuotesOnBook, BulkCancel, EndSweep, Leave, MayGo, Goto, flags
<1>5. ASSUME QuoterTick
      PROVE  ShutdownInv'
  BY <1>5 DEF TypeOK, Tasks, Killers, LineInv, ShutdownInv, Updating,
              QuotesOnBook, QuoterTick, MayQuote, Join, Goto, lock, flags,
              history
<1>6. ASSUME QuoterExit
      PROVE  ShutdownInv'
  BY <1>6 DEF TypeOK, Tasks, Killers, LineInv, ShutdownInv, Updating,
              QuotesOnBook, QuoterExit, Goto, lock, flags, history
<1>7. ASSUME QuoterCancels
      PROVE  ShutdownInv'
  BY <1>7 DEF TypeOK, Tasks, Killers, LineInv, ShutdownInv, Updating,
              QuotesOnBook, QuoterCancels, MayGo, Goto, lock, flags, history
<1>8. ASSUME QuoterPlaces
      PROVE  ShutdownInv'
  BY <1>8 DEF TypeOK, Tasks, Killers, LineInv, ShutdownInv, Updating,
              QuotesOnBook, QuoterPlaces, lock, flags, history
<1>9. ASSUME QuoterDone
      PROVE  ShutdownInv'
  BY <1>9 DEF TypeOK, Tasks, Killers, LineInv, ShutdownInv, Updating,
              QuotesOnBook, QuoterDone, Leave, Goto, flags, history
<1>10. ASSUME CheckVolatility
      PROVE  ShutdownInv'
  BY <1>10 DEF TypeOK, Tasks, Killers, LineInv, ShutdownInv, Updating,
               QuotesOnBook, CheckVolatility, Pause, Unpause, lock,
               history
<1>11. ASSUME NEW k \in Killers, TriggerKill(k)
      PROVE  ShutdownInv'
  BY <1>11 DEF TypeOK, Tasks, Killers, LineInv, ShutdownInv, Updating,
               QuotesOnBook, TriggerKill, NotKilled, Join, Goto, history
<1>12. ASSUME NEW k \in Killers, SendClose(k)
      PROVE  ShutdownInv'
  BY <1>12 DEF TypeOK, Tasks, Killers, LineInv, ShutdownInv, Updating,
               QuotesOnBook, SendClose, Goto, lock, flags
<1>13. ASSUME NEW k \in Killers, KillAlerted(k)
      PROVE  ShutdownInv'
  BY <1>13 DEF TypeOK, Tasks, Killers, LineInv, ShutdownInv, Updating,
               QuotesOnBook, KillAlerted, Goto, lock, history
<1>14. ASSUME PauseCommand
      PROVE  ShutdownInv'
  BY <1>14 DEF TypeOK, Tasks, Killers, LineInv, ShutdownInv, Updating,
               QuotesOnBook, PauseCommand, Pause, lock, history
<1>15. ASSUME ResumeCommand
      PROVE  ShutdownInv'
  BY <1>15 DEF TypeOK, Tasks, Killers, LineInv, ShutdownInv, Updating,
               QuotesOnBook, ResumeCommand, Unpause, lock, history
<1>16. ASSUME ShutdownBegins
      PROVE  ShutdownInv'
  BY <1>16 DEF TypeOK, Tasks, Killers, LineInv, ShutdownInv, Updating,
               QuotesOnBook, ShutdownBegins, Join, Goto, flags, history
<1>17. ASSUME StopRisk
      PROVE  ShutdownInv'
  BY <1>17 DEF TypeOK, Tasks, Killers, LineInv, ShutdownInv, Updating,
               QuotesOnBook, StopRisk, Leave, flags, history
<1>18. ASSUME StopRest
      PROVE  ShutdownInv'
  BY <1>18 DEF TypeOK, Tasks, Killers, LineInv, ShutdownInv, Updating,
               QuotesOnBook, StopRest, lock, flags, history
<1>19. ASSUME Signal
      PROVE  ShutdownInv'
  BY <1>19 DEF TypeOK, Tasks, Killers, LineInv, ShutdownInv, Updating,
               QuotesOnBook, Signal, lock, history
<1>20. ASSUME WatcherTick
      PROVE  ShutdownInv'
  BY <1>20 DEF TypeOK, Tasks, Killers, LineInv, ShutdownInv, Updating,
               QuotesOnBook, WatcherTick, Goto, lock, history
<1>21. ASSUME KillCommand
      PROVE  ShutdownInv'
  BY <1>21 DEF TypeOK, Tasks, Killers, LineInv, ShutdownInv, Updating,
               QuotesOnBook, KillCommand, Listens,
               lock, flags, history
<1>22. ASSUME RequestExpires
      PROVE  ShutdownInv'
  BY <1>22 DEF TypeOK, Tasks, Killers, LineInv, ShutdownInv, Updating,
               QuotesOnBook, RequestExpires,
               lock, flags, history
<1>23. ASSUME Confirm
      PROVE  ShutdownInv'
  BY <1>23 DEF TypeOK, Tasks, Killers, LineInv, ShutdownInv, Updating,
               QuotesOnBook, Confirm, Listens, Goto,
               lock, flags, history
<1>24. ASSUME KilledAlready
      PROVE  ShutdownInv'
  BY <1>24 DEF TypeOK, Tasks, Killers, LineInv, ShutdownInv, Updating,
               QuotesOnBook, KilledAlready, Goto,
               lock, flags, history
<1>25. CASE UNCHANGED vars
  BY <1>25 DEF TypeOK, Tasks, Killers, LineInv, ShutdownInv, Updating,
               QuotesOnBook, vars, lock, flags, history
<1>26. QED
  BY <1>1, <1>2, <1>3, <1>4, <1>5, <1>6, <1>7, <1>8, <1>9, <1>10,
                <1>11, <1>12, <1>13, <1>14, <1>15, <1>16, <1>17, <1>18, <1>19,
                <1>20, <1>21, <1>22, <1>23, <1>24, <1>25
     DEF Next, World, Quoter, Sweep, Risk, Operator, Killing, Main, Ended,
         Tasks, Killers

----------------------------------------------------------------------------
LEMMA SafetyStep == SafetyInv /\ [Next]_vars => SafetyInv'
BY TypeStep, LineStep, KillStep, ShutdownStep DEF SafetyInv

LEMMA Safety == Spec => []SafetyInv
BY InitSafety, SafetyStep, PTL DEF Spec

(* Every variable keeps its type.                                           *)
THEOREM TypeCorrect == Spec => []TypeOK
BY Safety, PTL DEF SafetyInv

(* Once an emergency close has swept the book, no quote is on it, although  *)
(* the quote loop reads the kill flag before it waits for the lock.         *)
THEOREM KillSilencesQuoting == Spec => []QuietAfterKill
<1>1. SafetyInv => QuietAfterKill
  BY DEF SafetyInv, KillInv, QuietAfterKill, QuotesOnBook
<1>2. QED
  BY <1>1, Safety, PTL

(* A shutdown whose calls succeeded leaves no quote on the exchange.        *)
THEOREM ShutdownClears == Spec => []ShutdownLeavesNoQuotes
<1>1. SafetyInv => ShutdownLeavesNoQuotes
  BY DEF SafetyInv, ShutdownInv, ShutdownLeavesNoQuotes, QuotesOnBook
<1>2. QED
  BY <1>1, Safety, PTL

(* However the kill switches and the operator race, one emergency close at  *)
(* most sends the order that closes the position.                           *)
THEOREM OneClose == Spec => []ClosedOnce
<1>1. Init => CloseInv
  BY DEF Init, CloseInv, Closing, Killers, Tasks
<1>2. TypeOK /\ CloseInv /\ [Next]_vars => CloseInv'
  BY CloseStep
<1>3. CloseInv => ClosedOnce
  BY DEF CloseInv, ClosedOnce
<1>4. QED
  BY <1>1, <1>2, <1>3, TypeCorrect, PTL DEF Spec
=============================================================================
