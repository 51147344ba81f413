------------------------------- MODULE Metrics -------------------------------
(***************************************************************************)
(* The metrics task (src/src/metrics.py) with the state store it writes    *)
(* to: the fills of the day, counted as they come and reset once a day     *)
(* after they went into the daily summary, and the fills whose adverse     *)
(* selection is still to be measured.                                      *)
(*                                                                         *)
(* The task and the fills meet at the store's queue.  record_event and     *)
(* record_pnl_snapshot suspend the task when the queue is full, and only   *)
(* then; the fills go on being counted meanwhile.  Cancels are counted and *)
(* reset like fills.                                                       *)
(***************************************************************************)
EXTENDS StateStore

CONSTANTS
    Fills,      \* the records of fills
    Summary,    \* the record of the daily summary
    Snapshot    \* the record of the PnL snapshot

ASSUME MetricsAssumption ==
    /\ Fills \cup {Summary, Snapshot} \subseteq Records
    /\ Summary # Snapshot /\ {Summary, Snapshot} \cap Fills = {}

VARIABLES
    counted,   \* fills in the session's counters
    pending,   \* _pending_adverse, oldest first
    aged,      \* how many of them are older than the window
    newDay,    \* has the day changed since _daily_start_day?
    pc,        \* where the task is suspended
    summary,   \* fills in the summary being recorded
    seen,      \* history: fills on_fill was called with
    booked,    \* history: fills in the summaries the store took
    late       \* history: fills counted while a summary waited

history == <<seen, booked, late>>
metrics == <<counted, pending, aged, newDay, pc, summary, history>>
store == <<queue, state, writer, phase>>
all == <<store, metrics>>

MetricsTypeOK ==
    /\ TypeOK
    /\ counted \subseteq seen /\ seen \subseteq Fills
    /\ pending \in Seq(seen) /\ aged \in 0 .. Len(pending)
    /\ newDay \in BOOLEAN
    /\ pc \in {"sleep", "rollover", "snapshot", "put", "stopped"}
    /\ summary \subseteq seen /\ booked \subseteq seen /\ late \subseteq seen

MetricsInit ==
    /\ Init
    /\ counted = {} /\ pending = <<>> /\ aged = 0
    /\ newDay = FALSE
    /\ pc = "sleep"
    /\ summary = {} /\ seen = {} /\ booked = {} /\ late = {}

----------------------------------------------------------------------------
(* What the task does not do itself.                                        *)

(* on_fill, called when the record of the fill is in the queue and the      *)
(* order manager has heard of it.  Without a mid there is nothing to        *)
(* measure later.                                                           *)
OnFill(f) ==
    /\ state[f] \in {"queued", "writing", "written", "failed"}
    /\ f \notin seen
    /\ seen' = seen \cup {f}
    /\ counted' = counted \cup {f}
    /\ pending' \in {pending, Append(pending, f)}
    /\ late' = IF pc = "rollover" THEN late \cup {f} ELSE late
    /\ UNCHANGED <<store, aged, newDay, pc, summary, booked>>

(* The oldest fill not yet due is older than the window.                    *)
Ages ==
    /\ aged < Len(pending)
    /\ aged' = aged + 1
    /\ UNCHANGED <<store, counted, pending, newDay, pc, summary, history>>

Midnight ==
    /\ ~newDay
    /\ newDay' = TRUE
    /\ UNCHANGED <<store, counted, pending, aged, pc, summary, history>>

(* A bound, not a step of the code: the task's next summary or snapshot is  *)
(* the same record again, once the store is done with the last one.         *)
Forget(r) ==
    /\ state[r] \in {"written", "failed"}
    /\ state' = [state EXCEPT ![r] = "new"]
    /\ UNCHANGED <<queue, writer, phase, metrics>>

----------------------------------------------------------------------------
(* _check_daily_rollover                                                    *)

NeverResets == counted' = counted
(* The counters start again, whatever happened since the summary was made.  *)
Reset == counted' = {}

Reported(fills) ==
    /\ booked' = booked \cup fills
    /\ summary' = {}
    /\ Reset
    /\ newDay' = FALSE
    /\ pc' = "snapshot"

Rollover ==
    /\ pc = "sleep" /\ newDay
    /\ Record(Summary)
    /\ \/ /\ state'[Summary] = "waiting"
          /\ summary' = counted
          /\ pc' = "rollover"
          /\ UNCHANGED <<counted, newDay, booked>>
       \/ /\ state'[Summary] = "queued"
          /\ Reported(counted)
    /\ UNCHANGED <<pending, aged, seen, late>>

RolloverGoesOn ==
    /\ pc = "rollover"
    /\ PutAgain(Summary)
    /\ \/ /\ state'[Summary] = "waiting"
          /\ UNCHANGED <<counted, newDay, pc, summary, booked>>
       \/ /\ state'[Summary] = "queued"
          /\ Reported(summary)
    /\ UNCHANGED <<pending, aged, seen, late>>

----------------------------------------------------------------------------
(* snapshot_now                                                             *)

(* process_pending_adverse takes every fill that is due.                    *)
LeavesOne == IF aged > 0 THEN aged - 1 ELSE 0
TakesAll == Len(pending)
Due == aged

SnapshotNow ==
    /\ pc = "snapshot" \/ (pc = "sleep" /\ ~newDay)
    /\ Record(Snapshot)
    /\ pending' = SubSeq(pending, Due + 1, Len(pending))
    /\ aged' = aged - Due
    /\ pc' = IF state'[Snapshot] = "waiting" THEN "put" ELSE "sleep"
    /\ UNCHANGED <<counted, newDay, summary, history>>

SnapshotGoesOn ==
    /\ pc = "put"
    /\ PutAgain(Snapshot)
    /\ pc' = IF state'[Snapshot] = "waiting" THEN "put" ELSE "sleep"
    /\ UNCHANGED <<counted, pending, aged, newDay, summary, history>>

(* stop cancels the task where it is; the shutdown closes the store later.  *)
MetricsStop ==
    /\ pc # "stopped"
    /\ pc' = "stopped"
    /\ CASE pc = "rollover" -> CancelPut(Summary)
         [] pc = "put" -> CancelPut(Snapshot)
         [] OTHER -> UNCHANGED store
    /\ UNCHANGED <<counted, pending, aged, newDay, summary, history>>

----------------------------------------------------------------------------

Others == Records \ {Summary, Snapshot}

(* The store's steps that are not the metrics task's.                       *)
StoreSteps ==
    /\ \/ \E r \in Others : Record(r) \/ PutAgain(r) \/ CancelPut(r)
       \/ Writer \/ Closer
       \/ pc = "stopped" /\ (Close \/ Ended)
    /\ UNCHANGED metrics

Task == Rollover \/ RolloverGoesOn \/ SnapshotNow \/ SnapshotGoesOn

MetricsNext ==
    \/ StoreSteps
    \/ \E f \in Fills : OnFill(f)
    \/ Ages \/ Midnight
    \/ \E r \in {Summary, Snapshot} : Forget(r)
    \/ Task \/ MetricsStop

MetricsSpec == MetricsInit /\ [][MetricsNext]_all

(* The turns of the writer, of the closer and of the calls that were woken  *)
(* come, as in the store; the metrics task's interval ends, and time passes.*)
MetricsFairSpec ==
    /\ MetricsSpec
    /\ WF_all(Writer /\ UNCHANGED metrics) /\ WF_all(Closer /\ UNCHANGED metrics)
    /\ \A r \in Others : WF_all(PutAgain(r) /\ UNCHANGED metrics)
    /\ WF_all(Task) /\ WF_all(Ages)
    /\ \A r \in {Summary, Snapshot} : WF_all(Forget(r))

----------------------------------------------------------------------------
(* Properties.                                                              *)

(* A fill is in the counters of one day and in the summary of that day:     *)
(* never in two, and in none only if it was counted while a summary waited  *)
(* for a place in the queue.                                                *)
CountedOnce ==
    /\ counted \cap booked = {}
    /\ seen \ late \subseteq counted \cup booked

(* Every fill whose adverse selection is to be measured is measured, or     *)
(* given up for want of a mid, as long as the task runs: neither a rollover *)
(* nor a full queue leaves it in the list for ever.                         *)
FillsMeasured ==
    \A f \in Fills :
        (\E i \in 1 .. Len(pending) : pending[i] = f)
            ~> (pc = "stopped" \/ ~\E i \in 1 .. Len(pending) : pending[i] = f)
=============================================================================
