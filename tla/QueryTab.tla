------------------------------ MODULE QueryTab ------------------------------
(***************************************************************************)
(* One query tab of the front end's query store: the status the editor,    *)
(* the toolbar and the AI panel share, the executions and re-executions in *)
(* flight, the residency of each result's rows and the validation that     *)
(* runs when the tab is shown.                                             *)
(*                                                                         *)
(* Every await of the store is a call in flight: its record keeps what the *)
(* closure captured, and the reply is an action of its own, so replies     *)
(* interleave with every user action and with each other.                  *)
(***************************************************************************)
EXTENDS Integers, FiniteSets, Sequences

CONSTANTS MaxCalls,    \* bound on the calls the tab issues
          MaxResults   \* bound on the results of one batch

ASSUME QueryTabAssumption == MaxCalls \in Nat /\ MaxResults \in Nat \ {0}

VARIABLES tab,      \* TabQueryState of the tab, with whether the store has it (open)
                    \* and whether the workspace has closed it (shut)
          results,  \* its results
          timers,   \* indices with a pending inactive timer
          visible,  \* the tab is the workspace's visible tab
          calls,    \* calls awaiting a reply
          issued,   \* calls issued so far; a reply's result carries its call's id
          ai,       \* what holds the AI lock
          asked     \* ghost: runs that were in flight when Cancel was pressed

vars == <<tab, results, timers, visible, calls, issued, ai, asked>>

Executing == {"idle", "running", "success", "error", "restoring"}
AiLocks   == {"ai-pending", "ai-reviewing"}
Busy      == {"running"} \cup AiLocks
RunKinds  == {"execute", "batch", "rerun"}

Indices == 1 .. MaxResults
ById    == 0 .. MaxCalls      \* query ids; 0 is a result without one

Result(id, active) ==
  [id |-> id, outcome |-> "success", expired |-> FALSE,
   rows |-> "resident", active |-> active, dirty |-> FALSE]

ErrorResult(run) ==
  [Result(0, FALSE) EXCEPT !.outcome = IF tab.wasCancelled THEN "cancelled" ELSE "failed"]

ResultType ==
  [id : ById, outcome : {"success", "failed", "cancelled"}, expired : BOOLEAN,
   rows : {"resident", "evicted", "restoring"}, active : BOOLEAN, dirty : BOOLEAN]

CallType ==
  [kind : RunKinds \cup {"cancel", "touch", "restore", "window"}, id : 1 .. MaxCalls,
   index : Nat, of : ById, saved : Executing \cup AiLocks]

TabType ==
  [open : BOOLEAN, shut : BOOLEAN, status : Executing \cup AiLocks, prev : Executing,
   active : Indices, panel : {"result", "table-data"},
   isCancelling : BOOLEAN, wasCancelled : BOOLEAN, error : ById]

TypeOK ==
  /\ tab \in TabType
  /\ results \in Seq(ResultType) /\ Len(results) <= MaxResults
  /\ timers \subseteq Indices
  /\ visible \in BOOLEAN
  /\ calls \subseteq CallType
  /\ issued \in ById
  /\ ai \in [generating : BOOLEAN, reviewing : BOOLEAN]
  /\ asked \subseteq 1 .. MaxCalls

(* DEFAULT_TAB_STATE. *)
Default(shut) ==
  [open |-> TRUE, shut |-> shut, status |-> "idle", prev |-> "idle", active |-> 1,
   panel |-> "result", isCancelling |-> FALSE, wasCancelled |-> FALSE, error |-> 0]

Init ==
  /\ tab = Default(FALSE)
  /\ results = <<>>
  /\ timers = {}
  /\ visible = TRUE
  /\ calls = {}
  /\ issued = 0
  /\ ai = [generating |-> FALSE, reviewing |-> FALSE]
  /\ asked = {}

-----------------------------------------------------------------------------
(* The store's helpers. *)

NewCall(kind, index, of, saved) ==
  [kind |-> kind, id |-> issued + 1, index |-> index, of |-> of, saved |-> saved]

Issue(c) ==
  /\ issued < MaxCalls
  /\ issued' = issued + 1
  /\ calls' = calls \cup {c}

Settle(c) == calls' = calls \ {c} /\ UNCHANGED issued

(* patchTab merges into the default state when the tab is gone: it brings a *)
(* closed tab back.                                                         *)
Patch(t) == IF t.open THEN t ELSE Default(TRUE)

MarkExpired(rs)  == [i \in DOMAIN rs |-> [rs[i] EXCEPT !.expired = TRUE]]
ClearExpired(rs) == [i \in DOMAIN rs |-> [rs[i] EXCEPT !.expired = FALSE]]

PatchResult(rs, i, r) == IF i \in DOMAIN rs THEN [rs EXCEPT ![i] = r] ELSE rs

Residency(rs, i, state) ==
  IF i \in DOMAIN rs THEN [rs EXCEPT ![i].rows = state] ELSE rs

Active == IF tab.active <= Len(results) THEN tab.active ELSE Len(results)

BeginExecution(t) ==
  [Patch(t) EXCEPT !.status = "running", !.isCancelling = FALSE, !.wasCancelled = FALSE]

FinalizeExecutionKeepsBlame(t) ==
  [Patch(t) EXCEPT !.isCancelling = FALSE]

FinalizeExecutionHalf(t) ==
  [Patch(t) EXCEPT !.wasCancelled = FALSE]

FinalizeExecution(t) ==
  [Patch(t) EXCEPT !.isCancelling = FALSE, !.wasCancelled = FALSE]

Finished(status) ==
  [FinalizeExecution(tab) EXCEPT !.status = status, !.active = 1, !.panel = "result"]

(* A hidden result's rows wait for the inactive timer, unless they are      *)
(* being edited, expired or already gone.                                   *)
TimerFor(rs, i) ==
  IF /\ i \in DOMAIN rs
     /\ rs[i].rows = "resident"
     /\ rs[i].id # 0
     /\ ~rs[i].expired
     /\ ~rs[i].dirty
  THEN {i} ELSE {}

MarkInactive(rs, i) == IF i \in DOMAIN rs THEN [rs EXCEPT ![i].active = FALSE] ELSE rs
MarkActive(rs, i)   == IF i \in DOMAIN rs THEN [rs EXCEPT ![i].active = TRUE] ELSE rs

-----------------------------------------------------------------------------
(* Executions: the guard, the reset, and one action per way a run ends. *)

Run(kind, index) ==
  /\ tab.open /\ visible
  /\ tab.status \notin Busy
  /\ Issue(NewCall(kind, index, 0, tab.status))
  /\ tab' = BeginExecution(tab)
  /\ results' = LET cleared == ClearExpired(results)
                IN PatchResult(cleared, Active, [cleared[Active] EXCEPT !.dirty = FALSE])
  /\ UNCHANGED <<visible, ai, asked>>

(* The timers of more results than there are now go on. *)
ExecuteQuery == Run("execute", 0) /\ timers' = timers \ DOMAIN results

(* A batch keeps the old results' timers until it ends, and then cancels as *)
(* many as there were results when it began.                                *)
ExecuteBatch == Run("batch", Len(results)) /\ UNCHANGED timers

(* Retry of one result of several skips the execution guard. *)
RetryOneOfSeveral ==
  /\ tab.open /\ visible
  /\ Len(results) > 1
  /\ results[Active].expired
  /\ Issue(NewCall("rerun", Active, results[Active].id, tab.status))
  /\ tab' = BeginExecution(tab)
  /\ results' = ClearExpired(results)
  /\ UNCHANGED <<timers, visible, ai, asked>>

OnScreen == visible

ExecuteReply(c) ==
  /\ c.kind = "execute"
  /\ Settle(c)
  /\ IF tab.open
     THEN /\ tab' = Finished("success")
          /\ results' = <<Result(c.id, OnScreen)>>
          /\ timers' = IF OnScreen THEN timers ELSE (timers \ {1}) \cup {1}
     ELSE UNCHANGED <<tab, results, timers>>
  /\ UNCHANGED <<visible, ai, asked>>

BatchReply(c, n) ==
  /\ c.kind = "batch"
  /\ Settle(c)
  /\ IF tab.open
     THEN /\ tab' = Finished("success")
          /\ results' = [i \in 1 .. n |-> Result(c.id, i = 1 /\ OnScreen)]
          /\ timers' = (timers \ (1 .. c.index)) \cup (IF OnScreen THEN {} ELSE {1})
     ELSE UNCHANGED <<tab, results, timers>>
  /\ UNCHANGED <<visible, ai, asked>>

RunFailed(c) ==
  /\ c.kind \in {"execute", "batch"}
  /\ Settle(c)
  /\ IF tab.open
     THEN /\ tab' = [Finished("error") EXCEPT !.error = c.id]
          /\ results' = <<ErrorResult(c.id)>>
     ELSE UNCHANGED <<tab, results>>
  /\ UNCHANGED <<timers, visible, ai, asked>>

(* A re-execution replaces its result only if nobody else has meanwhile. *)
RerunReply(c) ==
  /\ c.kind = "rerun"
  /\ Settle(c)
  /\ IF tab.open
     THEN /\ tab' = [FinalizeExecution(tab) EXCEPT !.status = "success"]
          /\ results' = IF c.index \in DOMAIN results /\ results[c.index].id = c.of
                        THEN [results EXCEPT ![c.index] =
                                Result(c.id, results[c.index].active)]
                        ELSE results
     ELSE UNCHANGED <<tab, results>>
  /\ UNCHANGED <<timers, visible, ai, asked>>

RerunFailed(c) ==
  /\ c.kind = "rerun"
  /\ Settle(c)
  /\ IF tab.open
     THEN /\ tab' = [FinalizeExecution(tab) EXCEPT !.status = "error"]
          /\ results' = MarkExpired(results)
     ELSE UNCHANGED <<tab, results>>
  /\ UNCHANGED <<timers, visible, ai, asked>>

InFlight == {c \in calls : c.kind \in RunKinds}

(* The backend can say it killed a run only if one was there. *)
CancelQuery ==
  /\ tab.open /\ visible
  /\ tab.status = "running"
  /\ ~tab.isCancelling
  /\ Issue(NewCall("cancel", Cardinality(InFlight), 0, tab.status))
  /\ tab' = [Patch(tab) EXCEPT !.isCancelling = TRUE, !.wasCancelled = TRUE]
  /\ asked' = asked \cup {c.id : c \in InFlight}
  /\ UNCHANGED <<results, timers, visible, ai>>

CancelReplyUnguarded(c, killed) ==
  /\ c.kind = "cancel"
  /\ killed => c.index > 0
  /\ Settle(c)
  /\ tab' = IF ~killed THEN FinalizeExecution(tab) ELSE tab
  /\ UNCHANGED <<results, timers, visible, ai, asked>>

CancelReply(c, killed) ==
  /\ c.kind = "cancel"
  /\ killed => c.index > 0
  /\ Settle(c)
  /\ tab' = IF tab.open /\ ~killed THEN FinalizeExecution(tab) ELSE tab
  /\ UNCHANGED <<results, timers, visible, ai, asked>>

-----------------------------------------------------------------------------
(* Showing and hiding the tab, and the rows of its results. *)

(* The call that brings evicted rows back; the tab reads 'restoring'. *)
RestoreCall(i) == NewCall("restore", i, results[i].id, tab.status)

Evicted(i) == i \in DOMAIN results /\ results[i].rows = "evicted" /\ ~results[i].expired

NeedsRestore(i) == Evicted(i) /\ results[i].id # 0

(* markResultSurfaceActive: the mark, and the start of the restore. *)
Entered(rs, i) ==
  IF NeedsRestore(i) THEN Residency(MarkActive(rs, i), i, "restoring")
  ELSE IF Evicted(i) THEN MarkExpired(MarkActive(rs, i))
  ELSE MarkActive(rs, i)

Hide ==
  /\ tab.open
  /\ visible
  /\ visible' = FALSE
  /\ IF tab.panel = "result"
     THEN /\ results' = MarkInactive(results, Active)
          /\ timers' = timers \cup TimerFor(results, Active)
     ELSE UNCHANGED <<results, timers>>
  /\ UNCHANGED <<tab, calls, issued, ai, asked>>

(* Activation marks the result active, restores evicted rows and validates  *)
(* the backend's cache: up to two calls leave in the same handler, and each *)
(* remembers the status it found.                                           *)
Show ==
  /\ tab.open /\ ~tab.shut
  /\ ~visible
  /\ visible' = TRUE
  /\ IF tab.panel = "table-data" \/ Active = 0
     THEN UNCHANGED <<tab, results, timers, calls, issued>>
     ELSE LET restores  == NeedsRestore(Active)
              midway    == IF restores THEN "restoring" ELSE tab.status
              validates == results[Active].id # 0
              restore   == IF restores THEN {RestoreCall(Active)} ELSE {}
              touch     == IF validates
                           THEN {[NewCall("touch", 0, 0, midway) EXCEPT
                                    !.id = issued + Cardinality(restore) + 1]}
                           ELSE {}
          IN /\ issued + Cardinality(restore \cup touch) <= MaxCalls
             /\ issued' = issued + Cardinality(restore \cup touch)
             /\ calls' = calls \cup restore \cup touch
             /\ timers' = timers \ {Active}
             /\ results' = Entered(results, Active)
             /\ tab' = [tab EXCEPT !.status = IF validates /\ midway # "success"
                                              THEN "restoring" ELSE midway]
  /\ UNCHANGED <<ai, asked>>

(* A validation that fails patches the tab without looking for it. *)
TouchReply(c, answer) ==
  /\ c.kind = "touch"
  /\ Settle(c)
  /\ results' = IF tab.open /\ answer = "expired" THEN MarkExpired(results) ELSE results
  /\ tab' = IF (tab.open \/ answer = "failed") /\ c.saved # "success"
            THEN [Patch(tab) EXCEPT !.status = c.saved] ELSE tab
  /\ UNCHANGED <<timers, visible, ai, asked>>

(* The status a restore puts back when it ends, whatever happened since. *)
PutBack(c) ==
  [tab EXCEPT !.status = IF c.saved = "restoring" THEN "success" ELSE c.saved]

RestoreTouchedForgetsRows(c, answer) ==
  /\ c.kind = "restore"
  /\ IF tab.open /\ answer = "available" /\ c.index \in DOMAIN results
                 /\ results[c.index].id # 0
     THEN /\ calls' = (calls \ {c}) \cup
                        {[c EXCEPT !.kind = "window", !.of = results[c.index].id]}
          /\ UNCHANGED <<tab, results, issued>>
     ELSE /\ Settle(c)
          /\ IF tab.open
             THEN /\ results' = MarkExpired(results)
                  /\ tab' = PutBack(c)
             ELSE UNCHANGED <<tab, results>>
  /\ UNCHANGED <<timers, visible, ai, asked>>

RestoreTouched(c, answer) ==
  /\ c.kind = "restore"
  /\ IF tab.open /\ answer = "available" /\ c.index \in DOMAIN results
                 /\ results[c.index].id # 0
     THEN \* the window is asked for under the result's current query id
          /\ calls' = (calls \ {c}) \cup
                        {[c EXCEPT !.kind = "window", !.of = results[c.index].id]}
          /\ UNCHANGED <<tab, results, issued>>
     ELSE /\ Settle(c)
          /\ IF tab.open
             THEN /\ results' =
                       CASE answer = "available" -> MarkExpired(results)
                         [] answer = "failed"    -> Residency(results, c.index, "evicted")
                         [] OTHER -> Residency(MarkExpired(results), c.index, "evicted")
                  /\ tab' = PutBack(c)
             ELSE UNCHANGED <<tab, results>>
  /\ UNCHANGED <<timers, visible, ai, asked>>

WindowReply(c, answer) ==
  /\ c.kind = "window"
  /\ Settle(c)
  /\ IF tab.open
     THEN /\ results' =
               CASE answer = "failed"  -> Residency(results, c.index, "evicted")
                 [] answer = "expired" -> MarkExpired(Residency(results, c.index, "evicted"))
                 [] answer = "ok" /\ c.index \in DOMAIN results /\ results[c.index].id = c.of ->
                      [results EXCEPT ![c.index].rows = "resident", ![c.index].expired = FALSE]
                 [] OTHER -> results
          /\ tab' = PutBack(c)
     ELSE UNCHANGED <<tab, results>>
  /\ UNCHANGED <<timers, visible, ai, asked>>

EvictWhateverIsShown(i) ==
  /\ i \in timers
  /\ timers' = timers \ {i}
  /\ results' = IF i \in DOMAIN results /\ results[i].rows = "resident"
                THEN Residency(results, i, "evicted")
                ELSE results
  /\ UNCHANGED <<tab, visible, calls, issued, ai, asked>>

(* The timer is per index, so it may fire on a later result than the one it *)
(* was armed for.                                                           *)
EvictInactive(i) ==
  /\ i \in timers
  /\ timers' = timers \ {i}
  /\ results' = IF /\ i \in DOMAIN results
                   /\ ~results[i].active
                   /\ results[i].rows = "resident"
                   /\ ~results[i].expired
                   /\ ~results[i].dirty
                THEN Residency(results, i, "evicted")
                ELSE results
  /\ UNCHANGED <<tab, visible, calls, issued, ai, asked>>

(* Both switches hand the active mark from one surface to the next. *)
Switch(item, i) ==
  LET leaves  == visible /\ tab.panel = "result"
      enters  == visible /\ item = "result"
      left    == IF leaves THEN MarkInactive(results, Active) ELSE results
      armed   == IF leaves THEN timers \cup TimerFor(results, Active) ELSE timers
      restores == enters /\ NeedsRestore(i)
  IN /\ tab' = [tab EXCEPT !.panel = item, !.active = i,
                           !.status = IF restores THEN "restoring" ELSE @]
     /\ results' = IF enters THEN Entered(left, i) ELSE left
     /\ IF restores THEN Issue(RestoreCall(i)) ELSE UNCHANGED <<calls, issued>>
     /\ timers' = IF enters THEN armed \ {i} ELSE armed
     /\ UNCHANGED <<visible, ai, asked>>

SetActiveResultIndex(i) ==
  /\ tab.open /\ ~tab.shut
  /\ i \in DOMAIN results
  /\ ~results[Active].dirty     \* a modified row defers the switch to the dialog
  /\ Switch(tab.panel, i)

SetActiveBottomPanelItem(item) ==
  /\ tab.open /\ ~tab.shut
  /\ Switch(item, tab.active)

(* A row of the active result gets unsaved edits, or loses them. *)
EditRow ==
  /\ tab.open /\ visible
  /\ Active # 0
  /\ results[Active].id # 0
  /\ results[Active].rows = "resident"
  /\ results' = [results EXCEPT ![Active].dirty = ~@]
  /\ UNCHANGED <<tab, timers, visible, calls, issued, ai, asked>>

Cleanup ==
  /\ tab.open /\ ~tab.shut
  /\ tab' = [tab EXCEPT !.open = FALSE, !.shut = TRUE]
  /\ results' = <<>>
  /\ timers' = timers \ DOMAIN results
  /\ visible' = FALSE
  /\ ai' = [generating |-> FALSE, reviewing |-> FALSE]
  /\ UNCHANGED <<calls, issued, asked>>

-----------------------------------------------------------------------------
(* The AI lock: setTabStatus saves the execution status when a lock enters  *)
(* over it, restoreTabStatus puts it back if a lock is still there.         *)

LockSavesLocks(status) == tab' = [tab EXCEPT !.status = status, !.prev = tab.status]

Lock(status) ==
  tab' = IF tab.status \in Executing
         THEN [tab EXCEPT !.status = status, !.prev = tab.status]
         ELSE [tab EXCEPT !.status = status]

RestoreTabStatus == tab' = IF tab.status \in AiLocks THEN [tab EXCEPT !.status = tab.prev] ELSE tab

AiSend ==
  /\ tab.open /\ visible /\ ~ai.generating
  /\ ai' = [ai EXCEPT !.generating = TRUE]
  /\ Lock("ai-pending")
  /\ UNCHANGED <<results, timers, visible, calls, issued, asked>>

AiEnd ==
  /\ ai.generating
  /\ ai' = [ai EXCEPT !.generating = FALSE]
  /\ RestoreTabStatus
  /\ UNCHANGED <<results, timers, visible, calls, issued, asked>>

OpenDiff ==
  /\ tab.open /\ visible /\ ~ai.reviewing
  /\ ai' = [ai EXCEPT !.reviewing = TRUE]
  /\ Lock("ai-reviewing")
  /\ UNCHANGED <<results, timers, visible, calls, issued, asked>>

CloseDiff ==
  /\ ai.reviewing
  /\ ai' = [ai EXCEPT !.reviewing = FALSE]
  /\ RestoreTabStatus
  /\ UNCHANGED <<results, timers, visible, calls, issued, asked>>

-----------------------------------------------------------------------------
Reply ==
  \E c \in calls :
    \/ ExecuteReply(c) \/ RunFailed(c)
    \/ \E n \in Indices : BatchReply(c, n)
    \/ RerunReply(c) \/ RerunFailed(c)
    \/ \E killed \in BOOLEAN : CancelReply(c, killed)
    \/ \E answer \in {"available", "expired", "missing", "failed"} :
         TouchReply(c, answer) \/ RestoreTouched(c, answer)
    \/ \E answer \in {"ok", "failed", "expired"} : WindowReply(c, answer)

User ==
  \/ ExecuteQuery \/ ExecuteBatch \/ RetryOneOfSeveral \/ CancelQuery
  \/ Hide \/ Show \/ EditRow \/ Cleanup
  \/ \E i \in Indices : SetActiveResultIndex(i)
  \/ \E item \in {"result", "table-data"} : SetActiveBottomPanelItem(item)

AiPanel == AiSend \/ AiEnd \/ OpenDiff \/ CloseDiff

Next == Reply \/ User \/ AiPanel \/ \E i \in Indices : EvictInactive(i)

(* The backend answers every call; nothing makes the user act. *)
Spec == Init /\ [][Next]_vars /\ WF_vars(Reply)

-----------------------------------------------------------------------------
(* Properties *)

(* What brings a closed tab back: patchTab creates the tab it does not     *)
(* find, so every reply must look for it first, however late it comes. One *)
(* does not: a validation that fails after the close (the catch in         *)
(* validateActiveTabResults) leaves a tab with the status it had captured, *)
(* which the workspace no longer shows, and without results.               *)
OnlyFailedTouchRevives ==
  [][~tab.open /\ tab'.open =>
       /\ tab'.shut /\ ~visible' /\ results' = <<>>
       /\ \E c \in calls \ calls' :
            c.kind = "touch" /\ c.saved # "success" /\ tab'.status = c.saved]_vars

(* A cancel lasts as long as the runs it was meant for: its flag is set    *)
(* only while it or one of them is in flight, and a result reads "Query     *)
(* cancelled by user" only if its run was in flight when the user pressed   *)
(* Cancel. It never colours the failure of a later run.                     *)
CancelBlamesItsRun ==
  /\ tab.open /\ tab.wasCancelled => \E c \in calls : c.kind = "cancel" \/ c.id \in asked
  /\ \A i \in DOMAIN results : results[i].outcome = "cancelled" => tab.error \in asked

(* The tab between two steps (query-store.ts, executeQuery to cancelQuery). *)
TabInv == TypeOK /\ CancelBlamesItsRun

(* No inactive timer takes the rows on screen: timers are kept per index    *)
(* and outlive the result they were armed for, so the one that fires may    *)
(* meet a later result, or one shown again since.                           *)
OnScreenResult == IF tab.open /\ visible /\ tab.panel = "result" THEN Active ELSE 0

TimerSparesTheScreen ==
  [][\A i \in timers :
       i = OnScreenResult /\ results[i].id # 0 /\ calls' = calls /\ tab' = tab
         => results'[i].rows = results[i].rows]_vars

(* A result whose rows are being brought back ends with rows or as evicted: *)
(* the restoring overlay of the grid goes away.                             *)
RestoreSettles ==
  \A i \in Indices :
    (i \in DOMAIN results /\ results[i].rows = "restoring")
      ~> ~(i \in DOMAIN results /\ results[i].rows = "restoring")

(* "Cancelling" ends: with the reply that found nothing to kill, or with    *)
(* the run that was killed.                                                 *)
CancelSettles == (tab.open /\ tab.isCancelling) ~> ~(tab.open /\ tab.isCancelling)

(* Neither a restore nor a cancel leaves the tab busy for good.             *)
TabSettles == RestoreSettles /\ CancelSettles

(* What the guard of executeQuery claims: the tab runs one execution at a   *)
(* time.                                                                    *)
NoDoubleExecution == Cardinality({c \in calls : c.kind \in {"execute", "batch"}}) <= 1

=============================================================================
