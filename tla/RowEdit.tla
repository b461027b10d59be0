------------------------------- MODULE RowEdit -------------------------------
(***************************************************************************)
(* Editing the rows of a query result: the analysis that makes a result    *)
(* editable, the edit form, saves and inserts, the re-execution after an   *)
(* insert, and the navigation a modified row holds back.                   *)
(*                                                                         *)
(* The tab has one result whose rows are the rows of one table.  A row is  *)
(* one value; values are numbered in the order they are typed.  A save is  *)
(* two calls in a row (the UPDATE, then the copy in the backend's cache),  *)
(* a run reads the database, stores the rows and only then is answered.    *)
(***************************************************************************)
EXTENDS Integers, FiniteSets

CONSTANTS Rows,      \* rows of the table
          MaxCalls,  \* bound on the calls issued
          MaxTyped,  \* bound on the values typed
          MaxGaps    \* bound on the gaps after which the user goes on

ASSUME RowEditAssumption == MaxCalls \in Nat \ {0} /\ {MaxTyped, MaxGaps} \subseteq Nat

Draft == "draft"         \* the row a clone inserts
NoRow == "none"

ASSUME RowsAssumption == IsFiniteSet(Rows) /\ Draft \notin Rows /\ NoRow \notin Rows

VARIABLES open,     \* the tab exists
          res,      \* SingleResultState: the fields that matter to editing
          form,     \* editState and editingRowIndex
          pending,  \* pendingNavigationAction
          shown,    \* rows in the loaded pages
          cache,    \* the backend's cached result: its query id and rows
          db,       \* the table
          inserted, \* drafts inserted, by the number of the draft
          calls,    \* calls awaiting their next step
          issued,   \* calls issued
          typed,    \* values typed
          gaps      \* which of the known gaps happened

vars == <<open, res, form, pending, shown, cache, db, inserted, calls, issued, typed, gaps>>

Values  == 0 .. MaxTyped
Ids     == 0 .. MaxCalls
Actions == {"none", "run", "leave"}
Steps   == {"sent", "done", "stored"}
NoForm  == [row |-> NoRow, value |-> 0, modified |-> FALSE, of |-> 0]

ResType  == [id : Ids, sql : Ids, meta : Ids, mode : BOOLEAN, analyzing : BOOLEAN,
             saveError : BOOLEAN, stale : BOOLEAN]
FormType == [row : Rows \cup {Draft, NoRow}, value : Values, modified : BOOLEAN, of : Ids]
CallType == [kind : {"run", "refresh", "analyze", "update", "sync", "insert"},
             id : 1 .. MaxCalls, of : Ids, sql : Ids, row : Rows \cup {Draft, NoRow},
             at : Rows \cup {Draft, NoRow}, value : Values, step : Steps, rows : [Rows -> Values],
             then : {"none", "nav", "orphan", "mode"}]

TypeOK ==
  /\ open \in BOOLEAN
  /\ res \in ResType
  /\ form \in FormType /\ (form.modified => form.row # NoRow)
  /\ pending \in Actions
  /\ shown \in [Rows -> Values]
  /\ cache \in [id : Ids, rows : [Rows -> Values]]
  /\ db \in [Rows -> Values]
  /\ inserted \in [Values -> Nat]
  /\ calls \subseteq CallType
  /\ issued \in Ids
  /\ typed \in Values
  /\ gaps \subseteq {"reread", "resaved", "warned", "dropped", "overtaken", "misplaced"}

(* The tab's query ran as call 1 and its result was analysed.               *)
Init ==
  /\ open = TRUE
  /\ res = [id |-> 1, sql |-> 1, meta |-> 1, mode |-> FALSE, analyzing |-> FALSE,
            saveError |-> FALSE, stale |-> FALSE]
  /\ form = NoForm
  /\ pending = "none"
  /\ shown = [r \in Rows |-> 0] /\ db = [r \in Rows |-> 0]
  /\ cache = [id |-> 1, rows |-> [r \in Rows |-> 0]]
  /\ inserted = [v \in Values |-> 0]
  /\ calls = {} /\ issued = 1 /\ typed = 0
  /\ gaps = {}

-----------------------------------------------------------------------------
Call(kind, row, value, then) ==
  [kind |-> kind, id |-> issued + 1, of |-> res.id, sql |-> res.sql, row |-> row, at |-> row,
   value |-> value, step |-> "sent", rows |-> [r \in Rows |-> 0], then |-> then]

Issue(c) == issued < MaxCalls /\ issued' = issued + 1 /\ calls' = calls \cup {c}

Advance(c, d) == calls' = (calls \ {c}) \cup {d}

Settle(c) == calls' = calls \ {c}

Running == \E c \in calls : c.kind = "run"
Saves   == {c \in calls : c.kind \in {"update", "sync", "insert"}}

(* What executeQuery does before its call: the edit state goes. *)
Cleared(r) ==
  [r EXCEPT !.meta = 0, !.mode = FALSE, !.analyzing = FALSE, !.saveError = FALSE, !.stale = FALSE]

RunCall(id) == [Call("run", NoRow, 0, "none") EXCEPT !.id = id, !.sql = id]

ExecuteQuery ==
  /\ ~Running
  /\ Issue(RunCall(issued + 1))
  /\ res' = Cleared(res)
  /\ form' = NoForm

(* The dialog closes; a save it started goes on, and when it ends it still  *)
(* runs whatever action is pending then.                                    *)
Orphaned(cs) == {IF c.then = "nav" THEN [c EXCEPT !.then = "orphan"] ELSE c : c \in cs}

EndsAnyway(c, r, f, new) ==
  LET goes == c.then = "nav" /\ pending # "none"
      runs == goes /\ pending = "run" /\ ~Running
      last == issued + Cardinality(new)
      all  == IF runs THEN new \cup {RunCall(last + 1)} ELSE new
  IN /\ issued + Cardinality(all) <= MaxCalls
     /\ issued' = issued + Cardinality(all)
     /\ calls' = (IF goes THEN Orphaned(calls \ {c}) ELSE calls \ {c}) \cup all
     /\ pending' = IF goes THEN "none" ELSE pending
     /\ res' = IF runs THEN Cleared(r) ELSE r
     /\ form' = IF runs THEN NoForm ELSE f

(* Call c ends, leaving the result r, the form f and new calls; a save made *)
(* from the dialog lets the deferred action run unless an error is shown.   *)
Ends(c, r, f, new) ==
  LET goes == c.then \in {"nav", "orphan"} /\ pending # "none" /\ ~r.saveError
      runs == goes /\ pending = "run" /\ ~Running
      last == issued + Cardinality(new)
      all  == IF runs THEN new \cup {RunCall(last + 1)} ELSE new
  IN /\ issued + Cardinality(all) <= MaxCalls
     /\ issued' = issued + Cardinality(all)
     /\ calls' = (IF goes THEN Orphaned(calls \ {c}) ELSE calls \ {c}) \cup all
     /\ pending' = IF goes THEN "none" ELSE pending
     /\ res' = IF runs THEN Cleared(r) ELSE r
     /\ form' = IF runs THEN NoForm ELSE f

Dropped(c) == Settle(c) /\ UNCHANGED <<res, form, pending, issued>>

-----------------------------------------------------------------------------
(* Runs and refreshes, one after the other in the tab's session: the        *)
(* statement reads the table, the backend stores the rows, the front end    *)
(* gets the answer.                                                         *)

ReadsTable(c) ==
  /\ c.kind \in {"run", "refresh"} /\ c.step = "sent"
  /\ \A d \in calls : d.kind \in {"run", "refresh"} /\ d.id < c.id => d.step = "stored"
  /\ Advance(c, [c EXCEPT !.step = "done", !.rows = db])
  /\ UNCHANGED <<open, res, form, pending, shown, cache, db, inserted, issued, typed, gaps>>

StoresRows(c) ==
  /\ c.kind \in {"run", "refresh"} /\ c.step = "done"
  /\ Advance(c, [c EXCEPT !.step = "stored"])
  /\ cache' = [id |-> c.id, rows |-> c.rows]
  /\ gaps' = gaps \cup (IF c.rows # db THEN {"reread"} ELSE {})
  /\ UNCHANGED <<open, res, form, pending, shown, db, inserted, issued, typed>>

(* A fresh result of an editable statement is analysed at once. *)
Analysis(of, sql, then) ==
  [Call("analyze", NoRow, 0, then) EXCEPT !.of = of, !.sql = sql]

RunReply(c) ==
  /\ c.kind = "run" /\ c.step = "stored"
  /\ IF open
     THEN /\ Ends(c, [Cleared(res) EXCEPT !.id = c.id, !.sql = c.sql, !.analyzing = TRUE],
                  NoForm, {Analysis(c.id, c.sql, "none")})
          /\ shown' = c.rows
     ELSE Dropped(c) /\ UNCHANGED shown
  /\ gaps' = gaps \cup (IF open /\ res.id > c.id THEN {"overtaken"} ELSE {})
  /\ UNCHANGED <<open, cache, db, inserted, typed>>

RunFailed(c) ==
  /\ c.kind = "run" /\ c.step = "sent"
  /\ IF open THEN Ends(c, [Cleared(res) EXCEPT !.id = 0, !.sql = 0], NoForm, {}) ELSE Dropped(c)
  /\ UNCHANGED <<open, shown, cache, db, inserted, typed, gaps>>

(* The refresh after an insert is dropped if the result was replaced. It    *)
(* keeps the edit mode, and the form with the base index it has in the      *)
(* replaced result: the statement is the same.                              *)
RefreshReply(c) ==
  /\ c.kind = "refresh" /\ c.step = "stored"
  /\ IF ~open THEN Dropped(c) /\ UNCHANGED shown
     ELSE IF res.id # c.of THEN Ends(c, res, form, {}) /\ UNCHANGED shown
     ELSE /\ Ends(c, [res EXCEPT !.id = c.id, !.stale = FALSE, !.saveError = FALSE,
                                 !.analyzing = TRUE],
                  form, {Analysis(c.id, c.sql, "none")})
          /\ shown' = c.rows
  /\ gaps' = gaps \cup (IF open /\ res.id # c.of THEN {"dropped"} ELSE {})
  /\ UNCHANGED <<open, cache, db, inserted, typed>>

RefreshFailed(c) ==
  /\ c.kind = "refresh" /\ c.step = "sent"
  /\ IF open THEN Ends(c, [res EXCEPT !.stale = TRUE], form, {}) ELSE Dropped(c)
  /\ UNCHANGED <<open, shown, cache, db, inserted, typed, gaps>>

-----------------------------------------------------------------------------
(* Analysis and edit mode. *)

EnterMode == [res EXCEPT !.mode = TRUE, !.saveError = FALSE]

SetEditMode ==
  /\ open /\ res.id # 0 /\ ~res.mode
  /\ IF res.meta # 0
     THEN res' = EnterMode /\ form' = NoForm /\ UNCHANGED <<calls, issued>>
     ELSE /\ Issue(Analysis(res.id, res.sql, "mode"))
          /\ res' = [res EXCEPT !.analyzing = TRUE]
          /\ UNCHANGED form
  /\ UNCHANGED <<open, pending, shown, cache, db, inserted, typed, gaps>>

AnalysisReplyUnchecked(c, ok, newest) ==
  /\ c.kind = "analyze"
  /\ newest
  /\ Settle(c)
  /\ res' = IF open THEN [res EXCEPT !.meta = c.sql, !.analyzing = FALSE, !.mode = @ \/ c.then = "mode"] ELSE res
  /\ UNCHANGED <<open, form, pending, shown, cache, db, inserted, issued, typed, gaps>>

AnalysisReplyKeepsFlag(c, ok, newest) ==
  /\ c.kind = "analyze"
  /\ newest
  /\ Settle(c)
  /\ res' = IF open /\ res.id = c.of /\ ok
            THEN [res EXCEPT !.meta = c.sql, !.analyzing = FALSE] ELSE res
  /\ UNCHANGED <<open, form, pending, shown, cache, db, inserted, issued, typed, gaps>>

(* The metadata of the analysed statement is kept only by a result of the   *)
(* same query id. A stale answer clears the flag if no analysis, of any     *)
(* tab, started since.                                                      *)
AnalysisReply(c, ok, newest) ==
  /\ c.kind = "analyze"
  /\ newest => ~\E d \in calls : d.kind = "analyze" /\ d.id > c.id
  /\ Settle(c)
  /\ IF ~open THEN UNCHANGED <<res, form>>
     ELSE IF res.id # c.of
     THEN res' = [res EXCEPT !.analyzing = @ /\ ~newest] /\ UNCHANGED form
     ELSE IF ok
     THEN /\ res' = [res EXCEPT !.meta = c.sql, !.analyzing = FALSE,
                                !.mode = @ \/ c.then = "mode",
                                !.saveError = @ /\ c.then # "mode"]
          /\ form' = IF c.then = "mode" THEN NoForm ELSE form
     ELSE res' = [res EXCEPT !.analyzing = FALSE] /\ UNCHANGED form
  /\ UNCHANGED <<open, pending, shown, cache, db, inserted, issued, typed, gaps>>

LeaveEditMode ==
  /\ open /\ res.mode /\ ~form.modified
  /\ res' = [res EXCEPT !.mode = FALSE, !.analyzing = FALSE, !.saveError = FALSE, !.stale = FALSE]
  /\ form' = NoForm
  /\ UNCHANGED <<open, pending, shown, cache, db, inserted, calls, issued, typed, gaps>>

-----------------------------------------------------------------------------
(* The form. The dialog of a pending navigation blocks it. *)

Typing == open /\ res.mode /\ pending = "none"

StartEditingRow(r) ==
  /\ Typing /\ ~form.modified /\ form.row # r
  /\ form' = [row |-> r, value |-> shown[r], modified |-> FALSE, of |-> res.id]
  /\ res' = [res EXCEPT !.saveError = FALSE]
  /\ UNCHANGED <<open, pending, shown, cache, db, inserted, calls, issued, typed, gaps>>

UpdateCellValue ==
  /\ Typing /\ form.row # NoRow /\ typed < MaxTyped
  /\ typed' = typed + 1
  /\ form' = [form EXCEPT !.value = typed + 1, !.modified = TRUE]
  /\ res' = [res EXCEPT !.saveError = FALSE]
  /\ UNCHANGED <<open, pending, shown, cache, db, inserted, calls, issued, gaps>>

CloneSelectedRow ==
  /\ Typing /\ ~form.modified /\ form.row # Draft /\ typed < MaxTyped
  /\ typed' = typed + 1
  /\ form' = [row |-> Draft, value |-> typed + 1, modified |-> TRUE, of |-> res.id]
  /\ res' = [res EXCEPT !.saveError = FALSE, !.stale = FALSE]
  /\ UNCHANGED <<open, pending, shown, cache, db, inserted, calls, issued, gaps>>

DiscardKeepsModified ==
  /\ open /\ form.row # NoRow
  /\ form' = [form EXCEPT !.row = NoRow]
  /\ res' = [res EXCEPT !.saveError = FALSE]
  /\ UNCHANGED <<open, pending, shown, cache, db, inserted, calls, issued, typed, gaps>>

DiscardCurrentRow ==
  /\ open /\ form.row # NoRow
  /\ form' = NoForm
  /\ res' = [res EXCEPT !.saveError = FALSE]
  /\ UNCHANGED <<open, pending, shown, cache, db, inserted, calls, issued, typed, gaps>>

-----------------------------------------------------------------------------
(* Saving: nothing stops a second save while the first is in flight. *)

(* The row whose base index the form has, in the result on screen: a result *)
(* that was refreshed since may have any other row there, also a new one.   *)
Addressed ==
  IF form.row = Draft \/ form.of = res.id THEN {form.row} ELSE Rows \cup {NoRow}

SaveModified(then) ==
  /\ \E at \in Addressed :
       Issue([Call(IF form.row = Draft THEN "insert" ELSE "update", form.row, form.value, then)
                EXCEPT !.at = at])
  /\ gaps' = gaps \cup (IF \E c \in Saves : c.row = form.row THEN {"resaved"} ELSE {})
  /\ UNCHANGED <<res, form>>

SaveCurrentRow ==
  /\ open /\ res.mode /\ form.row # NoRow
  /\ IF form.modified THEN SaveModified("none")
     ELSE /\ form' = NoForm
          /\ res' = [res EXCEPT !.saveError = FALSE]
          /\ UNCHANGED <<calls, issued, gaps>>
  /\ UNCHANGED <<open, pending, shown, cache, db, inserted, typed>>

WritesTable(c) ==
  /\ c.kind \in {"update", "insert"} /\ c.step = "sent"
  /\ Advance(c, [c EXCEPT !.step = "done"])
  /\ IF c.kind = "update"
     THEN db' = [db EXCEPT ![c.row] = c.value] /\ UNCHANGED inserted
     ELSE inserted' = [inserted EXCEPT ![c.value] = @ + 1] /\ UNCHANGED db
  /\ UNCHANGED <<open, res, form, pending, shown, cache, issued, typed, gaps>>

WriteFailed(c) ==
  /\ c.kind \in {"update", "insert"} /\ c.step = "sent"
  /\ IF open THEN Ends(c, [res EXCEPT !.saveError = TRUE], form, {}) ELSE Dropped(c)
  /\ UNCHANGED <<open, shown, cache, db, inserted, typed, gaps>>

(* The UPDATE's answer: the saved row is copied to the backend's cache,     *)
(* under the query id the result had when the save began.                   *)
UpdateReply(c) ==
  /\ c.kind = "update" /\ c.step = "done"
  /\ IF open
     THEN Advance(c, [c EXCEPT !.kind = "sync", !.step = "sent"])
     ELSE Settle(c)
  /\ UNCHANGED <<open, res, form, pending, shown, cache, db, inserted, issued, typed, gaps>>

Patched(rows, c) == [r \in Rows |-> IF r = c.at THEN c.value ELSE rows[r]]

SyncsAnyCache(c) ==
  /\ c.kind = "sync" /\ c.step = "sent"
  /\ cache' = [cache EXCEPT !.rows = Patched(@, c)]
  /\ Advance(c, [c EXCEPT !.step = "stored"])
  /\ UNCHANGED <<open, res, form, pending, shown, db, inserted, issued, typed, gaps>>

SyncsCache(c) ==
  /\ c.kind = "sync" /\ c.step = "sent"
  /\ IF cache.id = c.of
     THEN /\ cache' = [cache EXCEPT !.rows = Patched(@, c)]
          /\ Advance(c, [c EXCEPT !.step = "stored"])
          /\ gaps' = gaps \cup (IF c.at # c.row THEN {"misplaced"} ELSE {})
     ELSE /\ Advance(c, [c EXCEPT !.step = "done"])    \* "Results were refreshed"
          /\ gaps' = gaps \cup (IF cache.rows # db THEN {"reread"} ELSE {})
          /\ UNCHANGED cache
  /\ UNCHANGED <<open, res, form, pending, shown, db, inserted, issued, typed>>

(* Any other failure is a warning: the page is patched all the same. *)
SyncFails(c) ==
  /\ c.kind = "sync" /\ c.step = "sent"
  /\ Advance(c, [c EXCEPT !.step = "stored"])
  /\ gaps' = gaps \cup {"warned"}
  /\ UNCHANGED <<open, res, form, pending, shown, cache, db, inserted, issued, typed>>

(* The loaded page and the form follow. *)
Saved == [res EXCEPT !.saveError = FALSE, !.stale = FALSE]

SyncReplyForgetsPage(c) ==
  /\ c.kind = "sync" /\ c.step \in {"stored", "done"}
  /\ IF open THEN Ends(c, Saved, NoForm, {}) ELSE Dropped(c)
  /\ UNCHANGED <<open, shown, cache, db, inserted, typed, gaps>>

SyncReply(c) ==
  /\ c.kind = "sync" /\ c.step \in {"stored", "done"}
  /\ IF open
     THEN /\ Ends(c, Saved, NoForm, {})
          /\ shown' = IF c.step = "stored" /\ res.id = c.of THEN Patched(shown, c) ELSE shown
     ELSE Dropped(c) /\ UNCHANGED shown
  /\ UNCHANGED <<open, cache, db, inserted, typed, gaps>>

InsertReplyKeepsDraft(c) ==
  /\ c.kind = "insert" /\ c.step = "done"
  /\ Settle(c)
  /\ res' = IF open THEN Saved ELSE res
  /\ UNCHANGED <<open, form, pending, shown, cache, db, inserted, issued, typed, gaps>>

InsertReply(c) ==
  /\ c.kind = "insert" /\ c.step = "done"
  /\ IF open
     THEN /\ res' = Saved
          /\ form' = NoForm
          /\ issued < MaxCalls /\ issued' = issued + 1
          /\ Advance(c, [c EXCEPT !.kind = "refresh", !.step = "sent", !.id = issued + 1])
     ELSE Settle(c) /\ UNCHANGED <<res, form, issued>>
  /\ UNCHANGED <<open, pending, shown, cache, db, inserted, typed, gaps>>

-----------------------------------------------------------------------------
(* Navigation: running the query again, or leaving the row. *)

RequestNavigationAction(action) ==
  /\ open /\ pending = "none"
  /\ action = "run" \/ form.row # NoRow
  /\ IF form.modified
     THEN pending' = action /\ UNCHANGED <<res, form, calls, issued>>
     ELSE /\ UNCHANGED pending
          /\ IF action = "run" THEN ExecuteQuery
             ELSE form' = NoForm /\ UNCHANGED <<res, calls, issued>>
  /\ UNCHANGED <<open, shown, cache, db, inserted, typed, gaps>>

ConfirmBySaving ==
  /\ open /\ pending # "none" /\ res.mode /\ form.modified
  /\ ~\E c \in calls : c.then = "nav"        \* the dialog's button is disabled
  /\ SaveModified("nav")
  /\ UNCHANGED <<open, pending, shown, cache, db, inserted, typed>>

ConfirmByDiscarding ==
  /\ open /\ pending # "none"
  /\ pending' = "none"
  /\ form' = NoForm
  /\ IF pending = "run" /\ ~Running
     THEN /\ issued < MaxCalls /\ issued' = issued + 1
          /\ calls' = Orphaned(calls) \cup {RunCall(issued + 1)}
          /\ res' = Cleared(res)
     ELSE /\ calls' = Orphaned(calls)
          /\ res' = [res EXCEPT !.saveError = FALSE]
          /\ UNCHANGED issued
  /\ UNCHANGED <<open, shown, cache, db, inserted, typed, gaps>>

CancelNavigation ==
  /\ open /\ pending # "none"
  /\ pending' = "none"
  /\ calls' = Orphaned(calls)
  /\ UNCHANGED <<open, res, form, shown, cache, db, inserted, issued, typed, gaps>>

CloseTab ==
  /\ open
  /\ open' = FALSE
  /\ pending' = "none" /\ form' = NoForm
  /\ res' = [Cleared(res) EXCEPT !.id = 0, !.sql = 0]
  /\ UNCHANGED <<shown, cache, db, inserted, calls, issued, typed, gaps>>

Backend ==
  \E c \in calls :
    \/ ReadsTable(c) \/ StoresRows(c) \/ WritesTable(c) \/ SyncsCache(c) \/ SyncFails(c)

Reply ==
  \E c \in calls :
    \/ RunReply(c) \/ RunFailed(c) \/ RefreshReply(c) \/ RefreshFailed(c)
    \/ \E ok, newest \in BOOLEAN : AnalysisReply(c, ok, newest)
    \/ WriteFailed(c) \/ UpdateReply(c) \/ SyncReply(c) \/ InsertReply(c)

User ==
  /\ Cardinality(gaps) <= MaxGaps
  /\ \/ SetEditMode \/ LeaveEditMode
     \/ \E r \in Rows : StartEditingRow(r)
     \/ UpdateCellValue \/ CloneSelectedRow \/ DiscardCurrentRow \/ SaveCurrentRow
     \/ \E action \in Actions \ {"none"} : RequestNavigationAction(action)
     \/ ConfirmBySaving \/ ConfirmByDiscarding \/ CancelNavigation \/ CloseTab

Next == Backend \/ Reply \/ User

Spec == Init /\ [][Next]_vars /\ WF_vars(Backend \/ Reply)

-----------------------------------------------------------------------------
(* Properties *)

(* A result in edit mode is edited with the metadata of its own statement:  *)
(* an analysis that ends after the result was replaced leaves no trace.     *)
EditModeFitsResult == open /\ res.mode => res.id # 0 /\ res.meta = res.sql

(* When nothing is in flight the rows on screen are the rows of the table,  *)
(* unless a run had read the table before the save that it overtook wrote   *)
(* it ("reread"), two saves of one row were in flight ("resaved"), the user *)
(* was warned to run the query again, the answer of a refresh was dropped   *)
(* or came before that of an earlier run ("overtaken"), or a row was opened *)
(* for editing before a refresh and saved after it, under the base index it *)
(* had before ("misplaced").                                                *)
ShownMatchesTable ==
  open /\ res.id # 0 /\ calls = {} /\ gaps = {} => shown = db

(* A filter, a sort or an export reads the backend's rows: they are the     *)
(* ones on screen, unless the user was warned, one row was saved twice at   *)
(* once (also by a misplaced save), or a refresh was dropped or overtaken   *)
(* after the backend had stored its rows.                                   *)
CacheMatchesScreen ==
  open /\ res.id # 0 /\ calls = {} /\ gaps \subseteq {"reread"}
    => cache.id = res.id /\ cache.rows = shown

(* A cloned row is inserted once, unless Save was pressed again while the   *)
(* insert was in flight: nothing in the store prevents that.                *)
InsertedOnce == "resaved" \notin gaps => \A v \in Values : inserted[v] <= 1

(* The edit belongs to the result on screen and is written once.            *)
EditInv == TypeOK /\ EditModeFitsResult /\ InsertedOnce

(* The three copies of a row, in the table, in the backend's cache and on   *)
(* screen, agree once the calls that move it have ended.                    *)
CopiesAgree == ShownMatchesTable /\ CacheMatchesScreen

(* A run that was held back by a modified row starts after "Save" only when *)
(* the table has the row as it was typed.                                   *)
DeferredRunKeepsEdit ==
  [][open /\ pending = "run" /\ pending' = "none" /\ form.modified /\ form.row \in Rows
       /\ (\E c \in calls : c.then = "nav" /\ \A d \in calls' : d.id # c.id)
     => db[form.row] = form.value \/ "resaved" \in gaps]_vars

(* An analysis indicator goes away.                                         *)
AnalysisEnds == (open /\ res.analyzing) ~> ~(open /\ res.analyzing)

(* What the comment on a refused sync claims: the new result came from the  *)
(* database, so there is nothing to patch.                                  *)
RefreshedResultIsCurrent ==
  open /\ res.id # 0 /\ calls = {} /\ gaps \subseteq {"reread"} => shown = db

=============================================================================
