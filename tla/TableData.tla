----------------------------- MODULE TableData -----------------------------
(***************************************************************************)
(* One table-data tab: its rows loaded under a changing sort and filter,   *)
(* one row edited, inserted or deleted at a time, the rows evicted from a  *)
(* hidden tab and restored from the page the backend has cached.           *)
(*                                                                         *)
(* A view stands for a sort, filter and page size. A page turned to is a   *)
(* refresh: it shows the table as the load read it.                        *)
(***************************************************************************)
EXTENDS Integers, FiniteSets

CONSTANTS MaxRows,   \* bound on the rows ever in the table
          MaxTyped,  \* values a cell can have: 0 .. MaxTyped
          MaxViews,  \* bound on the views asked for
          MaxCalls,  \* bound on the calls issued
          MaxRaces   \* bound on the races the user goes on after

VARIABLES db,      \* the table: value of each row, or Gone
          born,    \* rows inserted so far
          tab,     \* TableDataTabState, with whether the tab exists and is visible
          page,    \* its rows, and whether a draft row is behind them
          edit,    \* its RowEditState
          pending, \* the navigation its unsaved-changes dialog holds back
          cache,   \* the page the backend has cached
          timer,   \* the inactive timer is set
          calls,   \* calls awaiting a reply
          issued,  \* calls issued so far
          gaps     \* ghost: the races, named at Gaps, met so far

ASSUME BoundsAssumption ==
  /\ MaxRows \in Nat \ {0} /\ MaxCalls \in Nat \ {0}
  /\ MaxTyped \in Nat /\ MaxViews \in Nat /\ MaxRaces \in Nat

vars == <<db, born, tab, page, edit, pending, cache, timer, calls, issued, gaps>>

Gone  == -1
Rows  == 1 .. MaxRows
Draft == 0                   \* the row of an edit state that is new
Vals  == Gone .. MaxTyped
Views == 0 .. MaxViews

NoRows    == [r \in Rows |-> Gone]
NoPage    == [of |-> 0, rows |-> NoRows, draft |-> FALSE]
NotEdited == [on |-> FALSE, row |-> Draft, from |-> 0, to |-> 0, modified |-> FALSE]

Navigations == {"view", "refresh", "insert"}
CallKinds   == {"load", "restore", "save", "delete", "sync", "cancel"}
PageType    == [of : Views, rows : [Rows -> Vals], draft : BOOLEAN]
EditType    == [on : BOOLEAN, row : 0 .. MaxRows, from : 0 .. MaxTyped, to : 0 .. MaxTyped,
                modified : BOOLEAN]
TabType     == [open : BOOLEAN, visible : BOOLEAN, view : Views, loading : BOOLEAN,
                cancelling : BOOLEAN, error : BOOLEAN, saveError : BOOLEAN,
                residency : {"resident", "evicted", "restoring"}]
CallType    == [kind : CallKinds, id : 1 .. MaxCalls, of : Views, read : BOOLEAN,
                barred : BOOLEAN, page : PageType, edit : EditType, dialog : BOOLEAN]

(* The variables have their types, only a tab that exists and is hidden    *)
(* waits to be evicted, and (no race met) an evicted tab shows nothing.    *)
TypeOK ==
  /\ db \in [Rows -> Vals] /\ born \in Rows
  /\ tab \in TabType
  /\ page \in PageType /\ cache \in PageType /\ edit \in EditType
  /\ pending \in Navigations \cup {"none"}
  /\ calls \subseteq CallType
  /\ timer \in BOOLEAN /\ issued \in 0 .. MaxCalls
  /\ gaps \subseteq {"overlap", "phantom", "dropped", "evicted", "typed", "failed"}
  /\ timer => tab.open /\ ~tab.visible
  /\ tab.residency = "evicted" /\ gaps = {} => page.rows = NoRows /\ ~edit.on

-----------------------------------------------------------------------------
(* Calls. *)

NewCall(kind, view) ==
  [kind |-> kind, id |-> issued + 1, of |-> view, read |-> FALSE, barred |-> FALSE,
   page |-> NoPage, edit |-> NotEdited, dialog |-> FALSE]

Issue(c, rest) ==
  /\ issued < MaxCalls
  /\ issued' = issued + 1
  /\ calls' = rest \cup {c}

Settle(c) == calls' = calls \ {c} /\ UNCHANGED issued

Working(cs) == {c \in cs : c.kind # "cancel"}

Modified == edit.on /\ edit.modified
Dirty    == edit.on /\ (edit.modified \/ edit.row = Draft)

(* overlap: two calls under way at once, a load and a save, say, whose     *)
(*   replies then undo one another;                                        *)
(* phantom: a draft row without its edit state or the other way round;     *)
(* dropped: a save, a delete or a retry ends an edit it was not of;        *)
(* evicted: rows are evicted under a delete, which then patches no cache;  *)
(* typed: a delete's rows hold what is typed in another row, not saved;    *)
(* failed: a load fails under a sort or filter the rows are not in.        *)
CarriesTyped(c) ==
  /\ ~c.edit.on /\ (c.kind = "sync" \/ (c.kind = "delete" /\ ~c.read))
  /\ edit'.on /\ edit'.row # Draft /\ c.page.rows[edit'.row] = edit'.to

Gaps ==
  (IF \E c, d \in Working(calls') : c # d THEN {"overlap"} ELSE {})
  \cup (IF \E c \in calls' \ calls : CarriesTyped(c) THEN {"typed"} ELSE {})
  \cup (IF tab'.open /\ page'.draft # (edit'.on /\ edit'.row = Draft) THEN {"phantom"} ELSE {})
  \cup (IF /\ Dirty /\ ~edit'.on
           /\ \/ tab.error /\ tab'.loading
              \/ \E c \in calls \ calls' : c.kind = "sync" /\ c.edit # edit
        THEN {"dropped"} ELSE {})
  \cup (IF tab'.residency = "evicted" /\ tab.residency # "evicted" /\ Working(calls') # {} THEN {"evicted"} ELSE {})
  \cup (IF tab'.error /\ page'.of # tab'.view THEN {"failed"} ELSE {})

Note == gaps' = gaps \cup Gaps

-----------------------------------------------------------------------------
(* Loading. *)

Loading(t) == [t EXCEPT !.loading = TRUE, !.cancelling = FALSE, !.error = FALSE]

Init ==
  /\ born \in Rows /\ db = [r \in Rows |-> IF r <= born THEN 0 ELSE Gone]
  /\ tab = [open |-> TRUE, visible |-> TRUE, view |-> 0, loading |-> TRUE, cancelling |-> FALSE,
            error |-> FALSE, saveError |-> FALSE, residency |-> "resident"]
  /\ page = NoPage /\ cache = NoPage /\ edit = NotEdited /\ pending = "none" /\ timer = FALSE
  /\ calls = {[kind |-> "load", id |-> 1, of |-> 0, read |-> FALSE, barred |-> FALSE,
               page |-> NoPage, edit |-> NotEdited, dialog |-> FALSE]}
  /\ issued = 1 /\ gaps = {}

(* Busy: while a load or restore is under way, or behind the dialog.       *)
Usable == tab.open /\ tab.visible /\ ~tab.loading /\ pending = "none"
OnGrid == Usable /\ ~tab.error /\ tab.residency = "resident"

DraftEdit(seeded) == [on |-> TRUE, row |-> Draft, from |-> 0, to |-> 0, modified |-> seeded]

(* insertNewRow and cloneSelectedRow: with no column default to seed, the  *)
(* draft counts as unmodified.                                             *)
AppendDraftRow(p) ==
  /\ page' = [p EXCEPT !.draft = TRUE]
  /\ \E seeded \in BOOLEAN : edit' = DraftEdit(seeded)

(* A navigation starts in the tab state t, over page p and edit state e.   *)
(* A new sort, filter or page size counts at once, before its rows arrive. *)
Navigate(action, t, p, e, rest) ==
  \/ /\ action = "view" /\ t.view < MaxViews
     /\ tab' = Loading([t EXCEPT !.view = @ + 1])
     /\ Issue(NewCall("load", t.view + 1), rest)
     /\ page' = p /\ edit' = e
  \/ /\ action = "refresh"
     /\ tab' = Loading(t)
     /\ Issue(NewCall("load", t.view), rest)
     /\ page' = p /\ edit' = e
  \/ /\ action = "insert"
     /\ AppendDraftRow(p)
     /\ tab' = [t EXCEPT !.saveError = FALSE]
     /\ calls' = rest /\ UNCHANGED issued
  \/ /\ action = "none"
     /\ tab' = t /\ page' = p /\ edit' = e /\ calls' = rest /\ UNCHANGED issued

(* Only a modified row is asked about. *)
RequestNavigationAction(action) ==
  /\ Usable
  /\ action = "insert" => OnGrid /\ ~(edit.on /\ edit.row = Draft)
  /\ IF Modified
     THEN pending' = action /\ UNCHANGED <<tab, page, edit, calls, issued>>
     ELSE Navigate(action, tab, page, edit, calls) /\ UNCHANGED pending
  /\ UNCHANGED <<db, born, cache, timer>>
  /\ Note

(* Retry, after an error, starts over. *)
LoadTableData ==
  /\ Usable /\ tab.error
  /\ tab' = Loading([tab EXCEPT !.saveError = FALSE])
  /\ Issue(NewCall("load", tab.view), calls)
  /\ edit' = NotEdited
  /\ UNCHANGED <<db, born, page, pending, cache, timer>>
  /\ Note

(* The query runs and its page is cached, unless the cache was evicted     *)
(* since the call.                                                         *)
LoadReads(c) ==
  LET read == [of |-> c.of, rows |-> db, draft |-> FALSE]
  IN /\ c.kind = "load" /\ ~c.read
     /\ calls' = (calls \ {c}) \cup {[c EXCEPT !.read = TRUE, !.page = read]}
     /\ cache' = IF c.barred THEN cache ELSE read
     /\ UNCHANGED <<db, born, tab, page, edit, pending, timer, issued>>
     /\ Note

EvictableAnywhere(t, p) == t.residency = "resident" /\ p.rows # NoRows /\ ~Dirty

(* The rows of a hidden tab wait for the inactive timer, unless edited.    *)
Evictable(t, p) == ~t.visible /\ t.residency = "resident" /\ (p.draft \/ p.rows # NoRows) /\ ~Dirty

(* The rows are replaced; an edit state stays, though its draft row went.  *)
LoadReply(c) ==
  /\ c.kind = "load" /\ c.read
  /\ Settle(c)
  /\ IF tab.open
     THEN /\ page' = c.page
          /\ tab' = [tab EXCEPT !.loading = FALSE, !.cancelling = FALSE, !.residency = "resident"]
          /\ timer' = (timer \/ Evictable(tab', c.page))
     ELSE UNCHANGED <<page, tab, timer>>
  /\ UNCHANGED <<db, born, edit, pending, cache>>
  /\ Note

FailureKeepsFlags(t) == [t EXCEPT !.error = TRUE, !.cancelling = FALSE]
FailureIsSilent(t)   == [t EXCEPT !.loading = FALSE, !.cancelling = FALSE]

Failure(t) == [t EXCEPT !.error = TRUE, !.loading = FALSE, !.cancelling = FALSE]

(* A failed load leaves the rows, and the sort or filter it was for. *)
LoadFails(c) ==
  /\ c.kind = "load" /\ ~c.read
  /\ Settle(c)
  /\ tab' = IF tab.open THEN Failure(tab) ELSE tab
  /\ UNCHANGED <<db, born, page, edit, pending, cache, timer>>
  /\ Note

CancelLoad ==
  /\ tab.open /\ tab.visible /\ tab.loading /\ ~tab.cancelling /\ tab.residency # "restoring"
  /\ Issue(NewCall("cancel", 0), calls)
  /\ tab' = [tab EXCEPT !.cancelling = TRUE]
  /\ UNCHANGED <<db, born, page, edit, pending, cache, timer>>
  /\ Note

(* The load of a query that is killed resets the flag itself. *)
CancelReply(c) ==
  /\ c.kind = "cancel"
  /\ Settle(c)
  /\ tab' = IF tab.open /\ ~\E l \in calls : l.kind = "load" /\ ~l.read
            THEN [tab EXCEPT !.cancelling = FALSE] ELSE tab
  /\ UNCHANGED <<db, born, page, edit, pending, cache, timer>>
  /\ Note

-----------------------------------------------------------------------------
(* Residency. *)

MarkSurfaceInactive ==
  /\ tab.open /\ tab.visible /\ pending = "none"
  /\ tab' = [tab EXCEPT !.visible = FALSE]
  /\ timer' = Evictable(tab', page)
  /\ UNCHANGED <<db, born, page, edit, pending, cache, calls, issued>>
  /\ Note

MarkSurfaceActive ==
  /\ tab.open /\ ~tab.visible
  /\ timer' = FALSE
  /\ IF tab.residency = "evicted"
     THEN /\ tab' = [tab EXCEPT !.visible = TRUE, !.loading = TRUE, !.error = FALSE,
                                !.residency = "restoring"]
          /\ Issue(NewCall("restore", 0), calls)
     ELSE tab' = [tab EXCEPT !.visible = TRUE] /\ UNCHANGED <<calls, issued>>
  /\ UNCHANGED <<db, born, page, edit, pending, cache>>
  /\ Note

EvictInactiveRows ==
  /\ timer
  /\ timer' = FALSE
  /\ IF tab.residency # "resident" \/ Dirty
     THEN UNCHANGED <<tab, page, edit>>
     ELSE /\ page' = [NoPage EXCEPT !.of = page.of]
          /\ edit' = NotEdited
          /\ tab' = [tab EXCEPT !.saveError = FALSE, !.residency = "evicted"]
  /\ UNCHANGED <<db, born, pending, cache, calls, issued>>
  /\ Note

Unavailable(t) == [t EXCEPT !.loading = FALSE, !.error = TRUE, !.residency = "evicted"]

RestoreReply(c) ==
  /\ c.kind = "restore"
  /\ Settle(c)
  /\ CASE ~tab.open -> UNCHANGED <<tab, page>>
       [] tab.open /\ cache # NoPage ->
            /\ page' = cache
            /\ tab' = [tab EXCEPT !.loading = FALSE, !.error = FALSE, !.saveError = FALSE,
                                  !.residency = "resident"]
       [] OTHER -> tab' = Unavailable(tab) /\ UNCHANGED page
  /\ UNCHANGED <<db, born, edit, pending, cache, timer>>
  /\ Note

CacheExpires ==
  /\ tab.open /\ cache # NoPage
  /\ cache' = NoPage
  /\ UNCHANGED <<db, born, tab, page, edit, pending, timer, calls, issued>>
  /\ Note

-----------------------------------------------------------------------------
(* Editing. *)

(* startEditing, updateCellValue, syncCellValue and, back at the value it  *)
(* had, clearEditStateIfUnmodified.                                        *)
Typed(row, v, from) ==
  /\ page' = IF row = Draft \/ page.rows[row] = Gone THEN page ELSE [page EXCEPT !.rows[row] = v]
  /\ edit' = IF row # Draft /\ v = from THEN NotEdited
             ELSE [on |-> TRUE, row |-> row, from |-> from, to |-> v, modified |-> v # from]

(* In another row once the edited one is clean: leaving it saves it. *)
EditCell ==
  /\ OnGrid
  /\ \E row \in Rows \cup {Draft}, v \in 0 .. MaxTyped :
       \/ edit.on /\ edit.row = row /\ v # edit.to /\ Typed(row, v, edit.from)
       \/ /\ ~Dirty /\ row # Draft /\ page.rows[row] \notin {Gone, v}
          /\ Typed(row, v, page.rows[row])
  /\ tab' = [tab EXCEPT !.saveError = FALSE]
  /\ UNCHANGED <<db, born, pending, cache, timer, calls, issued>>
  /\ Note

(* saveCurrentRow of a row that counts as modified; the rows the reply     *)
(* will show are those at the call.                                        *)
SaveModified(dialog) ==
  /\ Modified
  /\ Issue([NewCall("save", 0) EXCEPT !.page = page, !.edit = edit, !.dialog = dialog], calls)

(* One that does not is nothing to save, though it be a draft. *)
Save ==
  /\ OnGrid /\ Dirty
  /\ IF edit.modified
     THEN SaveModified(FALSE) /\ UNCHANGED <<tab, edit>>
     ELSE /\ edit' = NotEdited
          /\ tab' = [tab EXCEPT !.saveError = FALSE]
          /\ UNCHANGED <<calls, issued>>
  /\ UNCHANGED <<db, born, page, pending, cache, timer>>
  /\ Note

(* applyInsertedRow and applyUpdatedRow. *)
InsertedRow(p, v) == [p EXCEPT !.rows[born + 1] = v, !.draft = FALSE]

UpdatedRow(p, e) == [p EXCEPT !.rows[e.row] = IF @ = Gone THEN Gone ELSE e.to]

(* The write has happened; its rows go to the cache before the screen.     *)
Sync(c, rows) ==
  IF tab.open
  THEN Issue([NewCall("sync", tab.view) EXCEPT !.page = rows, !.edit = c.edit, !.dialog = c.dialog],
             calls \ {c})
  ELSE Settle(c)

InsertReply(c) ==
  /\ c.kind = "save" /\ c.edit.row = Draft /\ born < MaxRows
  /\ born' = born + 1
  /\ db' = [db EXCEPT ![born + 1] = c.edit.to]
  /\ Sync(c, InsertedRow(c.page, c.edit.to))
  /\ UNCHANGED <<tab, page, edit, pending, cache, timer>>
  /\ Note

UpdateReply(c) ==
  /\ c.kind = "save" /\ c.edit.row # Draft
  /\ db' = [db EXCEPT ![c.edit.row] = IF @ = Gone THEN Gone ELSE c.edit.to]
  /\ Sync(c, UpdatedRow(c.page, c.edit))
  /\ UNCHANGED <<born, tab, page, edit, pending, cache, timer>>
  /\ Note

(* The navigation stays pending, and the dialog open. *)
WriteFails(c) ==
  /\ c.kind \in {"save", "delete"}
  /\ Settle(c)
  /\ tab' = CASE ~tab.open -> tab
              [] tab.open /\ c.kind = "save" -> [tab EXCEPT !.saveError = TRUE]
              [] OTHER -> [tab EXCEPT !.error = TRUE]
  /\ UNCHANGED <<db, born, page, edit, pending, cache, timer>>
  /\ Note

PatchesNothing(c) == cache

(* sync_table_data_cache: only while a page is cached. *)
Patches(c) == IF cache = NoPage THEN NoPage ELSE [c.page EXCEPT !.of = c.of]

(* A page not patched is evicted, which bars the loads under way.          *)
Barred(cs) == IF cache = NoPage THEN {[c EXCEPT !.barred = c.kind = "load"] : c \in cs} ELSE cs

(* The rows of the call are shown, whatever came meanwhile, and whatever   *)
(* is being edited is not any more. After the dialog's save, the           *)
(* navigation that is pending now begins.                                  *)
SyncReply(c) ==
  LET saved == [tab EXCEPT !.saveError = FALSE, !.residency = "resident"]
      shown == [c.page EXCEPT !.of = page.of]
      rest  == Barred(calls \ {c})
  IN /\ c.kind = "sync"
     /\ IF tab.open
        THEN /\ cache' = Patches(c)
             /\ Navigate(IF c.dialog THEN pending ELSE "none", saved, shown, NotEdited, rest)
             /\ pending' = IF c.dialog THEN "none" ELSE pending
        ELSE Settle(c) /\ UNCHANGED <<tab, page, edit, pending, cache>>
     /\ UNCHANGED <<db, born, timer>>
     /\ Note

DiscardKeepsTyped == [page EXCEPT !.draft = FALSE]

(* The last row is taken for the draft, whichever it is. *)
LastRow == CHOOSE r \in Rows : page.rows[r] # Gone /\ \A s \in Rows : s > r => page.rows[s] = Gone

Discarded ==
  CASE edit.row = Draft /\ page.draft -> [page EXCEPT !.draft = FALSE]
    [] edit.row = Draft /\ ~page.draft /\ page.rows # NoRows -> [page EXCEPT !.rows[LastRow] = Gone]
    [] edit.row # Draft /\ page.rows[edit.row] # Gone -> [page EXCEPT !.rows[edit.row] = edit.from]
    [] OTHER -> page

DiscardCurrentRow ==
  /\ OnGrid /\ Dirty
  /\ page' = Discarded
  /\ edit' = NotEdited
  /\ tab' = [tab EXCEPT !.saveError = FALSE]
  /\ UNCHANGED <<db, born, pending, cache, timer, calls, issued>>
  /\ Note

OfRow(row) == [NotEdited EXCEPT !.row = row]

(* The selected row, or a checked one, is deleted; its own edit is         *)
(* discarded first. A selected row is taken out of the rows at the call, a *)
(* checked one out of those at the reply.                                  *)
DeleteRow ==
  /\ OnGrid
  /\ \E row \in Rows, checked \in BOOLEAN :
       LET own == edit.on /\ edit.row = row
       IN /\ page.rows[row] # Gone
          /\ page' = IF own THEN Discarded ELSE page
          /\ edit' = IF own THEN NotEdited ELSE edit
          /\ Issue([NewCall("delete", 0) EXCEPT !.read = checked, !.page = page',
                                                !.edit = OfRow(row)], calls)
  /\ UNCHANGED <<db, born, tab, pending, cache, timer>>
  /\ Note

DeleteReply(c) ==
  LET row  == c.edit.row
      from == IF c.read THEN page ELSE c.page
  IN /\ c.kind = "delete"
     /\ db' = [db EXCEPT ![row] = Gone]
     /\ IF from.rows[row] # Gone THEN Sync(c, [from EXCEPT !.rows[row] = Gone]) ELSE Settle(c)
     /\ UNCHANGED <<born, tab, page, edit, pending, cache, timer>>
     /\ Note

-----------------------------------------------------------------------------
(* The unsaved-changes dialog, and the end of the tab. *)

(* Its edit may be saved meanwhile by the toolbar's save. *)
ConfirmNavigationSave ==
  /\ tab.open /\ pending # "none"
  /\ \/ SaveModified(TRUE) /\ UNCHANGED <<tab, page, edit, pending>>
     \/ /\ ~Modified
        /\ Navigate(pending, [tab EXCEPT !.saveError = FALSE], page, NotEdited, calls)
        /\ pending' = "none"
  /\ UNCHANGED <<db, born, cache, timer>>
  /\ Note

ConfirmNavigationDiscard ==
  /\ tab.open /\ pending # "none"
  /\ Navigate(pending, [tab EXCEPT !.saveError = FALSE], IF edit.on THEN Discarded ELSE page,
              NotEdited, calls)
  /\ pending' = "none"
  /\ UNCHANGED <<db, born, cache, timer>>
  /\ Note

CancelNavigation ==
  /\ tab.open /\ pending # "none"
  /\ pending' = "none"
  /\ UNCHANGED <<db, born, tab, page, edit, cache, timer, calls, issued>>
  /\ Note

CleanupTab ==
  /\ tab.open
  /\ tab' = [tab EXCEPT !.open = FALSE, !.loading = FALSE, !.cancelling = FALSE]
  /\ page' = NoPage /\ edit' = NotEdited /\ pending' = "none" /\ timer' = FALSE
  /\ cache' = NoPage
  /\ calls' = {[c EXCEPT !.barred = c.kind = "load"] : c \in calls}
  /\ UNCHANGED <<db, born, issued>>
  /\ Note

-----------------------------------------------------------------------------
Reply(c) == \/ LoadReads(c) \/ LoadReply(c) \/ LoadFails(c) \/ CancelReply(c) \/ RestoreReply(c)
            \/ InsertReply(c) \/ UpdateReply(c) \/ WriteFails(c) \/ SyncReply(c) \/ DeleteReply(c)

User == \/ \E action \in Navigations : RequestNavigationAction(action)
        \/ LoadTableData \/ CancelLoad
        \/ MarkSurfaceInactive \/ MarkSurfaceActive
        \/ EditCell \/ Save \/ DiscardCurrentRow \/ DeleteRow
        \/ ConfirmNavigationSave \/ ConfirmNavigationDiscard \/ CancelNavigation
        \/ CleanupTab

(* The user goes on after up to MaxRaces races. *)
Next == \/ Cardinality(gaps) <= MaxRaces /\ User
        \/ EvictInactiveRows \/ CacheExpires
        \/ \E c \in calls : Reply(c)

Fairness == WF_vars(\E c \in calls : Reply(c))

Spec == Init /\ [][Next]_vars
FairSpec == Spec /\ Fairness

-----------------------------------------------------------------------------
(* With no call under way and none of the gaps met. *)
Settled == tab.open /\ gaps = {} /\ Working(calls) = {} /\ tab.residency = "resident"

(* Outside the gaps, a tab that has loaded shows the table, but for the    *)
(* value typed into the row being edited: saves, deletes and discards      *)
(* leave on screen what they left in the table, through evictions too.     *)
ShownMatchesTable ==
  Settled /\ page.rows # NoRows
    => page.rows = IF edit.on /\ edit.row # Draft THEN [db EXCEPT ![edit.row] = edit.to] ELSE db

(* Outside the gaps, the rows shown are those of the sort and filter the   *)
(* tab says they are: every load ends with the newest view's rows or in an *)
(* error.                                                                  *)
ShownMatchesView == Settled /\ ~tab.error => page.of = tab.view

(* Outside the gaps, what the backend has cached for the tab's next        *)
(* restore is the page as it was saved last: the rows shown, less the      *)
(* draft and the value being edited.                                       *)
CacheMatchesScreen ==
  Settled /\ cache # NoPage /\ page.rows # NoRows
    => /\ cache.of = page.of
       /\ ~cache.draft
       /\ cache.rows = IF edit.on /\ edit.row # Draft THEN [page.rows EXCEPT ![edit.row] = edit.from]
                       ELSE page.rows

(* The three copies of a row, in the table, in the backend's page and on    *)
(* screen, agree once the calls that move it have ended.                    *)
CopiesAgree == TypeOK /\ ShownMatchesTable /\ ShownMatchesView /\ CacheMatchesScreen

(* Loads, restores and cancellations all end: no tab stays busy.           *)
LoadSettles == (tab.loading \/ tab.cancelling) ~> ~(tab.loading \/ tab.cancelling)
=============================================================================
