--------------------------- MODULE TableDataProofs ---------------------------
(***************************************************************************)
(* Proofs about TableData, for any number of rows, values, views and       *)
(* calls: the three copies of a row agree once the calls that move it have *)
(* ended.                                                                  *)
(*                                                                         *)
(* Outside the gaps there is one call at work at most.  The inductive      *)
(* invariant says what holds when there is none, and for each kind of call *)
(* what it carries and what its reply will find.                           *)
(***************************************************************************)
EXTENDS TableData, TLAPS

GapNames == {"overlap", "phantom", "dropped", "evicted", "typed", "failed"}

Types ==
  /\ db \in [Rows -> Vals] /\ born \in Rows
  /\ tab \in TabType /\ page \in PageType /\ cache \in PageType /\ edit \in EditType
  /\ pending \in Navigations \cup {"none"}
  /\ calls \subseteq CallType
  /\ timer \in BOOLEAN /\ issued \in 0 .. MaxCalls
  /\ gaps \subseteq GapNames

\* Ids are handed out in order, and a delete is of a row.
CallsInv == \A c \in calls : c.id <= issued /\ (c.kind = "delete" => c.edit.row \in Rows)

\* The dialog is of a visible tab, the timer of a hidden one.
TabInv ==
  /\ ~tab.open => page = NoPage /\ edit = NotEdited
  /\ ~tab.visible => pending = "none"
  /\ timer => tab.open /\ ~tab.visible

----------
(* One call at work. *)

\* The value typed in a row that is in the table.
Editing == edit.on /\ edit.row # Draft

EditOK ==
  Editing => edit.modified /\ db[edit.row] # Gone /\ edit.from = db[edit.row] /\ edit.to # edit.from

\* The table as the screen should show it.
Base  == IF Editing THEN [db EXCEPT ![edit.row] = edit.to] ELSE db
Shown == page.rows = Base
Blank == page.rows = NoRows /\ ~edit.on /\ pending = "none"

RowsOK == EditOK /\ (Shown \/ Blank)

\* What is cached is the table, in view v.
CacheIs(v) == cache # NoPage => cache.rows = db /\ ~cache.draft /\ cache.of = v

\* Nothing is on its way but what is being edited.
Usual ==
  /\ RowsOK /\ page.of = tab.view /\ CacheIs(page.of)
  /\ tab.residency = "resident" /\ ~tab.error /\ ~tab.loading => Shown

\* Rows are there and stay there until the call ends.
AtRest == tab.residency = "resident" /\ ~tab.loading

LoadInv(c) ==
  /\ c.of = tab.view /\ ~c.barred /\ tab.loading /\ tab.residency # "restoring"
  /\ ~Editing /\ RowsOK
  /\ ~c.read => CacheIs(page.of)
  /\ c.read => CacheIs(tab.view) /\ c.page = [of |-> tab.view, rows |-> db, draft |-> FALSE]

RestoreInv(c) == tab.residency = "restoring" /\ Usual

SaveInv(c) ==
  /\ AtRest /\ Usual /\ c.edit.on
  /\ c.edit.row = Draft => c.page.rows = db
  /\ c.edit.row # Draft => /\ db[c.edit.row] # Gone /\ ~c.page.draft
                           /\ c.page.rows = [db EXCEPT ![c.edit.row] = c.edit.to]

DeleteInv(c) ==
  /\ AtRest /\ Usual /\ ~tab.error /\ ~c.dialog /\ ~c.edit.on /\ db[c.edit.row] # Gone
  /\ ~c.read => /\ c.page.rows[c.edit.row] # Gone
                /\ [c.page.rows EXCEPT ![c.edit.row] = Gone] = [db EXCEPT ![c.edit.row] = Gone]

SyncInv(c) ==
  /\ AtRest /\ page.of = tab.view
  /\ c.page.rows = db /\ c.of = tab.view /\ (c.dialog => ~c.page.draft)

CallInv(c) ==
  /\ c.kind = "load" => LoadInv(c)
  /\ c.kind = "restore" => RestoreInv(c)
  /\ c.kind = "save" => SaveInv(c)
  /\ c.kind = "delete" => DeleteInv(c)
  /\ c.kind = "sync" => SyncInv(c)

OneCall == \A c, d \in Working(calls) : c = d

WorkInv == /\ Working(calls) = {} => Usual
           /\ \A c \in Working(calls) : CallInv(c)

ScreenInv ==
  /\ page.draft <=> edit.on /\ edit.row = Draft
  /\ tab.error => page.of = tab.view
  /\ tab.loading => pending = "none"
  /\ tab.residency = "restoring" => tab.loading
  /\ tab.residency # "resident" => page.rows = NoRows /\ ~edit.on
  /\ pending # "none" => tab.visible /\ tab.residency = "resident"

Calm == OneCall /\ WorkInv /\ ScreenInv

TInv == Types /\ CallsInv /\ TabInv

IInv == TInv /\ (tab.open /\ gaps = {} => Calm)

----------
(* Types. *)

LEMMA ConstTypes ==
  /\ NoRows \in [Rows -> Vals] /\ NoPage \in PageType /\ NotEdited \in EditType
  /\ 0 \in Views /\ Gone \in Vals /\ 1 \in Rows /\ 1 \in 1 .. MaxCalls
  /\ \A v \in 0 .. MaxTyped : v \in Vals /\ v # Gone
  /\ \A v \in Vals : v # Gone => v \in 0 .. MaxTyped
  /\ \A r \in Rows : r \in 0 .. MaxRows /\ r # Draft
  /\ \A r \in 0 .. MaxRows : r # Draft => r \in Rows
BY BoundsAssumption DEF NoRows, NoPage, NotEdited, Views, Vals, Gone, Rows, Draft, PageType, EditType

LEMMA GapTypes == ASSUME TInv, Note PROVE gaps' \subseteq GapNames
BY DEF TInv, Types, Note, Gaps, GapNames

\* What a page becomes.
LEMMA PageTypes ==
  ASSUME NEW p \in PageType
  PROVE  /\ p.of \in Views /\ p.rows \in [Rows -> Vals] /\ p.draft \in BOOLEAN
         /\ \A b \in BOOLEAN : [p EXCEPT !.draft = b] \in PageType
         /\ \A v \in Views : [p EXCEPT !.of = v] \in PageType
         /\ \A r, v : v \in Vals => [p EXCEPT !.rows[r] = v] \in PageType
         /\ \A r \in Rows : p.rows[r] \in Vals
BY DEF PageType

LEMMA EditTypes ==
  ASSUME NEW e \in EditType
  PROVE  /\ e.on \in BOOLEAN /\ e.row \in 0 .. MaxRows /\ e.from \in 0 .. MaxTyped
         /\ e.to \in 0 .. MaxTyped /\ e.modified \in BOOLEAN
BY DEF EditType

LEMMA NewCallType ==
  ASSUME TInv, issued < MaxCalls, NEW kind \in CallKinds, NEW view \in Views
  PROVE  /\ NewCall(kind, view) \in CallType
         /\ NewCall(kind, view) = [kind |-> kind, id |-> issued + 1, of |-> view, read |-> FALSE,
                                   barred |-> FALSE, page |-> NoPage, edit |-> NotEdited,
                                   dialog |-> FALSE]
<1>1. issued + 1 \in 1 .. MaxCalls
  BY BoundsAssumption DEF TInv, Types
<1> QED BY <1>1, ConstTypes DEF NewCall, CallType

LEMMA CallTypes ==
  ASSUME NEW c \in CallType
  PROVE  /\ c.kind \in CallKinds /\ c.id \in 1 .. MaxCalls /\ c.of \in Views /\ c.read \in BOOLEAN
         /\ c.barred \in BOOLEAN /\ c.page \in PageType /\ c.edit \in EditType
         /\ c.dialog \in BOOLEAN
         /\ \A b \in BOOLEAN : [c EXCEPT !.barred = b] \in CallType
         /\ \A p \in PageType : [c EXCEPT !.read = TRUE, !.page = p] \in CallType
         /\ \A p \in PageType, e \in EditType, b \in BOOLEAN :
              [c EXCEPT !.page = p, !.edit = e, !.dialog = b] \in CallType
BY DEF CallType

----------
(* What the parts of an action do to types and ids. *)

Fits(cs) == cs \subseteq CallType
            /\ \A c \in cs : c.id <= issued /\ (c.kind = "delete" => c.edit.row \in Rows)

CallsOK == calls' \subseteq CallType /\ issued' \in 0 .. MaxCalls /\ CallsInv'

LEMMA CallsFit == ASSUME TInv PROVE Fits(calls) /\ \A c : Fits(calls \ {c})
BY DEF TInv, Types, CallsInv, Fits

LEMMA IssueTypes ==
  ASSUME TInv, NEW c \in CallType, c.id = issued + 1, c.kind = "delete" => c.edit.row \in Rows,
         NEW rest, Fits(rest), Issue(c, rest)
  PROVE  CallsOK
<1>1. /\ issued \in 0 .. MaxCalls /\ issued < MaxCalls /\ issued' = issued + 1
      /\ calls' = rest \cup {c} /\ MaxCalls \in Nat
  BY BoundsAssumption DEF TInv, Types, Issue
<1>2. \A d \in rest : d.id \in Nat
  BY DEF Fits, CallType
<1>3. \A d \in calls' : d.id <= issued' /\ (d.kind = "delete" => d.edit.row \in Rows)
  BY <1>1, <1>2 DEF Fits
<1> QED BY <1>1, <1>3 DEF Fits, CallsOK, CallsInv

LEMMA KeptTypes ==
  ASSUME TInv, Fits(calls'), UNCHANGED issued
  PROVE  CallsOK
BY DEF TInv, Types, Fits, CallsOK, CallsInv

LEMMA SettleTypes == ASSUME TInv, NEW c, Settle(c) PROVE CallsOK
BY CallsFit, KeptTypes DEF Settle

LEMMA TabTypes ==
  ASSUME NEW t \in TabType
  PROVE  /\ t.open \in BOOLEAN /\ t.visible \in BOOLEAN /\ t.view \in Views
         /\ t.loading \in BOOLEAN /\ t.error \in BOOLEAN
         /\ Loading(t) \in TabType /\ Failure(t) \in TabType /\ Unavailable(t) \in TabType
         /\ [t EXCEPT !.saveError = FALSE] \in TabType
         /\ [t EXCEPT !.saveError = TRUE] \in TabType
         /\ [t EXCEPT !.error = TRUE] \in TabType
BY DEF TabType, Loading, Failure, Unavailable

LEMMA SaveErrorGone ==
  ASSUME NEW t \in TabType, NEW u, u = [t EXCEPT !.saveError = FALSE]
  PROVE  /\ u \in TabType /\ u.open = t.open /\ u.visible = t.visible /\ u.view = t.view
         /\ u.loading = t.loading /\ u.error = t.error /\ u.residency = t.residency
BY DEF TabType

LEMMA FailureFacts ==
  ASSUME NEW t \in TabType
  PROVE  /\ Failure(t) \in TabType /\ Failure(t).open = t.open
         /\ Failure(t).visible = t.visible
BY DEF TabType, Failure

LEMMA NextView ==
  ASSUME NEW t \in TabType, t.view < MaxViews
  PROVE  t.view + 1 \in Views /\ [t EXCEPT !.view = @ + 1] \in TabType
<1>1. t.view + 1 \in Views
  BY BoundsAssumption DEF TabType, Views
<1> QED BY <1>1 DEF TabType

LEMMA LoadingFacts ==
  ASSUME NEW t \in TabType
  PROVE  /\ Loading(t).open = t.open /\ Loading(t).visible = t.visible /\ Loading(t).view = t.view
         /\ Loading(t).residency = t.residency /\ Loading(t).loading /\ ~Loading(t).error
BY DEF TabType, Loading

LEMMA DraftTypes ==
  ASSUME NEW p \in PageType, AppendDraftRow(p)
  PROVE  /\ page' = [p EXCEPT !.draft = TRUE] /\ page' \in PageType
         /\ page'.draft = TRUE /\ page'.rows = p.rows /\ page'.of = p.of
         /\ edit' \in EditType /\ edit'.on = TRUE /\ edit'.row = Draft
<1>1. PICK seeded \in BOOLEAN : edit' = DraftEdit(seeded)
  BY DEF AppendDraftRow
<1>2. edit' \in EditType /\ edit'.on = TRUE /\ edit'.row = Draft
  BY <1>1, BoundsAssumption DEF DraftEdit, EditType, Draft
<1>3. page' = [p EXCEPT !.draft = TRUE]
  BY DEF AppendDraftRow
<1> QED BY <1>2, <1>3 DEF PageType

\* How a navigation that starts, or none, leaves the tab.
Opens(action, t, p, e, rest) ==
  \/ /\ action \in {"view", "refresh"}
     /\ tab'.view = (IF action = "view" THEN t.view + 1 ELSE t.view)
     /\ tab'.loading /\ ~tab'.error /\ tab'.residency = t.residency
     /\ Issue(NewCall("load", tab'.view), rest)
     /\ page' = p /\ edit' = e
  \/ /\ action = "insert"
     /\ page'.draft /\ page'.rows = p.rows /\ page'.of = p.of
     /\ edit'.on /\ edit'.row = Draft
     /\ tab' = [t EXCEPT !.saveError = FALSE]
     /\ calls' = rest /\ UNCHANGED issued
  \/ /\ action = "none"
     /\ tab' = t /\ page' = p /\ edit' = e /\ calls' = rest /\ UNCHANGED issued

LEMMA NavigateTypes ==
  ASSUME TInv, NEW action, NEW t \in TabType, NEW p \in PageType, NEW e \in EditType, NEW rest,
         Fits(rest), Navigate(action, t, p, e, rest)
  PROVE  /\ tab' \in TabType /\ page' \in PageType /\ edit' \in EditType /\ CallsOK
         /\ tab'.open = t.open /\ tab'.visible = t.visible
         /\ Opens(action, t, p, e, rest)
<1>1. CASE action = "view"
  <2>1. PICK u : u = [t EXCEPT !.view = @ + 1]
    OBVIOUS
  <2>2. /\ t.view < MaxViews /\ tab' = Loading(u) /\ Issue(NewCall("load", t.view + 1), rest)
        /\ page' = p /\ edit' = e
    BY <1>1, <2>1 DEF Navigate
  <2>3. /\ u \in TabType /\ u.open = t.open /\ u.visible = t.visible /\ u.residency = t.residency
        /\ t.view + 1 \in Views /\ u.view = t.view + 1
    BY <2>1, <2>2, NextView DEF TabType
  <2>4. /\ tab' \in TabType /\ tab'.open = t.open /\ tab'.visible = t.visible
        /\ tab'.view = t.view + 1 /\ tab'.residency = t.residency /\ tab'.loading /\ ~tab'.error
    BY <2>2, <2>3, LoadingFacts, TabTypes
  <2>5. CallsOK
    <3>1. issued < MaxCalls
      BY <2>2 DEF Issue
    <3>2. NewCall("load", t.view + 1) \in CallType /\ NewCall("load", t.view + 1).id = issued + 1
          /\ NewCall("load", t.view + 1).kind = "load"
      BY <2>3, <3>1, NewCallType DEF CallKinds
    <3> QED BY <2>2, <3>2, IssueTypes
  <2> QED BY <1>1, <2>2, <2>4, <2>5 DEF Opens
<1>2. CASE action = "refresh"
  <2>1. tab' = Loading(t) /\ Issue(NewCall("load", t.view), rest) /\ page' = p /\ edit' = e
    BY <1>2 DEF Navigate
  <2>2. /\ tab' \in TabType /\ tab'.open = t.open /\ tab'.visible = t.visible
        /\ tab'.view = t.view /\ tab'.residency = t.residency /\ tab'.loading /\ ~tab'.error
    BY <2>1, LoadingFacts, TabTypes
  <2>3. CallsOK
    <3>1. issued < MaxCalls /\ t.view \in Views
      BY <2>1, TabTypes DEF Issue
    <3>2. NewCall("load", t.view) \in CallType /\ NewCall("load", t.view).id = issued + 1
          /\ NewCall("load", t.view).kind = "load"
      BY <3>1, NewCallType DEF CallKinds
    <3> QED BY <2>1, <3>2, IssueTypes
  <2> QED BY <1>2, <2>1, <2>2, <2>3 DEF Opens
<1>3. CASE action = "insert"
  <2>1. AppendDraftRow(p) /\ tab' = [t EXCEPT !.saveError = FALSE] /\ calls' = rest /\ UNCHANGED issued
    BY <1>3 DEF Navigate
  <2>2. tab' \in TabType /\ tab'.open = t.open /\ tab'.visible = t.visible
    BY <2>1, SaveErrorGone
  <2>3. CallsOK
    BY <2>1, KeptTypes
  <2> QED BY <1>3, <2>1, <2>2, <2>3, DraftTypes DEF Opens
<1>4. CASE action = "none"
  <2>1. tab' = t /\ page' = p /\ edit' = e /\ calls' = rest /\ UNCHANGED issued
    BY <1>4 DEF Navigate
  <2> QED BY <1>4, <2>1, KeptTypes DEF Opens
<1> QED BY <1>1, <1>2, <1>3, <1>4 DEF Navigate

LEMMA DiscardedTypes ==
  ASSUME TInv
  PROVE  /\ Discarded \in PageType /\ Discarded.of = page.of
         /\ edit.row = Draft /\ page.draft => Discarded = [page EXCEPT !.draft = FALSE]
         /\ edit.row # Draft /\ page.rows[edit.row] # Gone =>
              Discarded = [page EXCEPT !.rows[edit.row] = edit.from]
<1>1. page \in PageType /\ edit.from \in Vals /\ Gone \in Vals
  BY EditTypes, ConstTypes DEF TInv, Types
<1>2. edit.row = Draft /\ page.draft => Discarded = [page EXCEPT !.draft = FALSE]
  BY DEF Discarded
<1>3. edit.row # Draft /\ page.rows[edit.row] # Gone =>
        Discarded = [page EXCEPT !.rows[edit.row] = edit.from]
  BY DEF Discarded
<1>4. edit.row = Draft /\ ~page.draft /\ page.rows # NoRows =>
        Discarded = [page EXCEPT !.rows[LastRow] = Gone]
  BY DEF Discarded
<1>5. \/ edit.row = Draft /\ page.draft
      \/ edit.row # Draft /\ page.rows[edit.row] # Gone
      \/ edit.row = Draft /\ ~page.draft /\ page.rows # NoRows
      \/ Discarded = page
  BY DEF Discarded
<1>6. /\ [page EXCEPT !.draft = FALSE] \in PageType
      /\ \A r, v : v \in Vals => [page EXCEPT !.rows[r] = v] \in PageType
  BY <1>1, PageTypes
<1>7. /\ [page EXCEPT !.draft = FALSE].of = page.of
      /\ \A r, v : [page EXCEPT !.rows[r] = v].of = page.of
  BY <1>1 DEF PageType
<1>8. Discarded \in PageType /\ Discarded.of = page.of
  <2>1. CASE edit.row = Draft /\ page.draft
    BY <1>2, <1>6, <1>7, <2>1
  <2>2. CASE edit.row # Draft /\ page.rows[edit.row] # Gone
    <3>1. /\ [page EXCEPT !.rows[edit.row] = edit.from] \in PageType
          /\ [page EXCEPT !.rows[edit.row] = edit.from].of = page.of
      BY <1>1, <1>6, <1>7
    <3> QED BY <1>3, <2>2, <3>1
  <2>3. CASE edit.row = Draft /\ ~page.draft /\ page.rows # NoRows
    <3>1. /\ [page EXCEPT !.rows[LastRow] = Gone] \in PageType
          /\ [page EXCEPT !.rows[LastRow] = Gone].of = page.of
      BY <1>1, <1>6, <1>7
    <3> QED BY <1>4, <2>3, <3>1
  <2>4. CASE Discarded = page
    BY <1>1, <2>4
  <2> QED BY <1>5, <2>1, <2>2, <2>3, <2>4
<1> QED BY <1>2, <1>3, <1>8

----------
(* Every action keeps the types. *)

\* What a step must show for TInv'.
LEMMA TypesKept ==
  ASSUME TInv, Note, CallsOK, TabInv',
         db' \in [Rows -> Vals], born' \in Rows, tab' \in TabType, page' \in PageType,
         cache' \in PageType, edit' \in EditType, pending' \in Navigations \cup {"none"},
         timer' \in BOOLEAN
  PROVE  TInv'
BY GapTypes DEF TInv, Types, CallsOK

LEMMA RequestNavigationTypes ==
  ASSUME TInv, NEW action \in Navigations, RequestNavigationAction(action)
  PROVE  TInv'
<1>1. /\ Usable /\ tab.open /\ tab.visible /\ Note /\ UNCHANGED <<db, born, cache, timer>>
      /\ Types /\ TabInv /\ action \in Navigations \cup {"none"}
  BY DEF RequestNavigationAction, Usable, TInv
<1>2. CASE pending' = action /\ UNCHANGED <<tab, page, edit, calls, issued>>
  <2>1. CallsOK
    BY <1>2, CallsFit, KeptTypes
  <2>2. TabInv'
    BY <1>1, <1>2 DEF TabInv
  <2> QED BY <1>1, <1>2, <2>1, <2>2, TypesKept DEF Types
<1>3. CASE Navigate(action, tab, page, edit, calls) /\ UNCHANGED pending
  <2>1. /\ tab' \in TabType /\ page' \in PageType /\ edit' \in EditType /\ CallsOK
        /\ tab'.open = tab.open /\ tab'.visible = tab.visible
    BY <1>1, <1>3, CallsFit, NavigateTypes DEF Types
  <2>2. TabInv'
    BY <1>1, <1>3, <2>1 DEF TabInv
  <2> QED BY <1>1, <1>3, <2>1, <2>2, TypesKept DEF Types
<1> QED BY <1>1, <1>2, <1>3 DEF RequestNavigationAction

LEMMA LoadTableDataTypes == ASSUME TInv, LoadTableData PROVE TInv'
<1>1. PICK t : t = [tab EXCEPT !.saveError = FALSE]
  OBVIOUS
<1>2. /\ tab.open /\ tab.visible /\ tab' = Loading(t) /\ Issue(NewCall("load", tab.view), calls)
      /\ edit' = NotEdited /\ Note /\ UNCHANGED <<db, born, page, pending, cache, timer>>
      /\ Types /\ TabInv
  BY <1>1 DEF LoadTableData, Usable, TInv
<1>3. t \in TabType /\ t.open = tab.open /\ t.visible = tab.visible /\ tab.view \in Views
  BY <1>1, <1>2, SaveErrorGone, TabTypes DEF Types
<1>4. tab' \in TabType /\ tab'.open = tab.open /\ tab'.visible = tab.visible
  BY <1>2, <1>3, TabTypes, LoadingFacts
<1>5. CallsOK
  <2>1. issued < MaxCalls
    BY <1>2 DEF Issue
  <2>2. /\ NewCall("load", tab.view) \in CallType /\ NewCall("load", tab.view).id = issued + 1
        /\ NewCall("load", tab.view).kind = "load"
    BY <1>3, <2>1, NewCallType DEF CallKinds
  <2> QED BY <1>2, <2>2, CallsFit, IssueTypes
<1>6. TabInv'
  BY <1>2, <1>4 DEF TabInv
<1> QED BY <1>2, <1>4, <1>5, <1>6, ConstTypes, TypesKept DEF Types

LEMMA LoadReadsTypes == ASSUME TInv, NEW c \in calls, LoadReads(c) PROVE TInv'
<1>1. PICK read, d : /\ read = [of |-> c.of, rows |-> db, draft |-> FALSE]
                     /\ d = [c EXCEPT !.read = TRUE, !.page = read]
  OBVIOUS
<1>2. /\ c.kind = "load" /\ Note /\ calls' = (calls \ {c}) \cup {d}
      /\ cache' = (IF c.barred THEN cache ELSE read)
      /\ UNCHANGED <<db, born, tab, page, edit, pending, timer, issued>> /\ Types /\ TabInv
  BY <1>1 DEF LoadReads, TInv
<1>3. c \in CallType /\ c.id <= issued
  BY <1>2 DEF TInv, Types, CallsInv
<1>4. read \in PageType
  BY <1>1, <1>2, <1>3 DEF Types, PageType, CallType
<1>5. d \in CallType /\ d.id <= issued /\ d.kind = "load"
  BY <1>1, <1>2, <1>3, <1>4, CallTypes DEF CallType
<1>6. CallsOK
  BY <1>2, <1>5, CallsFit, KeptTypes DEF Fits
<1>7. TabInv'
  BY <1>2 DEF TabInv
<1> QED BY <1>2, <1>4, <1>6, <1>7, TypesKept DEF Types

LEMMA LoadReplyTypes == ASSUME TInv, NEW c \in calls, LoadReply(c) PROVE TInv'
<1>1. /\ Note /\ Settle(c) /\ Types /\ TabInv /\ UNCHANGED <<db, born, edit, pending, cache>>
      /\ c \in CallType /\ c.page \in PageType
  BY CallTypes DEF LoadReply, TInv, Types
<1>2. CallsOK
  BY <1>1, SettleTypes
<1>3. CASE tab.open
  <2>1. /\ page' = c.page /\ timer' = (timer \/ Evictable(tab', c.page))
        /\ tab' = [tab EXCEPT !.loading = FALSE, !.cancelling = FALSE, !.residency = "resident"]
    BY <1>3 DEF LoadReply
  <2>2. tab' \in TabType /\ tab'.open = tab.open /\ tab'.visible = tab.visible
    BY <1>1, <2>1 DEF Types, TabType
  <2>3. timer' \in BOOLEAN /\ TabInv'
    BY <1>1, <1>3, <2>1, <2>2 DEF TabInv, Evictable
  <2> QED BY <1>1, <1>2, <2>1, <2>2, <2>3, TypesKept DEF Types
<1>4. CASE ~tab.open
  BY <1>1, <1>2, <1>4, TypesKept DEF LoadReply, TabInv, Types
<1> QED BY <1>3, <1>4

LEMMA LoadFailsTypes == ASSUME TInv, NEW c \in calls, LoadFails(c) PROVE TInv'
<1>1. /\ Note /\ Settle(c) /\ Types /\ TabInv /\ tab \in TabType
      /\ UNCHANGED <<db, born, page, edit, pending, cache, timer>>
      /\ tab' = IF tab.open THEN Failure(tab) ELSE tab
  BY DEF LoadFails, TInv, Types
<1>2. tab' \in TabType /\ tab'.open = tab.open /\ tab'.visible = tab.visible
  BY <1>1, FailureFacts
<1>3. CallsOK /\ TabInv'
  BY <1>1, <1>2, SettleTypes DEF TabInv
<1> QED BY <1>1, <1>2, <1>3, TypesKept DEF Types

LEMMA CancelTypes ==
  ASSUME TInv, CancelLoad \/ \E c \in calls : CancelReply(c)
  PROVE  TInv'
<1>1. CASE CancelLoad
  <2>1. /\ Note /\ Issue(NewCall("cancel", 0), calls) /\ tab' = [tab EXCEPT !.cancelling = TRUE]
        /\ UNCHANGED <<db, born, page, edit, pending, cache, timer>> /\ Types /\ TabInv
    BY <1>1 DEF CancelLoad, TInv
  <2>2. tab' \in TabType /\ tab'.open = tab.open /\ tab'.visible = tab.visible
    BY <2>1 DEF Types, TabType
  <2>3. CallsOK
    <3>1. issued < MaxCalls /\ 0 \in Views
      BY <2>1, ConstTypes DEF Issue
    <3>2. /\ NewCall("cancel", 0) \in CallType /\ NewCall("cancel", 0).id = issued + 1
          /\ NewCall("cancel", 0).kind = "cancel"
      BY <3>1, NewCallType DEF CallKinds
    <3> QED BY <2>1, <3>2, CallsFit, IssueTypes
  <2>4. TabInv'
    BY <2>1, <2>2 DEF TabInv
  <2> QED BY <2>1, <2>2, <2>3, <2>4, TypesKept DEF Types
<1>2. ASSUME NEW c \in calls, CancelReply(c) PROVE TInv'
  <2>1. /\ Note /\ Settle(c) /\ tab' \in {tab, [tab EXCEPT !.cancelling = FALSE]}
        /\ UNCHANGED <<db, born, page, edit, pending, cache, timer>> /\ Types /\ TabInv
    BY <1>2 DEF CancelReply, TInv
  <2>2. tab' \in TabType /\ tab'.open = tab.open /\ tab'.visible = tab.visible
    BY <2>1 DEF Types, TabType
  <2>3. CallsOK /\ TabInv'
    BY <2>1, <2>2, SettleTypes DEF TabInv
  <2> QED BY <2>1, <2>2, <2>3, TypesKept DEF Types
<1> QED BY <1>1, <1>2

LEMMA ResidencyTypes ==
  ASSUME TInv, MarkSurfaceInactive \/ EvictInactiveRows \/ CacheExpires
  PROVE  TInv'
<1>1. Note /\ Types /\ TabInv /\ CallsOK /\ UNCHANGED <<db, born, calls, issued, pending>>
  BY CallsFit, KeptTypes DEF MarkSurfaceInactive, EvictInactiveRows, CacheExpires, TInv
<1>2. CASE MarkSurfaceInactive
  <2>1. /\ tab.open /\ pending = "none" /\ tab' = [tab EXCEPT !.visible = FALSE]
        /\ timer' = Evictable(tab', page) /\ UNCHANGED <<page, edit, cache>>
    BY <1>2 DEF MarkSurfaceInactive
  <2>2. tab' \in TabType /\ tab'.open = tab.open /\ ~tab'.visible
    BY <1>1, <2>1 DEF Types, TabType
  <2>3. timer' \in BOOLEAN /\ TabInv'
    BY <1>1, <2>1, <2>2 DEF TabInv, Evictable
  <2> QED BY <1>1, <2>1, <2>2, <2>3, TypesKept DEF Types
<1>3. CASE EvictInactiveRows
  <2>1. /\ timer /\ timer' = FALSE /\ UNCHANGED cache
        /\ \/ UNCHANGED <<tab, page, edit>>
           \/ /\ page' = [NoPage EXCEPT !.of = page.of] /\ edit' = NotEdited
              /\ tab' = [tab EXCEPT !.saveError = FALSE, !.residency = "evicted"]
    BY <1>3 DEF EvictInactiveRows
  <2>2. page.of \in Views /\ tab.open
    BY <1>1, <2>1, PageTypes DEF Types, TabInv
  <2>3. [NoPage EXCEPT !.of = page.of] \in PageType
    BY <2>2, ConstTypes, PageTypes
  <2>4. tab' \in TabType /\ tab'.open = tab.open /\ tab'.visible = tab.visible
    BY <1>1, <2>1 DEF Types, TabType
  <2>5. TabInv'
    BY <1>1, <2>1, <2>2, <2>4 DEF TabInv
  <2> QED BY <1>1, <2>1, <2>3, <2>4, <2>5, ConstTypes, TypesKept DEF Types
<1>4. CASE CacheExpires
  <2>1. TabInv'
    BY <1>1, <1>4 DEF TabInv, CacheExpires
  <2> QED BY <1>1, <1>4, <2>1, ConstTypes, TypesKept DEF CacheExpires, Types
<1> QED BY <1>2, <1>3, <1>4

LEMMA MarkActiveTypes == ASSUME TInv, MarkSurfaceActive PROVE TInv'
<1>1. /\ Note /\ Types /\ TabInv /\ tab.open /\ timer' = FALSE
      /\ UNCHANGED <<db, born, page, edit, pending, cache>>
  BY DEF MarkSurfaceActive, TInv
<1>2. CASE /\ Issue(NewCall("restore", 0), calls)
           /\ tab' = [tab EXCEPT !.visible = TRUE, !.loading = TRUE, !.error = FALSE,
                                 !.residency = "restoring"]
  <2>1. issued < MaxCalls /\ 0 \in Views
    BY <1>2, ConstTypes DEF Issue
  <2>2. /\ NewCall("restore", 0) \in CallType /\ NewCall("restore", 0).id = issued + 1
        /\ NewCall("restore", 0).kind = "restore"
    BY <2>1, NewCallType DEF CallKinds
  <2>3. CallsOK
    BY <1>2, <2>2, CallsFit, IssueTypes
  <2>4. tab' \in TabType /\ tab'.open = tab.open /\ tab'.visible
    BY <1>1, <1>2 DEF Types, TabType
  <2>5. TabInv'
    BY <1>1, <2>4 DEF TabInv
  <2> QED BY <1>1, <2>3, <2>4, <2>5, TypesKept DEF Types
<1>3. CASE tab' = [tab EXCEPT !.visible = TRUE] /\ UNCHANGED <<calls, issued>>
  <2>1. tab' \in TabType /\ tab'.open = tab.open /\ tab'.visible
    BY <1>1, <1>3 DEF Types, TabType
  <2>2. CallsOK /\ TabInv'
    BY <1>1, <1>3, <2>1, CallsFit, KeptTypes DEF TabInv
  <2> QED BY <1>1, <2>1, <2>2, TypesKept DEF Types
<1> QED BY <1>2, <1>3 DEF MarkSurfaceActive

LEMMA RestoreReplyTypes == ASSUME TInv, NEW c \in calls, RestoreReply(c) PROVE TInv'
<1>1. /\ Note /\ Settle(c) /\ Types /\ TabInv /\ CallsOK
      /\ UNCHANGED <<db, born, edit, pending, cache, timer>>
  BY SettleTypes DEF RestoreReply, TInv
<1>2. \/ UNCHANGED <<tab, page>>
      \/ /\ tab.open /\ page' = cache
         /\ tab' = [tab EXCEPT !.loading = FALSE, !.error = FALSE, !.saveError = FALSE,
                               !.residency = "resident"]
      \/ tab.open /\ tab' = Unavailable(tab) /\ UNCHANGED page
  BY DEF RestoreReply
<1>3. /\ tab' \in TabType /\ tab'.open = tab.open /\ tab'.visible = tab.visible
      /\ page' \in PageType /\ (~tab.open => page' = page)
  BY <1>1, <1>2 DEF Types, TabType, Unavailable
<1>4. TabInv'
  BY <1>1, <1>3 DEF TabInv
<1> QED BY <1>1, <1>3, <1>4, TypesKept DEF Types


LEMMA TypedTypes ==
  ASSUME TInv, NEW row \in Rows \cup {Draft}, NEW v \in 0 .. MaxTyped, NEW from \in 0 .. MaxTyped,
         Typed(row, v, from)
  PROVE  /\ page' \in PageType /\ edit' \in EditType
         /\ page'.of = page.of /\ page'.draft = page.draft
         /\ row # Draft /\ page.rows[row] # Gone => page' = [page EXCEPT !.rows[row] = v]
         /\ row = Draft => page' = page
         /\ row # Draft /\ v = from => edit' = NotEdited
         /\ ~(row # Draft /\ v = from) =>
              /\ edit'.on = TRUE /\ edit'.row = row /\ edit'.from = from /\ edit'.to = v
              /\ edit'.modified = (v # from)
<1>1. page \in PageType /\ v \in Vals /\ row \in 0 .. MaxRows
  BY ConstTypes, BoundsAssumption DEF TInv, Types, Draft
<1>2. page' \in {page, [page EXCEPT !.rows[row] = v]}
  BY DEF Typed
<1>3. /\ [page EXCEPT !.rows[row] = v] \in PageType
      /\ [page EXCEPT !.rows[row] = v].of = page.of
      /\ [page EXCEPT !.rows[row] = v].draft = page.draft
  BY <1>1, PageTypes DEF PageType
<1>4. page' \in PageType /\ page'.of = page.of /\ page'.draft = page.draft
  BY <1>1, <1>2, <1>3
<1>5. edit' \in EditType
  <2>1. [on |-> TRUE, row |-> row, from |-> from, to |-> v, modified |-> v # from] \in EditType
    BY <1>1 DEF EditType
  <2> QED BY <2>1, ConstTypes DEF Typed
<1>6. /\ row # Draft /\ page.rows[row] # Gone => page' = [page EXCEPT !.rows[row] = v]
      /\ row = Draft => page' = page
  BY DEF Typed
<1>7. /\ row # Draft /\ v = from => edit' = NotEdited
      /\ ~(row # Draft /\ v = from) =>
           edit' = [on |-> TRUE, row |-> row, from |-> from, to |-> v, modified |-> v # from]
  BY DEF Typed
<1> QED BY <1>4, <1>5, <1>6, <1>7

\* What EditCell does to the page and the edit state.
EditStep ==
  \E row \in Rows \cup {Draft}, v \in 0 .. MaxTyped, from \in 0 .. MaxTyped :
    /\ Typed(row, v, from)
    /\ \/ edit.on /\ edit.row = row /\ from = edit.from
       \/ ~Dirty /\ row \in Rows /\ page.rows[row] = from /\ v # from

LEMMA EditCellTypes ==
  ASSUME TInv, EditCell
  PROVE  /\ TInv' /\ EditStep
         /\ OnGrid /\ tab' = [tab EXCEPT !.saveError = FALSE] /\ Note
         /\ UNCHANGED <<db, born, pending, cache, timer, calls, issued>>
<1>1. /\ OnGrid /\ tab' = [tab EXCEPT !.saveError = FALSE] /\ Note /\ Types /\ TabInv /\ tab.open
      /\ UNCHANGED <<db, born, pending, cache, timer, calls, issued>>
  BY DEF EditCell, OnGrid, Usable, TInv
<1>2. PICK row \in Rows \cup {Draft}, v \in 0 .. MaxTyped :
        \/ edit.on /\ edit.row = row /\ v # edit.to /\ Typed(row, v, edit.from)
        \/ /\ ~Dirty /\ row # Draft /\ page.rows[row] \notin {Gone, v}
           /\ Typed(row, v, page.rows[row])
  BY DEF EditCell
<1>3. EditStep
  <2>1. CASE edit.on /\ edit.row = row /\ v # edit.to /\ Typed(row, v, edit.from)
    <3>1. edit.from \in 0 .. MaxTyped
      BY <1>1, EditTypes DEF Types
    <3> QED BY <2>1, <3>1 DEF EditStep
  <2>2. CASE /\ ~Dirty /\ row # Draft /\ page.rows[row] \notin {Gone, v}
             /\ Typed(row, v, page.rows[row])
    <3>1. row \in Rows
      BY <2>2
    <3>2. page.rows[row] \in Vals
      BY <1>1, <3>1, PageTypes DEF Types
    <3>3. page.rows[row] \in 0 .. MaxTyped
      BY <2>2, <3>2, ConstTypes
    <3> QED BY <2>2, <3>1, <3>3 DEF EditStep
  <2> QED BY <1>2, <2>1, <2>2
<1>4. page' \in PageType /\ edit' \in EditType
  BY <1>3, TypedTypes DEF EditStep
<1>5. tab' \in TabType /\ tab'.open = tab.open /\ tab'.visible = tab.visible
  BY <1>1, SaveErrorGone DEF Types
<1>6. CallsOK /\ TabInv'
  BY <1>1, <1>5, CallsFit, KeptTypes DEF TabInv
<1> QED BY <1>1, <1>3, <1>4, <1>5, <1>6, TypesKept DEF Types

LEMMA SaveModifiedTypes ==
  ASSUME TInv, NEW dialog \in BOOLEAN, SaveModified(dialog)
  PROVE  /\ CallsOK /\ Modified
         /\ \E c \in CallType : /\ Issue(c, calls) /\ c.kind = "save" /\ c.id = issued + 1
                                /\ c.page = page /\ c.edit = edit /\ c.dialog = dialog
<1>1. PICK c : c = [NewCall("save", 0) EXCEPT !.page = page, !.edit = edit, !.dialog = dialog]
  OBVIOUS
<1>2. Issue(c, calls) /\ issued < MaxCalls /\ Modified
  BY <1>1 DEF SaveModified, Issue
<1>3. NewCall("save", 0) \in CallType /\ NewCall("save", 0).id = issued + 1
      /\ NewCall("save", 0).kind = "save"
  BY <1>2, ConstTypes, NewCallType DEF CallKinds
<1>4. /\ c \in CallType /\ c.kind = "save" /\ c.id = issued + 1
      /\ c.page = page /\ c.edit = edit /\ c.dialog = dialog
  BY <1>1, <1>3, CallTypes DEF TInv, Types, CallType
<1>5. CallsOK
  BY <1>2, <1>4, CallsFit, IssueTypes
<1> QED BY <1>2, <1>4, <1>5

LEMMA SaveTypes == ASSUME TInv, Save PROVE TInv'
<1>1. /\ OnGrid /\ Dirty /\ Note /\ UNCHANGED <<db, born, page, pending, cache, timer>>
      /\ Types /\ TabInv /\ tab.open
  BY DEF Save, OnGrid, Usable, TInv
<1>2. CASE SaveModified(FALSE) /\ UNCHANGED <<tab, edit>>
  <2>1. CallsOK /\ TabInv'
    BY <1>1, <1>2, SaveModifiedTypes DEF TabInv
  <2> QED BY <1>1, <1>2, <2>1, TypesKept DEF Types
<1>3. CASE /\ edit' = NotEdited /\ tab' = [tab EXCEPT !.saveError = FALSE]
           /\ UNCHANGED <<calls, issued>>
  <2>1. tab' \in TabType /\ tab'.open = tab.open /\ tab'.visible = tab.visible
    BY <1>1, <1>3, SaveErrorGone DEF Types
  <2>2. CallsOK /\ TabInv'
    BY <1>1, <1>3, <2>1, CallsFit, KeptTypes DEF TabInv
  <2> QED BY <1>1, <1>3, <2>1, <2>2, ConstTypes, TypesKept DEF Types
<1> QED BY <1>2, <1>3 DEF Save

\* The write that is answered, and what is sent to the cache.
SyncStep(c, rows) ==
  IF tab.open
  THEN \E s \in CallType :
         /\ calls' = (calls \ {c}) \cup {s}
         /\ s.kind = "sync" /\ s.id = issued + 1 /\ s.id \notin {d.id : d \in calls}
         /\ s.of = tab.view /\ s.page = rows /\ s.edit = c.edit /\ s.dialog = c.dialog
  ELSE calls' = calls \ {c}

LEMMA SyncTypes ==
  ASSUME TInv, NEW c \in calls, NEW rows \in PageType, Sync(c, rows)
  PROVE  CallsOK /\ SyncStep(c, rows)
<1>1. c \in CallType /\ Types
  BY DEF TInv, Types
<1>2. CASE tab.open
  <2>1. PICK s : s = [NewCall("sync", tab.view) EXCEPT !.page = rows, !.edit = c.edit,
                                                       !.dialog = c.dialog]
    OBVIOUS
  <2>2. Issue(s, calls \ {c}) /\ issued < MaxCalls /\ tab.view \in Views
    BY <1>1, <1>2, <2>1, TabTypes DEF Sync, Issue, Types
  <2>3. /\ NewCall("sync", tab.view) \in CallType /\ NewCall("sync", tab.view).id = issued + 1
        /\ NewCall("sync", tab.view).kind = "sync" /\ NewCall("sync", tab.view).of = tab.view
    BY <2>2, NewCallType DEF CallKinds
  <2>4. /\ s \in CallType /\ s.kind = "sync" /\ s.id = issued + 1 /\ s.of = tab.view
        /\ s.page = rows /\ s.edit = c.edit /\ s.dialog = c.dialog
    BY <1>1, <2>1, <2>3, CallTypes DEF CallType
  <2>5. CallsOK
    BY <2>2, <2>4, CallsFit, IssueTypes
  <2>6. \A d \in calls : d.id # issued + 1
    BY <1>1 DEF TInv, CallsInv, Types, CallType
  <2> QED BY <1>2, <2>2, <2>4, <2>5, <2>6 DEF SyncStep, Issue
<1>3. CASE ~tab.open
  BY <1>3, SettleTypes DEF Sync, SyncStep, Settle
<1> QED BY <1>2, <1>3

LEMMA InsertReplyTypes ==
  ASSUME TInv, NEW c \in calls, InsertReply(c)
  PROVE  /\ TInv' /\ born + 1 \in Rows /\ c.edit.to \in 0 .. MaxTyped
         /\ SyncStep(c, InsertedRow(c.page, c.edit.to))
<1>1. /\ born < MaxRows /\ born' = born + 1 /\ db' = [db EXCEPT ![born + 1] = c.edit.to]
      /\ Sync(c, InsertedRow(c.page, c.edit.to)) /\ Note
      /\ UNCHANGED <<tab, page, edit, pending, cache, timer>> /\ Types /\ TabInv
      /\ c \in CallType
  BY DEF InsertReply, TInv, Types
<1>2. born + 1 \in Rows
  BY <1>1, BoundsAssumption DEF Types, Rows
<1>3. c.edit.to \in 0 .. MaxTyped /\ c.edit.to \in Vals /\ c.page \in PageType
  BY <1>1, CallTypes, EditTypes, ConstTypes
<1>4. InsertedRow(c.page, c.edit.to) \in PageType
  BY <1>3 DEF InsertedRow, PageType
<1>5. CallsOK /\ SyncStep(c, InsertedRow(c.page, c.edit.to))
  BY <1>1, <1>4, SyncTypes
<1>6. TabInv' /\ db' \in [Rows -> Vals]
  BY <1>1, <1>3 DEF TabInv, Types
<1> QED BY <1>1, <1>2, <1>3, <1>5, <1>6, TypesKept DEF Types

LEMMA UpdateReplyTypes ==
  ASSUME TInv, NEW c \in calls, UpdateReply(c)
  PROVE  /\ TInv' /\ c.edit.row \in Rows /\ c.edit.to \in Vals /\ c.edit.to # Gone
         /\ SyncStep(c, UpdatedRow(c.page, c.edit))
<1>1. /\ c.edit.row # Draft /\ db' = [db EXCEPT ![c.edit.row] = IF @ = Gone THEN Gone ELSE c.edit.to]
      /\ Sync(c, UpdatedRow(c.page, c.edit)) /\ Note
      /\ UNCHANGED <<born, tab, page, edit, pending, cache, timer>> /\ Types /\ TabInv
      /\ c \in CallType
  BY DEF UpdateReply, TInv, Types
<1>2. /\ c.edit.to \in Vals /\ c.edit.to # Gone /\ c.edit.row \in Rows /\ c.page \in PageType
      /\ Gone \in Vals
  BY <1>1, CallTypes, EditTypes, ConstTypes
<1>3. UpdatedRow(c.page, c.edit) \in PageType
  BY <1>2 DEF UpdatedRow, PageType
<1>4. CallsOK /\ SyncStep(c, UpdatedRow(c.page, c.edit))
  BY <1>1, <1>3, SyncTypes
<1>5. TabInv' /\ db' \in [Rows -> Vals]
  BY <1>1, <1>2 DEF TabInv, Types
<1> QED BY <1>1, <1>2, <1>4, <1>5, TypesKept DEF Types

LEMMA WriteFailsTypes == ASSUME TInv, NEW c \in calls, WriteFails(c) PROVE TInv'
<1>1. /\ Note /\ Settle(c) /\ Types /\ TabInv /\ CallsOK
      /\ tab' \in {tab, [tab EXCEPT !.saveError = TRUE], [tab EXCEPT !.error = TRUE]}
      /\ UNCHANGED <<db, born, page, edit, pending, cache, timer>>
  BY SettleTypes DEF WriteFails, TInv
<1>2. tab' \in TabType /\ tab'.open = tab.open /\ tab'.visible = tab.visible
  BY <1>1 DEF Types, TabType
<1>3. TabInv'
  BY <1>1, <1>2 DEF TabInv
<1> QED BY <1>1, <1>2, <1>3, TypesKept DEF Types


LEMMA BarredTypes ==
  ASSUME TInv, NEW cs, Fits(cs)
  PROVE  Fits(Barred(cs)) /\ Fits({[c EXCEPT !.barred = c.kind = "load"] : c \in cs})
<1>1. ASSUME NEW c \in cs, NEW d, d = [c EXCEPT !.barred = c.kind = "load"]
      PROVE  /\ d \in CallType /\ d.id <= issued
             /\ d.kind = "delete" => d.edit.row \in Rows
  <2>1. c \in CallType /\ c.id <= issued /\ (c.kind = "delete" => c.edit.row \in Rows)
    BY DEF Fits
  <2>2. d \in CallType
    BY <1>1, <2>1, CallTypes
  <2>3. d.id = c.id /\ d.kind = c.kind /\ d.edit = c.edit
    BY <1>1, <2>1 DEF CallType
  <2> QED BY <2>1, <2>2, <2>3
<1>2. PICK S : S = {[c EXCEPT !.barred = c.kind = "load"] : c \in cs}
  OBVIOUS
<1>3. \A d \in S : \E c \in cs : d = [c EXCEPT !.barred = c.kind = "load"]
  BY <1>2
<1>4. Fits(S)
  BY <1>1, <1>3 DEF Fits
<1> QED BY <1>2, <1>4 DEF Barred

\* The answer to the patch of an open tab.
SyncedStep(c) ==
  LET saved == [tab EXCEPT !.saveError = FALSE, !.residency = "resident"]
      shown == [c.page EXCEPT !.of = page.of]
  IN /\ cache' = Patches(c)
     /\ Opens(IF c.dialog THEN pending ELSE "none", saved, shown, NotEdited, Barred(calls \ {c}))
     /\ pending' = IF c.dialog THEN "none" ELSE pending

LEMMA SyncReplyTypes ==
  ASSUME TInv, NEW c \in calls, SyncReply(c)
  PROVE  /\ TInv' /\ c.kind = "sync" /\ Note /\ UNCHANGED <<db, born, timer>>
         /\ tab'.open = tab.open
         /\ tab.open => tab'.visible = tab.visible /\ SyncedStep(c)
<1>1. /\ c.kind = "sync" /\ Note /\ UNCHANGED <<db, born, timer>> /\ Types /\ TabInv
      /\ c \in CallType /\ tab.view \in Views /\ page.of \in Views
  BY TabTypes, PageTypes DEF SyncReply, TInv, Types
<1>2. CASE tab.open
  <2>1. PICK saved, shown, rest, action :
          /\ saved = [tab EXCEPT !.saveError = FALSE, !.residency = "resident"]
          /\ shown = [c.page EXCEPT !.of = page.of]
          /\ rest = Barred(calls \ {c})
          /\ action = IF c.dialog THEN pending ELSE "none"
    OBVIOUS
  <2>2. /\ cache' = Patches(c) /\ Navigate(action, saved, shown, NotEdited, rest)
        /\ pending' = IF c.dialog THEN "none" ELSE pending
    BY <1>2, <2>1 DEF SyncReply
  <2>3. saved \in TabType /\ saved.open = tab.open /\ saved.visible = tab.visible
    BY <1>1, <2>1 DEF Types, TabType
  <2>4. shown \in PageType /\ [c.page EXCEPT !.of = c.of] \in PageType
    BY <1>1, <2>1, CallTypes, PageTypes
  <2>5. Fits(rest)
    BY <2>1, CallsFit, BarredTypes
  <2>6. /\ tab' \in TabType /\ page' \in PageType /\ edit' \in EditType /\ CallsOK
        /\ tab'.open = saved.open /\ tab'.visible = saved.visible
        /\ Opens(action, saved, shown, NotEdited, rest)
    BY <2>2, <2>3, <2>4, <2>5, ConstTypes, NavigateTypes
  <2>7. cache' \in PageType
    BY <2>2, <2>4, ConstTypes DEF Patches
  <2>8. TabInv' /\ pending' \in Navigations \cup {"none"}
    BY <1>1, <1>2, <2>2, <2>3, <2>6 DEF TabInv, Types
  <2>9. TInv'
    BY <1>1, <2>6, <2>7, <2>8, TypesKept DEF Types
  <2>10. SyncedStep(c)
    BY <2>1, <2>2, <2>6 DEF SyncedStep
  <2> QED BY <1>1, <1>2, <2>3, <2>6, <2>9, <2>10
<1>3. CASE ~tab.open
  <2>1. Settle(c) /\ UNCHANGED <<tab, page, edit, pending, cache>>
    BY <1>3 DEF SyncReply
  <2>2. CallsOK /\ TabInv'
    BY <1>1, <2>1, SettleTypes DEF TabInv
  <2>3. TInv'
    BY <1>1, <2>1, <2>2, TypesKept DEF Types
  <2> QED BY <1>1, <1>3, <2>1, <2>3
<1> QED BY <1>2, <1>3

LEMMA DiscardTypes == ASSUME TInv, DiscardCurrentRow PROVE TInv'
<1>1. /\ Note /\ Types /\ TabInv /\ tab.open /\ page' = Discarded /\ edit' = NotEdited
      /\ tab' = [tab EXCEPT !.saveError = FALSE]
      /\ UNCHANGED <<db, born, pending, cache, timer, calls, issued>>
  BY DEF DiscardCurrentRow, OnGrid, Usable, TInv
<1>2. tab' \in TabType /\ tab'.open = tab.open /\ tab'.visible = tab.visible
  BY <1>1, SaveErrorGone DEF Types
<1>3. CallsOK /\ TabInv'
  BY <1>1, <1>2, CallsFit, KeptTypes DEF TabInv
<1> QED BY <1>1, <1>2, <1>3, DiscardedTypes, ConstTypes, TypesKept DEF Types

\* The delete of a row in the table, less its own edit.
DeleteStep ==
  \E row \in Rows, d \in CallType :
    /\ page.rows[row] # Gone
    /\ \/ edit.on /\ edit.row = row /\ page' = Discarded /\ edit' = NotEdited
       \/ ~(edit.on /\ edit.row = row) /\ UNCHANGED <<page, edit>>
    /\ Issue(d, calls) /\ d.kind = "delete" /\ d.id = issued + 1
    /\ d.page = page' /\ ~d.dialog /\ ~d.edit.on /\ d.edit.row = row

LEMMA DeleteRowTypes == ASSUME TInv, DeleteRow PROVE TInv' /\ DeleteStep
<1>1. /\ OnGrid /\ Note /\ UNCHANGED <<db, born, tab, pending, cache, timer>>
      /\ Types /\ TabInv /\ tab.open
  BY DEF DeleteRow, OnGrid, Usable, TInv
<1>2. PICK row \in Rows, checked \in BOOLEAN :
        /\ page.rows[row] # Gone
        /\ page' = IF edit.on /\ edit.row = row THEN Discarded ELSE page
        /\ edit' = IF edit.on /\ edit.row = row THEN NotEdited ELSE edit
        /\ Issue([NewCall("delete", 0) EXCEPT !.read = checked, !.page = page',
                                              !.edit = OfRow(row)], calls)
  BY DEF DeleteRow
<1>3. page' \in PageType /\ edit' \in EditType
  BY <1>1, <1>2, DiscardedTypes, ConstTypes DEF Types
<1>4. PICK n, p, e, d : /\ n = NewCall("delete", 0) /\ p = page' /\ e = OfRow(row)
                        /\ d = [n EXCEPT !.read = checked, !.page = p, !.edit = e]
  OBVIOUS
<1>5. Issue(d, calls) /\ issued < MaxCalls
  BY <1>2, <1>4 DEF Issue
<1>6. /\ n \in CallType
      /\ n.kind = "delete" /\ n.id = issued + 1 /\ n.dialog = FALSE
  BY <1>4, <1>5, ConstTypes, NewCallType DEF CallKinds
<1>8. e \in EditType /\ e.on = FALSE /\ e.row = row
  <2>1. /\ row \in 0 .. MaxRows /\ 0 \in 0 .. MaxTyped
    BY BoundsAssumption DEF Rows
  <2>2. e = [on |-> FALSE, row |-> row, from |-> 0, to |-> 0, modified |-> FALSE]
    BY <1>4 DEF OfRow, NotEdited
  <2> QED BY <2>1, <2>2 DEF EditType
<1>9. /\ d \in CallType /\ d.kind = "delete" /\ d.id = issued + 1 /\ d.page = page'
      /\ ~d.dialog /\ d.edit = e
  BY <1>3, <1>4, <1>6, <1>8 DEF CallType
<1>10. CallsOK
  BY <1>5, <1>8, <1>9, CallsFit, IssueTypes
<1>11. TabInv'
  BY <1>1 DEF TabInv
<1>12. TInv'
  BY <1>1, <1>3, <1>10, <1>11, TypesKept DEF Types
<1>13. DeleteStep
  BY <1>2, <1>5, <1>8, <1>9 DEF DeleteStep
<1> QED BY <1>12, <1>13

\* The rows a delete leaves.
Without(c) == [(IF c.read THEN page ELSE c.page) EXCEPT !.rows[c.edit.row] = Gone]

LEMMA DeleteReplyTypes ==
  ASSUME TInv, NEW c \in calls, DeleteReply(c)
  PROVE  /\ TInv' /\ c.edit.row \in Rows
         /\ IF (IF c.read THEN page ELSE c.page).rows[c.edit.row] # Gone
            THEN SyncStep(c, Without(c)) ELSE calls' = calls \ {c}
<1>1. /\ c.kind = "delete" /\ db' = [db EXCEPT ![c.edit.row] = Gone] /\ Note
      /\ UNCHANGED <<born, tab, page, edit, pending, cache, timer>>
      /\ Types /\ TabInv /\ c \in CallType /\ c.edit.row \in Rows
  BY DEF DeleteReply, TInv, Types, CallsInv
<1>2. PICK from : from = IF c.read THEN page ELSE c.page
  OBVIOUS
<1>3. IF from.rows[c.edit.row] # Gone THEN Sync(c, Without(c)) ELSE Settle(c)
  BY <1>2 DEF DeleteReply, Without
<1>4. from \in PageType
  BY <1>1, <1>2, CallTypes DEF Types
<1>5. Without(c) \in PageType
  BY <1>2, <1>4, ConstTypes, PageTypes DEF Without
<1>6. CallsOK /\ IF from.rows[c.edit.row] # Gone THEN SyncStep(c, Without(c)) ELSE calls' = calls \ {c}
  BY <1>3, <1>5, SyncTypes, SettleTypes DEF Settle
<1>7. TabInv' /\ db' \in [Rows -> Vals]
  BY <1>1, ConstTypes DEF TabInv, Types
<1>8. TInv'
  BY <1>1, <1>6, <1>7, TypesKept DEF Types
<1> QED BY <1>1, <1>2, <1>6, <1>8

\* A dialog's answer that lets the navigation start, over page p.
ConfirmedStep(p) ==
  /\ Opens(pending, [tab EXCEPT !.saveError = FALSE], p, NotEdited, calls)
  /\ pending' = "none"

LEMMA ConfirmedTypes ==
  ASSUME TInv, tab.open, Note, NEW p \in PageType,
         Navigate(pending, [tab EXCEPT !.saveError = FALSE], p, NotEdited, calls),
         pending' = "none", UNCHANGED <<db, born, cache, timer>>
  PROVE  TInv' /\ ConfirmedStep(p) /\ tab'.open = tab.open /\ tab'.visible = tab.visible
<1>1. Types /\ TabInv
  BY DEF TInv
<1>2. PICK saved : saved = [tab EXCEPT !.saveError = FALSE]
  OBVIOUS
<1>3. saved \in TabType /\ saved.open = tab.open /\ saved.visible = tab.visible
  BY <1>1, <1>2, SaveErrorGone DEF Types
<1>4. /\ tab' \in TabType /\ page' \in PageType /\ edit' \in EditType /\ CallsOK
      /\ tab'.open = saved.open /\ tab'.visible = saved.visible
      /\ Opens(pending, saved, p, NotEdited, calls)
  BY <1>2, <1>3, ConstTypes, CallsFit, NavigateTypes
<1>5. TabInv'
  BY <1>1, <1>3, <1>4 DEF TabInv
<1>6. TInv'
  BY <1>1, <1>4, <1>5, TypesKept DEF Types
<1> QED BY <1>2, <1>3, <1>4, <1>6 DEF ConfirmedStep

LEMMA ConfirmTypes ==
  ASSUME TInv, ConfirmNavigationSave \/ ConfirmNavigationDiscard \/ CancelNavigation
  PROVE  TInv'
<1>1. Types /\ TabInv /\ tab.open /\ Note /\ UNCHANGED <<db, born, cache, timer>>
  BY DEF TInv, ConfirmNavigationSave, ConfirmNavigationDiscard, CancelNavigation
<1>2. CASE ConfirmNavigationSave
  <2>1. CASE SaveModified(TRUE) /\ UNCHANGED <<tab, page, edit, pending>>
    <3>1. CallsOK /\ TabInv'
      BY <1>1, <2>1, SaveModifiedTypes DEF TabInv
    <3> QED BY <1>1, <2>1, <3>1, TypesKept DEF Types
  <2>2. CASE /\ Navigate(pending, [tab EXCEPT !.saveError = FALSE], page, NotEdited, calls)
             /\ pending' = "none"
    BY <1>1, <2>2, ConfirmedTypes DEF Types
  <2> QED BY <1>2, <2>1, <2>2 DEF ConfirmNavigationSave
<1>3. CASE ConfirmNavigationDiscard
  <2>1. PICK p : p = IF edit.on THEN Discarded ELSE page
    OBVIOUS
  <2>2. p \in PageType
    BY <1>1, <2>1, DiscardedTypes DEF Types
  <2> QED BY <1>1, <1>3, <2>1, <2>2, ConfirmedTypes DEF ConfirmNavigationDiscard
<1>4. CASE CancelNavigation
  <2>1. CallsOK /\ TabInv'
    BY <1>1, <1>4, CallsFit, KeptTypes DEF CancelNavigation, TabInv
  <2> QED BY <1>1, <1>4, <2>1, TypesKept DEF CancelNavigation, Types
<1> QED BY <1>2, <1>3, <1>4

LEMMA CleanupTypes == ASSUME TInv, CleanupTab PROVE TInv' /\ ~tab'.open
<1>1. /\ Types /\ TabInv /\ Note /\ UNCHANGED <<db, born, issued>>
      /\ tab' = [tab EXCEPT !.open = FALSE, !.loading = FALSE, !.cancelling = FALSE]
      /\ page' = NoPage /\ edit' = NotEdited /\ pending' = "none" /\ timer' = FALSE
      /\ cache' = NoPage /\ calls' = {[c EXCEPT !.barred = c.kind = "load"] : c \in calls}
  BY DEF CleanupTab, TInv
<1>2. tab' \in TabType /\ ~tab'.open
  BY <1>1 DEF Types, TabType
<1>3. CallsOK
  BY <1>1, CallsFit, BarredTypes, KeptTypes
<1>4. TabInv'
  BY <1>1, <1>2 DEF TabInv
<1> QED BY <1>1, <1>2, <1>3, <1>4, ConstTypes, TypesKept DEF Types

----------
(* What a step that meets no race leaves at work. *)

Held == TInv /\ TInv' /\ Calm /\ Note /\ tab.open /\ tab'.open /\ gaps' = {}

LEMMA NoGap ==
  ASSUME Held
  PROVE  /\ OneCall'
         /\ \A c \in calls' \ calls : ~CarriesTyped(c)
         /\ page'.draft <=> edit'.on /\ edit'.row = Draft
         /\ Dirty /\ ~edit'.on => ~(tab.error /\ tab'.loading)
         /\ tab'.residency = "evicted" /\ tab.residency # "evicted" => Working(calls') = {}
         /\ tab'.error => page'.of = tab'.view
<1>1. gaps' = gaps \cup Gaps /\ gaps' = {} /\ tab'.open
  BY DEF Held, Note
<1>2. Gaps = {}
  BY <1>1
<1>3. OneCall'
  <2>1. ~\E c, d \in Working(calls') : c # d
    BY <1>2 DEF Gaps
  <2> QED BY <2>1 DEF OneCall, Working
<1>4. \A c \in calls' \ calls : ~CarriesTyped(c)
  BY <1>2 DEF Gaps
<1>5. page'.draft <=> edit'.on /\ edit'.row = Draft
  <2>1. ~(tab'.open /\ page'.draft # (edit'.on /\ edit'.row = Draft))
    BY <1>2 DEF Gaps
  <2>2. page'.draft = (edit'.on /\ edit'.row = Draft)
    BY <1>1, <2>1
  <2>3. page'.draft \in BOOLEAN /\ edit'.on \in BOOLEAN
    BY DEF Held, TInv, Types, PageType, EditType
  <2> QED BY <2>2, <2>3
<1>6. Dirty /\ ~edit'.on => ~(tab.error /\ tab'.loading)
  BY <1>2 DEF Gaps
<1>7. tab'.residency = "evicted" /\ tab.residency # "evicted" => Working(calls') = {}
  BY <1>2 DEF Gaps
<1>8. tab'.error => page'.of = tab'.view
  BY <1>2 DEF Gaps
<1> QED BY <1>3, <1>4, <1>5, <1>6, <1>7, <1>8

LEMMA CalmKept == ASSUME Held, WorkInv', ScreenInv' PROVE Calm'
BY NoGap DEF Calm

LEMMA NoneAtWork == ASSUME Working(calls') = {}, Usual' PROVE WorkInv'
BY DEF WorkInv, Working

LEMMA OneAtWork == ASSUME NEW d, Working(calls') = {d}, CallInv(d)' PROVE WorkInv'
<1>1. \A c \in Working(calls)' : CallInv(c)'
  <2> SUFFICES ASSUME NEW c \in Working(calls)' PROVE CallInv(c)'
    OBVIOUS
  <2>1. Working(calls)' = Working(calls')
    BY DEF Working
  <2>2. c = d
    BY <2>1
  <2> QED BY <2>2
<1>2. Working(calls)' # {}
  BY DEF Working
<1> QED BY <1>1, <1>2 DEF WorkInv

\* The call answered was the only one.
LEMMA OnlyCall ==
  ASSUME OneCall, NEW c \in calls, c.kind # "cancel"
  PROVE  Working(calls) = {c} /\ Working(calls \ {c}) = {}
BY DEF OneCall, Working

\* The call issued is the only one.
LEMMA IssuedCall ==
  ASSUME Held, NEW c, c.kind # "cancel", c.id = issued + 1, NEW rest, Fits(rest),
         calls' = rest \cup {c}
  PROVE  Working(rest) = {} /\ Working(calls') = {c}
<1>1. OneCall' /\ issued \in Nat
  BY NoGap DEF Held, TInv, Types
<1>2. \A d \in rest : d # c
  <2>1. \A d \in rest : d.id \in Nat /\ d.id <= issued
    BY DEF Fits, CallType
  <2> QED BY <1>1, <2>1
<1>3. \A d \in rest : d.kind = "cancel"
  BY <1>1, <1>2 DEF OneCall, Working
<1> QED BY <1>3 DEF Working

\* A load issued.
LEMMA LoadIssued ==
  ASSUME Held, NEW rest, Fits(rest), NEW view \in Views, Issue(NewCall("load", view), rest)
  PROVE  /\ Working(rest) = {}
         /\ \E c : /\ Working(calls') = {c} /\ c.kind = "load" /\ c.of = view
                   /\ ~c.barred /\ ~c.read
<1>1. issued < MaxCalls
  BY DEF Issue
<1>2. PICK c : c = NewCall("load", view)
  OBVIOUS
<1>3. /\ c.kind = "load" /\ c.id = issued + 1 /\ c.of = view /\ ~c.barred /\ ~c.read
  BY <1>1, <1>2, NewCallType DEF CallKinds, Held
<1>4. calls' = rest \cup {c}
  BY <1>2 DEF Issue
<1> QED BY <1>3, <1>4, IssuedCall

----------
(* What holds with a tab at rest. *)

LEMMA EditShown ==
  ASSUME TInv, EditOK, Shown
  PROVE  /\ page.rows \in [Rows -> Vals] /\ db \in [Rows -> Vals]
         /\ ~Editing => page.rows = db
         /\ Editing => /\ edit.row \in Rows /\ page.rows = [db EXCEPT ![edit.row] = edit.to]
                       /\ page.rows[edit.row] = edit.to /\ edit.to # Gone /\ edit.to \in Vals
                       /\ edit.modified /\ db[edit.row] # Gone
                       /\ edit.from = db[edit.row] /\ edit.to # edit.from
<1>1. /\ page.rows \in [Rows -> Vals] /\ db \in [Rows -> Vals]
      /\ edit.row \in 0 .. MaxRows /\ edit.to \in 0 .. MaxTyped
  BY PageTypes, EditTypes DEF TInv, Types
<1>2. CASE ~Editing
  BY <1>1, <1>2 DEF Shown, Base
<1>3. CASE Editing
  <2>1. edit.row \in Rows /\ edit.to \in Vals /\ edit.to # Gone
    BY <1>1, <1>3, ConstTypes DEF Editing
  <2>2. page.rows = [db EXCEPT ![edit.row] = edit.to]
    BY <1>3 DEF Shown, Base
  <2> QED BY <1>1, <1>3, <2>1, <2>2 DEF EditOK
<1> QED BY <1>2, <1>3

\* Discarding the edit leaves the table on screen.
LEMMA DiscardShown ==
  ASSUME TInv, EditOK, Shown, page.draft <=> edit.on /\ edit.row = Draft, edit.on
  PROVE  Discarded.rows = db /\ Discarded.of = page.of
<1>1. page \in PageType /\ Discarded.of = page.of
  BY DiscardedTypes DEF TInv, Types
<1>2. CASE edit.row = Draft
  <2>1. Discarded = [page EXCEPT !.draft = FALSE]
    BY <1>2, DiscardedTypes
  <2>2. Discarded.rows = page.rows
    BY <1>1, <2>1 DEF PageType
  <2> QED BY <1>1, <1>2, <2>2, EditShown DEF Editing
<1>3. CASE edit.row # Draft
  <2>1. /\ edit.row \in Rows /\ page.rows = [db EXCEPT ![edit.row] = edit.to]
        /\ page.rows[edit.row] # Gone /\ edit.from = db[edit.row] /\ db \in [Rows -> Vals]
    BY <1>3, EditShown DEF Editing
  <2>2. Discarded = [page EXCEPT !.rows[edit.row] = edit.from]
    BY <1>3, <2>1, DiscardedTypes
  <2>3. Discarded.rows = [page.rows EXCEPT ![edit.row] = edit.from]
    BY <1>1, <2>2 DEF PageType
  <2>4. Discarded.rows = [db EXCEPT ![edit.row] = db[edit.row]]
    BY <2>1, <2>3
  <2> QED BY <1>1, <2>1, <2>4
<1> QED BY <1>2, <1>3

\* The edit goes with its row on screen.
LEMMA ShownAgain ==
  ASSUME ~edit'.on \/ edit'.row = Draft, page'.rows = db'
  PROVE  RowsOK' /\ Shown' /\ ~Editing'
BY DEF RowsOK, EditOK, Shown, Base, Editing

LEMMA UsualShown ==
  ASSUME ~edit'.on \/ edit'.row = Draft, page'.rows = db', page'.of = tab'.view, CacheIs(page.of)'
  PROVE  Usual'
BY ShownAgain DEF Usual

\* Whatever is at work goes on as before while the tab is at rest.
LEMMA StillAtWork ==
  ASSUME WorkInv, UNCHANGED db, tab'.view = tab.view, AtRest, AtRest', page'.of = page.of,
         Working(calls') = Working(calls), tab'.error = tab.error, Usual => Usual'
  PROVE  WorkInv'
<1>1. Working(calls)' = Working(calls)
  BY DEF Working
<1>2. Working(calls)' = {} => Usual'
  BY <1>1 DEF WorkInv
<1>3. ASSUME NEW c \in Working(calls)' PROVE CallInv(c)'
  <2>1. CallInv(c)
    BY <1>1, <1>3 DEF WorkInv
  <2>2. c.kind # "load" /\ c.kind # "restore"
    BY <2>1 DEF CallInv, LoadInv, RestoreInv, AtRest
  <2>3. c.kind = "save" => SaveInv(c)'
    BY <2>1 DEF CallInv, SaveInv
  <2>4. c.kind = "delete" => DeleteInv(c)'
    BY <2>1 DEF CallInv, DeleteInv
  <2>5. c.kind = "sync" => SyncInv(c)'
    BY <2>1 DEF CallInv, SyncInv
  <2> QED BY <2>2, <2>3, <2>4, <2>5 DEF CallInv
<1> QED BY <1>2, <1>3 DEF WorkInv

\* Nothing that matters here changes.
LEMMA SameCalm ==
  ASSUME Held, UNCHANGED <<db, page, edit, cache>>, pending' \in {pending, "none"},
         Working(calls') = Working(calls),
         tab'.view = tab.view, tab'.loading = tab.loading, tab'.error = tab.error,
         tab'.residency = tab.residency, pending' # "none" => tab'.visible
  PROVE  Calm'
<1>1. Working(calls)' = Working(calls) /\ WorkInv /\ ScreenInv
  BY DEF Working, Held, Calm
<1>2. /\ RowsOK => RowsOK'
      /\ Usual => Usual'
      /\ Editing' <=> Editing
      /\ \A v : CacheIs(v) => CacheIs(v)'
  BY DEF RowsOK, EditOK, Usual, Shown, Blank, Base, Editing, CacheIs
<1>3. ASSUME NEW c \in Working(calls)' PROVE CallInv(c)'
  <2>1. CallInv(c)
    BY <1>1, <1>3 DEF WorkInv
  <2>2. c.kind = "load" => LoadInv(c)'
    BY <1>2, <2>1 DEF CallInv, LoadInv
  <2>3. c.kind = "restore" => RestoreInv(c)'
    BY <1>2, <2>1 DEF CallInv, RestoreInv
  <2>4. c.kind = "save" => SaveInv(c)'
    BY <1>2, <2>1 DEF CallInv, SaveInv, AtRest
  <2>5. c.kind = "delete" => DeleteInv(c)'
    BY <1>2, <2>1 DEF CallInv, DeleteInv, AtRest
  <2>6. c.kind = "sync" => SyncInv(c)'
    BY <1>2, <2>1 DEF CallInv, SyncInv, AtRest
  <2> QED BY <2>2, <2>3, <2>4, <2>5, <2>6 DEF CallInv
<1>4. WorkInv'
  BY <1>1, <1>2, <1>3 DEF WorkInv
<1>5. ScreenInv'
  BY <1>1 DEF ScreenInv
<1> QED BY <1>4, <1>5, CalmKept
----------
(* What the user does, with no race met. *)

\* A load that starts over rows that have nothing typed in them.
LEMMA LoadStarts ==
  ASSUME Held, NEW rest, Fits(rest), Issue(NewCall("load", tab'.view), rest),
         tab'.loading, ~tab'.error, tab'.residency # "restoring",
         RowsOK', ~Editing', CacheIs(page.of)', pending' = "none",
         tab'.residency # "resident" => page'.rows = NoRows /\ ~edit'.on
  PROVE  Calm'
<1>1. PICK view : view = tab'.view
  OBVIOUS
<1>2. view \in Views
  BY <1>1, TabTypes DEF Held, TInv, Types
<1>3. PICK c : /\ Working(calls') = {c} /\ c.kind = "load" /\ c.of = view
               /\ ~c.barred /\ ~c.read
  BY <1>1, <1>2, LoadIssued
<1>4. LoadInv(c)'
  BY <1>1, <1>3 DEF LoadInv
<1>5. CallInv(c)'
  BY <1>3, <1>4 DEF CallInv
<1>6. WorkInv'
  BY <1>3, <1>5, OneAtWork
<1>7. ScreenInv'
  BY NoGap DEF ScreenInv
<1> QED BY <1>6, <1>7, CalmKept

\* A draft that is appended, or none, over rows that have nothing typed in them.
LEMMA TableStays ==
  ASSUME Held, AtRest, UNCHANGED db, pending' # "none" => tab'.visible,
         tab'.view = tab.view, tab'.loading = tab.loading, tab'.residency = tab.residency,
         tab'.error = tab.error, Working(calls') = Working(calls),
         page'.of = page.of, cache' = cache, Usual => Usual'
  PROVE  Calm'
<1>1. AtRest'
  BY DEF AtRest
<1>2. WorkInv'
  BY <1>1, StillAtWork DEF Held, Calm
<1>3. ScreenInv'
  BY NoGap DEF ScreenInv, AtRest
<1> QED BY <1>2, <1>3, CalmKept

LEMMA RestFacts ==
  ASSUME Held
  PROVE  /\ OnGrid => AtRest /\ ~tab.error
         /\ pending # "none" => AtRest /\ tab.visible
         /\ Usable /\ edit.on => AtRest
         /\ AtRest /\ ~tab.error /\ Usual => Shown /\ EditOK
         /\ pending # "none" /\ Usual => Shown /\ EditOK
         /\ Usual /\ edit.on => Shown /\ EditOK
         /\ Usual /\ ~Modified => ~Editing
         /\ Usual /\ ~Dirty => ~Editing
         /\ Working(calls) = {} => Usual
         /\ page.draft <=> edit.on /\ edit.row = Draft
BY DEF Held, Calm, ScreenInv, OnGrid, Usable, AtRest, Usual, RowsOK, EditOK, Blank, Modified,
       Dirty, Editing, WorkInv

\* A save that is sent.
LEMMA SaveSent ==
  ASSUME Held, NEW dialog \in BOOLEAN, SaveModified(dialog), AtRest,
         UNCHANGED <<db, tab, page, edit, pending, cache>>
  PROVE  Calm'
<1>1. PICK c \in CallType :
        /\ Issue(c, calls) /\ c.kind = "save" /\ c.id = issued + 1
        /\ c.page = page /\ c.edit = edit
  BY SaveModifiedTypes DEF Held
<1>2. Working(calls) = {} /\ Working(calls') = {c}
  BY <1>1, CallsFit, IssuedCall DEF Held, Issue
<1>3. edit.on /\ Usual /\ Shown /\ EditOK
  BY <1>2, RestFacts DEF SaveModified, Modified
<1>4. Usual'
  BY <1>3 DEF Usual, RowsOK, EditOK, Shown, Blank, Base, Editing, CacheIs
<1>5. SaveInv(c)'
  <2>1. AtRest' /\ c.edit.on
    BY <1>1, <1>3 DEF AtRest
  <2>2. c.edit.row = Draft => c.page.rows = db'
    BY <1>1, <1>3, EditShown DEF Held, Editing
  <2>3. c.edit.row # Draft => /\ db'[c.edit.row] # Gone /\ ~c.page.draft
                              /\ c.page.rows = [db' EXCEPT ![c.edit.row] = c.edit.to]
    BY <1>1, <1>3, EditShown, RestFacts DEF Held, Editing
  <2> QED BY <1>4, <2>1, <2>2, <2>3 DEF SaveInv
<1>6. WorkInv'
  BY <1>1, <1>2, <1>5, OneAtWork DEF CallInv
<1>7. ScreenInv'
  BY DEF ScreenInv, Held, Calm
<1> QED BY <1>6, <1>7, CalmKept

LEMMA RequestNavigationCalm ==
  ASSUME Held, NEW action \in Navigations, RequestNavigationAction(action)
  PROVE  Calm'
<1>1. /\ Usable /\ tab.visible /\ pending = "none" /\ ~tab.loading /\ UNCHANGED <<db, cache>>
      /\ action = "insert" => OnGrid
      /\ tab.residency # "restoring" /\ TInv
  BY DEF RequestNavigationAction, Usable, Held, Calm, ScreenInv
<1>2. CASE Modified /\ pending' = action /\ UNCHANGED <<tab, page, edit, calls, issued>>
  <2>1. AtRest
    BY <1>1, <1>2, RestFacts DEF Modified
  <2>2. Usual => Usual'
    <3> SUFFICES ASSUME Usual PROVE Usual'
      OBVIOUS
    <3>1. Shown /\ EditOK
      BY <1>2, RestFacts DEF Modified
    <3> QED BY <1>1, <1>2, <3>1 DEF Usual, RowsOK, EditOK, Shown, Base, Editing, CacheIs
  <2> QED BY <1>1, <1>2, <2>1, <2>2, TableStays
<1>3. CASE ~Modified /\ Navigate(action, tab, page, edit, calls) /\ UNCHANGED pending
  <2>1. Opens(action, tab, page, edit, calls) /\ Fits(calls)
    BY <1>1, <1>3, CallsFit, NavigateTypes DEF TInv, Types
  <2>2. CASE action \in {"view", "refresh"}
    <3>1. /\ tab'.loading /\ ~tab'.error /\ tab'.residency = tab.residency
          /\ Issue(NewCall("load", tab'.view), calls)
          /\ page' = page /\ edit' = edit
      BY <2>1, <2>2 DEF Opens
    <3>2. Working(calls) = {}
      <4>1. PICK view : view = tab'.view
        OBVIOUS
      <4>2. view \in Views
        BY <4>1, TabTypes DEF Held, TInv, Types
      <4> QED BY <2>1, <3>1, <4>1, <4>2, LoadIssued
    <3>3. Usual /\ ~Editing
      BY <1>3, <3>2, RestFacts
    <3>4. RowsOK' /\ ~Editing' /\ CacheIs(page.of)'
      BY <1>1, <1>3, <3>1, <3>3
         DEF Usual, RowsOK, EditOK, Shown, Blank, Base, Editing, CacheIs
    <3>5. tab'.residency # "resident" => page'.rows = NoRows /\ ~edit'.on
      BY <3>1 DEF Held, Calm, ScreenInv
    <3> QED BY <1>1, <1>3, <2>1, <3>1, <3>4, <3>5, LoadStarts
  <2>3. CASE action = "insert"
    <3>1. /\ page'.rows = page.rows /\ page'.of = page.of /\ edit'.on /\ edit'.row = Draft
          /\ tab' = [tab EXCEPT !.saveError = FALSE] /\ calls' = calls
      BY <2>1, <2>3 DEF Opens
    <3>2. /\ tab'.view = tab.view /\ tab'.loading = tab.loading /\ tab'.error = tab.error
          /\ tab'.residency = tab.residency
      BY <1>1, <3>1 DEF TInv, Types, TabType
    <3>3. AtRest /\ ~tab.error
      BY <1>1, <2>3, RestFacts
    <3>4. Usual => Usual'
      <4> SUFFICES ASSUME Usual PROVE Usual'
        OBVIOUS
      <4>1. page.rows = db
        BY <1>1, <1>3, <3>3, EditShown, RestFacts
      <4>2. page'.of = tab'.view /\ CacheIs(page.of)'
        BY <1>1, <3>1, <3>2 DEF Usual, CacheIs
      <4> QED BY <1>1, <3>1, <4>1, <4>2, UsualShown
    <3> QED BY <1>1, <1>3, <3>1, <3>2, <3>3, <3>4, TableStays
  <2> QED BY <2>2, <2>3 DEF Navigations
<1> QED BY <1>2, <1>3 DEF RequestNavigationAction

LEMMA LoadTableDataCalm == ASSUME Held, LoadTableData PROVE Calm'
<1>1. /\ Usable /\ tab.error /\ pending = "none" /\ ~tab.loading /\ edit' = NotEdited
      /\ Issue(NewCall("load", tab.view), calls) /\ UNCHANGED <<db, page, pending, cache>>
      /\ tab.residency # "restoring" /\ TInv /\ Fits(calls) /\ ~edit'.on
  BY CallsFit DEF LoadTableData, Usable, Held, Calm, ScreenInv, NotEdited
<1>2. PICK t : t = [tab EXCEPT !.saveError = FALSE]
  OBVIOUS
<1>3. t \in TabType /\ t.view = tab.view /\ t.residency = tab.residency /\ tab' = Loading(t)
  BY <1>1, <1>2, TabTypes DEF TInv, Types, TabType, LoadTableData
<1>4. /\ tab'.loading /\ ~tab'.error /\ tab'.residency = tab.residency /\ tab'.view = tab.view
  BY <1>3, LoadingFacts
<1>5. ~Dirty
  BY <1>1, <1>4, NoGap
<1>6. Working(calls) = {}
  BY <1>1, LoadIssued, TabTypes DEF TInv, Types
<1>7. Usual /\ ~Editing
  BY <1>5, <1>6, RestFacts
<1>8. RowsOK' /\ ~Editing' /\ CacheIs(page.of)'
  BY <1>1, <1>7 DEF Usual, RowsOK, EditOK, Shown, Blank, Base, Editing, CacheIs
<1>9. tab'.residency # "resident" => page'.rows = NoRows /\ ~edit'.on
  BY <1>1, <1>4 DEF Held, Calm, ScreenInv
<1> QED BY <1>1, <1>4, <1>8, <1>9, LoadStarts

LEMMA CancelCalm ==
  ASSUME Held, CancelLoad \/ \E c \in calls : CancelReply(c)
  PROVE  Calm'
<1>1. CASE CancelLoad
  <2>1. /\ Issue(NewCall("cancel", 0), calls) /\ tab' = [tab EXCEPT !.cancelling = TRUE]
        /\ UNCHANGED <<db, page, edit, pending, cache>> /\ TInv /\ tab \in TabType
    BY <1>1 DEF CancelLoad, Held, TInv, Types
  <2>2. PICK c : c = NewCall("cancel", 0)
    OBVIOUS
  <2>3. c.kind = "cancel" /\ calls' = calls \cup {c}
    BY <2>1, <2>2 DEF NewCall, Issue
  <2>4. Working(calls') = Working(calls)
    BY <2>3 DEF Working
  <2>5. /\ tab'.view = tab.view /\ tab'.loading = tab.loading /\ tab'.error = tab.error
        /\ tab'.residency = tab.residency /\ tab'.visible = tab.visible
    BY <2>1 DEF TabType
  <2>6. pending' # "none" => tab'.visible
    BY <2>1, <2>5, RestFacts
  <2> QED BY <2>1, <2>4, <2>5, <2>6, SameCalm
<1>2. ASSUME NEW c \in calls, CancelReply(c) PROVE Calm'
  <2>1. /\ c.kind = "cancel" /\ calls' = calls \ {c} /\ tab \in TabType
        /\ tab' \in {tab, [tab EXCEPT !.cancelling = FALSE]}
        /\ UNCHANGED <<db, page, edit, pending, cache>>
    BY <1>2 DEF CancelReply, Settle, Held, TInv, Types
  <2>2. Working(calls') = Working(calls)
    BY <2>1 DEF Working
  <2>3. /\ tab'.view = tab.view /\ tab'.loading = tab.loading /\ tab'.error = tab.error
        /\ tab'.residency = tab.residency /\ tab'.visible = tab.visible
    BY <2>1 DEF TabType
  <2>4. pending' # "none" => tab'.visible
    BY <2>1, <2>3, RestFacts
  <2> QED BY <2>1, <2>2, <2>3, <2>4, SameCalm
<1> QED BY <1>1, <1>2

LEMMA MarkInactiveCalm == ASSUME Held, MarkSurfaceInactive PROVE Calm'
<1>1. /\ pending = "none" /\ tab' = [tab EXCEPT !.visible = FALSE] /\ tab \in TabType
      /\ UNCHANGED <<db, page, edit, pending, cache, calls>>
  BY DEF MarkSurfaceInactive, Held, TInv, Types
<1>2. /\ tab'.view = tab.view /\ tab'.loading = tab.loading /\ tab'.error = tab.error
      /\ tab'.residency = tab.residency
  BY <1>1 DEF TabType
<1> QED BY <1>1, <1>2, SameCalm

LEMMA MarkActiveCalm == ASSUME Held, MarkSurfaceActive PROVE Calm'
<1>1. /\ ~tab.visible /\ UNCHANGED <<db, page, edit, pending, cache>> /\ tab \in TabType
      /\ pending = "none" /\ TInv
  BY RestFacts DEF MarkSurfaceActive, Held, TInv, Types
<1>2. CASE /\ tab.residency = "evicted" /\ Issue(NewCall("restore", 0), calls)
           /\ tab' = [tab EXCEPT !.visible = TRUE, !.loading = TRUE, !.error = FALSE,
                                 !.residency = "restoring"]
  <2>1. PICK c : c = NewCall("restore", 0)
    OBVIOUS
  <2>2. c.kind = "restore" /\ c.id = issued + 1 /\ calls' = calls \cup {c}
    BY <1>2, <2>1 DEF NewCall, Issue
  <2>3. Working(calls) = {} /\ Working(calls') = {c}
    BY <1>1, <2>2, CallsFit, IssuedCall
  <2>4. /\ tab'.view = tab.view /\ tab'.loading /\ ~tab'.error /\ tab'.residency = "restoring"
    BY <1>1, <1>2 DEF TabType
  <2>5. Usual'
    <3>1. Usual
      BY <2>3, RestFacts
    <3> QED BY <1>1, <2>4, <3>1 DEF Usual, RowsOK, EditOK, Shown, Blank, Base, Editing, CacheIs
  <2>6. CallInv(c)'
    BY <2>2, <2>4, <2>5 DEF CallInv, RestoreInv
  <2>7. WorkInv'
    BY <2>3, <2>6, OneAtWork
  <2>8. ScreenInv'
    BY <1>1, <1>2, <2>4 DEF Held, Calm, ScreenInv
  <2> QED BY <2>7, <2>8, CalmKept
<1>3. CASE tab' = [tab EXCEPT !.visible = TRUE] /\ UNCHANGED calls
  <2>1. /\ tab'.view = tab.view /\ tab'.loading = tab.loading /\ tab'.error = tab.error
        /\ tab'.residency = tab.residency
    BY <1>1, <1>3 DEF TabType
  <2> QED BY <1>1, <1>3, <2>1, SameCalm
<1> QED BY <1>2, <1>3 DEF MarkSurfaceActive
LEMMA EvictCalm == ASSUME Held, EvictInactiveRows PROVE Calm'
<1>1. /\ timer /\ ~tab.visible /\ pending = "none" /\ UNCHANGED <<db, pending, cache, calls>>
      /\ tab \in TabType /\ page \in PageType
  BY DEF EvictInactiveRows, Held, TInv, TabInv, Types
<1>2. CASE UNCHANGED <<tab, page, edit>>
  BY <1>1, <1>2, SameCalm
<1>3. CASE /\ tab.residency = "resident" /\ page' = [NoPage EXCEPT !.of = page.of]
           /\ edit' = NotEdited
           /\ tab' = [tab EXCEPT !.saveError = FALSE, !.residency = "evicted"]
  <2>1. /\ tab'.view = tab.view /\ tab'.loading = tab.loading /\ tab'.error = tab.error
        /\ tab'.residency = "evicted"
    BY <1>1, <1>3 DEF TabType
  <2>2. page'.rows = NoRows /\ page'.of = page.of /\ ~edit'.on
    BY <1>3 DEF NoPage, NotEdited
  <2>3. Working(calls') = {} /\ Working(calls) = {}
    BY <1>1, <1>3, <2>1, NoGap
  <2>4. Usual'
    <3>1. Usual
      BY <2>3, RestFacts
    <3> QED BY <1>1, <2>1, <2>2, <3>1 DEF Usual, RowsOK, EditOK, Blank, Editing, CacheIs
  <2>5. WorkInv'
    BY <2>3, <2>4, NoneAtWork
  <2>6. ScreenInv'
    BY <1>1, <2>1, <2>2, NoGap DEF ScreenInv
  <2> QED BY <2>5, <2>6, CalmKept
<1> QED BY <1>2, <1>3 DEF EvictInactiveRows

LEMMA CacheExpiresCalm == ASSUME Held, CacheExpires PROVE Calm'
<1>1. /\ cache' = NoPage /\ UNCHANGED <<db, tab, page, edit, pending, calls>>
      /\ WorkInv /\ ScreenInv
  BY DEF CacheExpires, Held, Calm
<1>2. /\ RowsOK' <=> RowsOK
      /\ Usual => Usual'
      /\ Editing' <=> Editing
      /\ \A v : CacheIs(v)'
      /\ AtRest' <=> AtRest
  BY <1>1 DEF RowsOK, EditOK, Usual, Shown, Blank, Base, Editing, CacheIs, AtRest
<1>3. ASSUME NEW c \in Working(calls)' PROVE CallInv(c)'
  <2>1. CallInv(c)
    BY <1>1, <1>3 DEF WorkInv, Working
  <2>2. c.kind = "load" => LoadInv(c)'
    BY <1>1, <1>2, <2>1 DEF CallInv, LoadInv
  <2>3. c.kind = "restore" => RestoreInv(c)'
    BY <1>1, <1>2, <2>1 DEF CallInv, RestoreInv
  <2>4. c.kind = "save" => SaveInv(c)'
    BY <1>1, <1>2, <2>1 DEF CallInv, SaveInv
  <2>5. c.kind = "delete" => DeleteInv(c)'
    BY <1>1, <1>2, <2>1 DEF CallInv, DeleteInv
  <2>6. c.kind = "sync" => SyncInv(c)'
    BY <1>1, <1>2, <2>1 DEF CallInv, SyncInv
  <2> QED BY <2>2, <2>3, <2>4, <2>5, <2>6 DEF CallInv
<1>4. WorkInv'
  BY <1>1, <1>2, <1>3 DEF WorkInv, Working
<1>5. ScreenInv'
  BY <1>1 DEF ScreenInv
<1> QED BY <1>4, <1>5, CalmKept

\* What is typed is in the row and in the edit state.
LEMMA TypedShown ==
  ASSUME Held, OnGrid, EditStep, Usual, UNCHANGED db
  PROVE  RowsOK' /\ Shown' /\ page'.of = page.of
<1>1. PICK row \in Rows \cup {Draft}, v \in 0 .. MaxTyped, from \in 0 .. MaxTyped :
        /\ Typed(row, v, from)
        /\ \/ edit.on /\ edit.row = row /\ from = edit.from
           \/ ~Dirty /\ row \in Rows /\ page.rows[row] = from /\ v # from
  BY DEF EditStep
<1>2. /\ TInv /\ Shown /\ EditOK /\ page \in PageType
  BY RestFacts DEF Held, TInv, Types
<1>3. /\ page'.of = page.of
      /\ row # Draft /\ page.rows[row] # Gone => page' = [page EXCEPT !.rows[row] = v]
      /\ row = Draft => page' = page
      /\ row # Draft /\ v = from => edit' = NotEdited
      /\ ~(row # Draft /\ v = from) =>
           /\ edit'.on = TRUE /\ edit'.row = row /\ edit'.from = from /\ edit'.to = v
           /\ edit'.modified = (v # from)
  BY <1>1, <1>2, TypedTypes
<1>4. CASE row = Draft
  <2>1. page.rows = db
    <3>1. edit.row = Draft
      BY <1>1, <1>4, ConstTypes
    <3> QED BY <1>2, <3>1, EditShown DEF Editing
  <2> QED BY <1>3, <1>4, <2>1, ShownAgain
<1>5. CASE row # Draft
  <2>1. /\ row \in Rows /\ page.rows[row] # Gone /\ db[row] = from /\ from # Gone
        /\ [page.rows EXCEPT ![row] = v] = [db EXCEPT ![row] = v]
    <3>1. CASE edit.on /\ edit.row = row /\ from = edit.from
      BY <1>2, <1>5, <3>1, EditShown DEF Editing
    <3>2. CASE ~Dirty /\ row \in Rows /\ page.rows[row] = from /\ v # from
      <4>1. page.rows = db
        BY <1>2, <3>2, EditShown, RestFacts
      <4> QED BY <3>2, <4>1, ConstTypes
    <3> QED BY <1>1, <3>1, <3>2
  <2>2. page'.rows = [db EXCEPT ![row] = v]
    <3>1. page' = [page EXCEPT !.rows[row] = v]
      BY <1>3, <1>5, <2>1
    <3>2. page'.rows = [page.rows EXCEPT ![row] = v]
      BY <1>2, <3>1 DEF PageType
    <3> QED BY <2>1, <3>2
  <2>3. CASE v = from
    <3>1. edit' = NotEdited
      BY <1>3, <1>5, <2>3
    <3>2. page'.rows = db
      BY <1>2, <2>1, <2>2, <2>3, EditShown
    <3> QED BY <1>3, <3>1, <3>2, ShownAgain DEF NotEdited
  <2>4. CASE v # from
    <3>1. /\ edit'.on = TRUE /\ edit'.row = row /\ edit'.from = from /\ edit'.to = v
          /\ edit'.modified = TRUE
      BY <1>3, <1>5, <2>4
    <3>2. EditOK'
      BY <2>1, <2>4, <3>1 DEF EditOK, Editing
    <3>3. Shown'
      BY <1>5, <2>2, <3>1 DEF Shown, Base, Editing
    <3> QED BY <1>3, <3>2, <3>3 DEF RowsOK
  <2> QED BY <2>3, <2>4
<1> QED BY <1>4, <1>5

LEMMA EditCellCalm == ASSUME Held, EditCell PROVE Calm'
<1>1. /\ TInv /\ EditStep /\ OnGrid /\ tab' = [tab EXCEPT !.saveError = FALSE]
      /\ UNCHANGED <<db, pending, cache, calls>> /\ pending = "none"
  BY EditCellTypes DEF Held, OnGrid, Usable
<1>2. page'.of = page.of
  BY <1>1, TypedTypes DEF EditStep
<1>3. /\ tab'.view = tab.view /\ tab'.loading = tab.loading /\ tab'.error = tab.error
      /\ tab'.residency = tab.residency
  BY <1>1, SaveErrorGone DEF TInv, Types
<1>4. Usual => Usual'
  <2> SUFFICES ASSUME Usual PROVE Usual'
    OBVIOUS
  <2>1. RowsOK' /\ Shown'
    BY <1>1, TypedShown
  <2> QED BY <1>1, <1>2, <1>3, <2>1 DEF Usual, CacheIs
<1> QED BY <1>1, <1>2, <1>3, <1>4, RestFacts, TableStays

LEMMA SaveCalm == ASSUME Held, Save PROVE Calm'
<1>1. OnGrid /\ Dirty /\ UNCHANGED <<db, page, pending, cache>>
  BY DEF Save
<1>2. CASE SaveModified(FALSE) /\ UNCHANGED <<tab, edit>>
  BY <1>1, <1>2, RestFacts, SaveSent
<1>3. CASE ~edit.modified /\ edit' = NotEdited
  <2>1. page.draft
    BY <1>1, <1>3, RestFacts DEF Dirty
  <2>2. ~page'.draft
    BY <1>3, NoGap DEF NotEdited
  <2> QED BY <1>1, <2>1, <2>2
<1> QED BY <1>2, <1>3 DEF Save

LEMMA DiscardCalm == ASSUME Held, DiscardCurrentRow PROVE Calm'
<1>1. /\ TInv /\ OnGrid /\ Dirty /\ edit.on /\ tab' = [tab EXCEPT !.saveError = FALSE]
      /\ page' = Discarded /\ edit' = NotEdited /\ ~edit'.on
      /\ UNCHANGED <<db, pending, cache, calls>> /\ pending = "none"
  BY DEF DiscardCurrentRow, Held, OnGrid, Usable, Dirty, NotEdited
<1>2. page'.of = page.of
  BY <1>1, DiscardedTypes
<1>3. /\ tab'.view = tab.view /\ tab'.loading = tab.loading /\ tab'.error = tab.error
      /\ tab'.residency = tab.residency
  BY <1>1, SaveErrorGone DEF TInv, Types
<1>4. Usual => Usual'
  <2> SUFFICES ASSUME Usual PROVE Usual'
    OBVIOUS
  <2>1. page'.rows = db
    BY <1>1, DiscardShown, RestFacts
  <2>2. page'.of = tab'.view /\ CacheIs(page.of)'
    BY <1>1, <1>2, <1>3 DEF Usual, CacheIs
  <2> QED BY <1>1, <2>1, <2>2, UsualShown
<1> QED BY <1>1, <1>2, <1>3, <1>4, RestFacts, TableStays

\* A delete that is sent carries no other row's typed value.
LEMMA DeleteRowCalm == ASSUME Held, DeleteRow PROVE Calm'
<1>1. TInv /\ OnGrid /\ UNCHANGED <<db, tab, pending, cache>> /\ DeleteStep /\ pending = "none"
  BY DeleteRowTypes DEF DeleteRow, Held, OnGrid, Usable
<1>2. PICK row \in Rows, d \in CallType :
        /\ page.rows[row] # Gone
        /\ \/ edit.on /\ edit.row = row /\ page' = Discarded /\ edit' = NotEdited
           \/ ~(edit.on /\ edit.row = row) /\ UNCHANGED <<page, edit>>
        /\ Issue(d, calls) /\ d.kind = "delete" /\ d.id = issued + 1
        /\ d.page = page' /\ ~d.dialog /\ ~d.edit.on /\ d.edit.row = row
  BY <1>1 DEF DeleteStep
<1>3. Working(calls) = {} /\ Working(calls') = {d}
  BY <1>1, <1>2, CallsFit, IssuedCall DEF Issue
<1>4. AtRest /\ ~tab.error /\ Usual /\ Shown /\ EditOK /\ row # Draft
  BY <1>1, <1>3, ConstTypes, RestFacts
<1>5. d \in calls' \ calls
  <2>1. d \notin calls
    BY <1>2, <1>3 DEF Working
  <2> QED BY <1>2, <2>1 DEF Issue
<1>6. Usual' /\ db[row] # Gone /\ (d.read \/ page'.rows = db)
  <2>1. CASE edit.on /\ edit.row = row /\ page' = Discarded /\ edit' = NotEdited
    <3>1. page'.rows = db /\ page'.of = page.of
      BY <1>1, <1>4, <2>1, DiscardShown, RestFacts
    <3>2. db[row] # Gone
      BY <1>1, <1>4, <2>1, EditShown DEF Editing
    <3>3. page'.of = tab'.view /\ CacheIs(page.of)'
      BY <1>1, <1>4, <3>1 DEF Usual, CacheIs
    <3> QED BY <1>1, <2>1, <3>1, <3>2, <3>3, UsualShown DEF NotEdited
  <2>2. CASE ~(edit.on /\ edit.row = row) /\ UNCHANGED <<page, edit>>
    <3>1. Usual'
      BY <1>1, <1>4, <2>2 DEF Usual, RowsOK, EditOK, Shown, Base, Editing, CacheIs
    <3>2. db[row] # Gone
      BY <1>1, <1>2, <1>4, <2>2, EditShown DEF Editing
    <3>3. ~d.read => ~Editing
      <4> SUFFICES ASSUME ~d.read, Editing PROVE FALSE
        OBVIOUS
      <4>1. d.page.rows[edit.row] = edit.to
        BY <1>1, <1>2, <1>4, <2>2, EditShown
      <4>2. CarriesTyped(d)
        BY <1>2, <2>2, <4>1 DEF CarriesTyped, Editing
      <4> QED BY <1>5, <4>2, NoGap
    <3> QED BY <1>1, <1>4, <2>2, <3>1, <3>2, <3>3, EditShown
  <2> QED BY <1>2, <2>1, <2>2
<1>7. DeleteInv(d)'
  <2>1. AtRest' /\ ~tab'.error
    BY <1>1, <1>4 DEF AtRest
  <2> QED BY <1>1, <1>2, <1>6, <2>1 DEF DeleteInv
<1>8. WorkInv'
  BY <1>2, <1>3, <1>7, OneAtWork DEF CallInv
<1>9. ScreenInv'
  BY <1>1, <1>4, NoGap DEF ScreenInv, AtRest
<1> QED BY <1>8, <1>9, CalmKept

\* The dialog's navigation starts over a page with nothing typed in it.
LEMMA ConfirmedCalm ==
  ASSUME Held, NEW p, ConfirmedStep(p), pending # "none", UNCHANGED <<db, cache>>,
         p.of = page.of, Usual => p.rows = db
  PROVE  Calm'
<1>1. PICK t : t = [tab EXCEPT !.saveError = FALSE]
  OBVIOUS
<1>2. /\ t.view = tab.view /\ t.loading = tab.loading /\ t.error = tab.error
      /\ t.residency = tab.residency
  BY <1>1 DEF Held, TInv, Types, TabType
<1>3. Opens(pending, t, p, NotEdited, calls) /\ pending' = "none"
  BY <1>1 DEF ConfirmedStep
<1>4. AtRest /\ Fits(calls)
  BY CallsFit, RestFacts DEF Held
<1>5. CASE pending \in {"view", "refresh"}
  <2>1. /\ tab'.loading /\ ~tab'.error /\ tab'.residency = t.residency
        /\ Issue(NewCall("load", tab'.view), calls)
        /\ page' = p /\ edit' = NotEdited /\ ~edit'.on
    BY <1>3, <1>5 DEF Opens, NotEdited
  <2>2. Working(calls) = {}
    <3>1. PICK view : view = tab'.view
      OBVIOUS
    <3>2. view \in Views
      BY <3>1, TabTypes DEF Held, TInv, Types
    <3> QED BY <1>4, <2>1, <3>1, <3>2, LoadIssued
  <2>3. Usual /\ p.rows = db
    BY <2>2, RestFacts
  <2>4. RowsOK' /\ ~Editing'
    BY <2>1, <2>3, ShownAgain
  <2>5. CacheIs(page.of)'
    BY <2>1, <2>3 DEF Usual, CacheIs
  <2>6. tab'.residency = "resident"
    BY <1>2, <1>4, <2>1 DEF AtRest
  <2> QED BY <1>3, <1>4, <2>1, <2>4, <2>5, <2>6, LoadStarts
<1>6. CASE pending = "insert"
  <2>1. /\ page'.rows = p.rows /\ page'.of = p.of /\ edit'.on /\ edit'.row = Draft
        /\ tab' = t /\ calls' = calls
    BY <1>1, <1>3, <1>6 DEF Opens
  <2>2. Usual => Usual'
    <3> SUFFICES ASSUME Usual PROVE Usual'
      OBVIOUS
    <3>1. page'.of = tab'.view /\ CacheIs(page.of)'
      BY <1>2, <2>1 DEF Usual, CacheIs
    <3> QED BY <2>1, <3>1, UsualShown
  <2> QED BY <1>2, <1>3, <1>4, <2>1, <2>2, TableStays
<1> QED BY <1>5, <1>6 DEF Held, TInv, Types, Navigations

LEMMA ConfirmCalm ==
  ASSUME Held, ConfirmNavigationSave \/ ConfirmNavigationDiscard \/ CancelNavigation
  PROVE  Calm'
<1>1. /\ pending # "none" /\ AtRest /\ TInv /\ page \in PageType /\ Note
      /\ UNCHANGED <<db, born, cache, timer>> /\ tab.open
  BY RestFacts DEF ConfirmNavigationSave, ConfirmNavigationDiscard, CancelNavigation, Held, TInv, Types
<1>2. CASE ConfirmNavigationSave
  <2>1. CASE SaveModified(TRUE) /\ UNCHANGED <<tab, page, edit, pending>>
    BY <1>1, <2>1, SaveSent
  <2>2. CASE /\ ~Modified /\ pending' = "none"
             /\ Navigate(pending, [tab EXCEPT !.saveError = FALSE], page, NotEdited, calls)
    <3>1. ConfirmedStep(page)
      BY <1>1, <2>2, ConfirmedTypes
    <3>2. Usual => page.rows = db
      BY <1>1, <2>2, EditShown, RestFacts
    <3> QED BY <1>1, <3>1, <3>2, ConfirmedCalm
  <2> QED BY <1>2, <2>1, <2>2 DEF ConfirmNavigationSave
<1>3. CASE ConfirmNavigationDiscard
  <2>1. PICK p : p = IF edit.on THEN Discarded ELSE page
    OBVIOUS
  <2>2. p \in PageType
    BY <1>1, <2>1, DiscardedTypes
  <2>3. ConfirmedStep(p)
    BY <1>1, <1>3, <2>1, <2>2, ConfirmedTypes DEF ConfirmNavigationDiscard
  <2>4. p.of = page.of
    BY <1>1, <2>1, DiscardedTypes
  <2>5. Usual => p.rows = db
    BY <1>1, <2>1, DiscardShown, EditShown, RestFacts DEF Editing
  <2> QED BY <1>1, <2>3, <2>4, <2>5, ConfirmedCalm
<1>4. CASE CancelNavigation
  BY <1>4, SameCalm DEF CancelNavigation
<1> QED BY <1>2, <1>3, <1>4
----------
(* The replies, with no race met. *)

\* The reply of the only call at work, which it ends.
LEMMA Answered ==
  ASSUME Held, NEW c \in calls, c.kind # "cancel", calls' = calls \ {c}
  PROVE  Working(calls') = {} /\ CallInv(c)
<1>1. Working(calls) = {c} /\ Working(calls \ {c}) = {}
  BY OnlyCall DEF Held, Calm
<1> QED BY <1>1 DEF Held, Calm, WorkInv

LEMMA LoadReadsCalm == ASSUME Held, NEW c \in calls, LoadReads(c) PROVE Calm'
<1>1. PICK read, d : /\ read = [of |-> c.of, rows |-> db, draft |-> FALSE]
                     /\ d = [c EXCEPT !.read = TRUE, !.page = read]
  OBVIOUS
<1>2. /\ c.kind = "load" /\ ~c.read /\ calls' = (calls \ {c}) \cup {d}
      /\ cache' = (IF c.barred THEN cache ELSE read)
      /\ UNCHANGED <<db, tab, page, edit, pending>> /\ c \in CallType
  BY <1>1 DEF LoadReads, Held, TInv, Types
<1>3. /\ d.kind = "load" /\ d.read = TRUE /\ d.page = read /\ d.of = c.of /\ d.barred = c.barred
  BY <1>1, <1>2 DEF CallType
<1>4. Working(calls) = {c} /\ Working(calls \ {c}) = {}
  BY <1>2, OnlyCall DEF Held, Calm
<1>5. Working(calls') = {d}
  BY <1>2, <1>3, <1>4 DEF Working
<1>6. LoadInv(c)
  BY <1>2, <1>4 DEF Held, Calm, WorkInv, CallInv
<1>7. RowsOK' /\ ~Editing'
  BY <1>2, <1>6 DEF LoadInv, RowsOK, EditOK, Shown, Blank, Base, Editing
<1>8. cache' = read /\ read.rows = db' /\ ~read.draft /\ read.of = tab'.view
  BY <1>1, <1>2, <1>6 DEF LoadInv
<1>9. CacheIs(tab.view)'
  BY <1>8 DEF CacheIs
<1>10. LoadInv(d)'
  BY <1>1, <1>2, <1>3, <1>6, <1>7, <1>9 DEF LoadInv
<1>11. WorkInv'
  BY <1>3, <1>5, <1>10, OneAtWork DEF CallInv
<1>12. ScreenInv'
  BY <1>2 DEF Held, Calm, ScreenInv
<1> QED BY <1>11, <1>12, CalmKept

LEMMA LoadReplyCalm == ASSUME Held, NEW c \in calls, LoadReply(c) PROVE Calm'
<1>1. /\ c.kind = "load" /\ c.read /\ calls' = calls \ {c} /\ page' = c.page
      /\ tab' = [tab EXCEPT !.loading = FALSE, !.cancelling = FALSE, !.residency = "resident"]
      /\ UNCHANGED <<db, edit, pending, cache>> /\ tab \in TabType
  BY DEF LoadReply, Settle, Held, TInv, Types
<1>2. Working(calls') = {} /\ LoadInv(c)
  BY <1>1, Answered DEF CallInv
<1>3. tab'.view = tab.view /\ ~tab'.loading /\ tab'.residency = "resident"
  BY <1>1 DEF TabType
<1>4. page'.rows = db' /\ page'.of = tab'.view /\ CacheIs(page.of)'
  BY <1>1, <1>2, <1>3 DEF LoadInv, CacheIs
<1>5. ~edit'.on \/ edit'.row = Draft
  BY <1>1, <1>2 DEF LoadInv, Editing
<1>6. WorkInv'
  BY <1>2, <1>4, <1>5, UsualShown, NoneAtWork
<1>7. pending' = "none"
  BY <1>1, <1>2 DEF LoadInv, Held, Calm, ScreenInv
<1>8. ScreenInv'
  BY <1>3, <1>7, NoGap DEF ScreenInv
<1> QED BY <1>6, <1>8, CalmKept

LEMMA LoadFailsCalm == ASSUME Held, NEW c \in calls, LoadFails(c) PROVE Calm'
<1>1. /\ c.kind = "load" /\ ~c.read /\ calls' = calls \ {c} /\ tab' = Failure(tab)
      /\ UNCHANGED <<db, page, edit, pending, cache>> /\ tab \in TabType
  BY DEF LoadFails, Settle, Held, TInv, Types
<1>2. Working(calls') = {} /\ LoadInv(c)
  BY <1>1, Answered DEF CallInv
<1>3. tab'.view = tab.view /\ ~tab'.loading /\ tab'.error /\ tab'.residency = tab.residency
  BY <1>1 DEF TabType, Failure
<1>4. page'.of = tab'.view
  BY <1>3, NoGap
<1>5. Usual'
  BY <1>1, <1>2, <1>3, <1>4
     DEF LoadInv, Usual, RowsOK, EditOK, Shown, Blank, Base, Editing, CacheIs
<1>6. WorkInv'
  BY <1>2, <1>5, NoneAtWork
<1>7. pending' = "none" /\ tab'.residency # "restoring"
  BY <1>1, <1>2, <1>3 DEF LoadInv, Held, Calm, ScreenInv
<1>8. ScreenInv'
  BY <1>1, <1>3, <1>4, <1>7, NoGap DEF Held, Calm, ScreenInv
<1> QED BY <1>6, <1>8, CalmKept

LEMMA RestoreReplyCalm == ASSUME Held, NEW c \in calls, RestoreReply(c) PROVE Calm'
<1>1. /\ c.kind = "restore" /\ calls' = calls \ {c}
      /\ UNCHANGED <<db, edit, pending, cache>> /\ tab \in TabType /\ tab.open
  BY DEF RestoreReply, Settle, Held, TInv, Types
<1>2. Working(calls') = {} /\ RestoreInv(c)
  BY <1>1, Answered DEF CallInv
<1>3. Usual /\ ~edit.on /\ page.rows = NoRows /\ pending = "none"
  BY <1>2 DEF RestoreInv, Held, Calm, ScreenInv
<1>4. CASE /\ cache # NoPage /\ page' = cache
           /\ tab' = [tab EXCEPT !.loading = FALSE, !.error = FALSE, !.saveError = FALSE,
                                 !.residency = "resident"]
  <2>1. /\ tab'.view = tab.view /\ ~tab'.loading /\ ~tab'.error /\ tab'.residency = "resident"
    BY <1>1, <1>4 DEF TabType
  <2>2. page'.rows = db' /\ page'.of = tab'.view /\ CacheIs(page.of)'
    BY <1>1, <1>3, <1>4, <2>1 DEF Usual, CacheIs
  <2>3. WorkInv'
    BY <1>1, <1>2, <1>3, <2>2, UsualShown, NoneAtWork
  <2>4. ScreenInv'
    BY <1>1, <1>3, <2>1, NoGap DEF ScreenInv
  <2> QED BY <2>3, <2>4, CalmKept
<1>5. CASE tab' = Unavailable(tab) /\ UNCHANGED page
  <2>1. tab'.view = tab.view /\ ~tab'.loading /\ tab'.error /\ tab'.residency = "evicted"
    BY <1>1, <1>5 DEF TabType, Unavailable
  <2>2. Usual'
    BY <1>1, <1>3, <1>5, <2>1 DEF Usual, RowsOK, EditOK, Blank, Editing, CacheIs
  <2>3. WorkInv'
    BY <1>2, <2>2, NoneAtWork
  <2>4. ScreenInv'
    BY <1>1, <1>3, <1>5, <2>1, NoGap DEF ScreenInv
  <2> QED BY <2>3, <2>4, CalmKept
<1> QED BY <1>1, <1>4, <1>5 DEF RestoreReply

\* A write that is answered sends the cache the rows it left in the table.
LEMMA SyncSent ==
  ASSUME Held, NEW c \in calls, c.kind # "cancel", NEW rows, SyncStep(c, rows),
         UNCHANGED <<tab, page, edit, pending, cache>>, AtRest, page.of = tab.view,
         rows.rows = db', c.dialog => ~rows.draft
  PROVE  Calm'
<1>1. PICK s \in CallType :
        /\ calls' = (calls \ {c}) \cup {s}
        /\ s.kind = "sync" /\ s.of = tab.view /\ s.page = rows /\ s.dialog = c.dialog
  BY DEF SyncStep, Held
<1>2. Working(calls \ {c}) = {}
  BY OnlyCall DEF Held, Calm
<1>3. Working(calls') = {s}
  BY <1>1, <1>2 DEF Working
<1>4. SyncInv(s)'
  BY <1>1 DEF SyncInv, AtRest
<1>5. WorkInv'
  BY <1>1, <1>3, <1>4, OneAtWork DEF CallInv
<1>6. ScreenInv'
  BY DEF Held, Calm, ScreenInv
<1> QED BY <1>5, <1>6, CalmKept

LEMMA InsertReplyCalm == ASSUME Held, NEW c \in calls, InsertReply(c) PROVE Calm'
<1>1. /\ c.kind = "save" /\ c.edit.row = Draft /\ db' = [db EXCEPT ![born + 1] = c.edit.to]
      /\ UNCHANGED <<tab, page, edit, pending, cache>> /\ TInv /\ c.page \in PageType
  BY CallTypes DEF InsertReply, Held, TInv, Types
<1>2. SyncStep(c, InsertedRow(c.page, c.edit.to))
  BY <1>1, InsertReplyTypes
<1>3. SaveInv(c)
  BY <1>1, OnlyCall DEF Held, Calm, WorkInv, CallInv
<1>4. /\ InsertedRow(c.page, c.edit.to).rows = [c.page.rows EXCEPT ![born + 1] = c.edit.to]
      /\ ~InsertedRow(c.page, c.edit.to).draft
  BY <1>1 DEF InsertedRow, PageType
<1>5. c.page.rows = db /\ AtRest /\ page.of = tab.view
  BY <1>1, <1>3 DEF SaveInv, Usual
<1>6. InsertedRow(c.page, c.edit.to).rows = db'
  BY <1>1, <1>4, <1>5
<1> QED BY <1>1, <1>2, <1>4, <1>5, <1>6, SyncSent

LEMMA UpdateReplyCalm == ASSUME Held, NEW c \in calls, UpdateReply(c) PROVE Calm'
<1>1. /\ c.kind = "save" /\ c.edit.row # Draft
      /\ db' = [db EXCEPT ![c.edit.row] = IF @ = Gone THEN Gone ELSE c.edit.to]
      /\ UNCHANGED <<tab, page, edit, pending, cache>> /\ TInv /\ c.page \in PageType
      /\ db \in [Rows -> Vals]
  BY CallTypes DEF UpdateReply, Held, TInv, Types
<1>2. /\ SyncStep(c, UpdatedRow(c.page, c.edit)) /\ c.edit.row \in Rows /\ c.edit.to # Gone
  BY <1>1, UpdateReplyTypes
<1>3. SaveInv(c)
  BY <1>1, OnlyCall DEF Held, Calm, WorkInv, CallInv
<1>4. /\ db[c.edit.row] # Gone /\ ~c.page.draft /\ AtRest /\ page.of = tab.view
      /\ c.page.rows = [db EXCEPT ![c.edit.row] = c.edit.to]
  BY <1>1, <1>3 DEF SaveInv, Usual
<1>5. db' = [db EXCEPT ![c.edit.row] = c.edit.to]
  BY <1>1, <1>4
<1>6. c.page.rows[c.edit.row] = c.edit.to
  BY <1>1, <1>2, <1>4
<1>7. UpdatedRow(c.page, c.edit) = [c.page EXCEPT !.rows[c.edit.row] = c.edit.to]
  BY <1>2, <1>6 DEF UpdatedRow
<1>8. /\ UpdatedRow(c.page, c.edit).rows = [c.page.rows EXCEPT ![c.edit.row] = c.edit.to]
      /\ UpdatedRow(c.page, c.edit).draft = c.page.draft
  BY <1>1, <1>7 DEF PageType
<1>9. UpdatedRow(c.page, c.edit).rows = db'
  BY <1>1, <1>4, <1>5, <1>8
<1> QED BY <1>1, <1>2, <1>4, <1>8, <1>9, SyncSent

LEMMA WriteFailsCalm == ASSUME Held, NEW c \in calls, WriteFails(c) PROVE Calm'
<1>1. /\ c.kind \in {"save", "delete"} /\ calls' = calls \ {c} /\ tab \in TabType
      /\ \/ tab' = [tab EXCEPT !.saveError = TRUE]
         \/ tab' = [tab EXCEPT !.error = TRUE]
      /\ UNCHANGED <<db, page, edit, pending, cache>>
  BY DEF WriteFails, Settle, Held, TInv, Types
<1>2. Working(calls') = {} /\ CallInv(c)
  BY <1>1, Answered
<1>3. AtRest /\ Usual
  BY <1>1, <1>2 DEF CallInv, SaveInv, DeleteInv
<1>4. /\ tab'.view = tab.view /\ tab'.loading = tab.loading /\ tab'.visible = tab.visible
      /\ tab'.residency = tab.residency /\ (~tab'.error => ~tab.error)
  BY <1>1 DEF TabType
<1>5. Usual'
  BY <1>1, <1>3, <1>4 DEF Usual, RowsOK, EditOK, Shown, Blank, Base, Editing, CacheIs
<1>6. WorkInv'
  BY <1>2, <1>5, NoneAtWork
<1>7. ScreenInv'
  BY <1>1, <1>4, NoGap DEF Held, Calm, ScreenInv
<1> QED BY <1>6, <1>7, CalmKept

\* The rows a delete leaves are the table's, and no typed value is among them.
LEMMA DeleteReplyCalm == ASSUME Held, NEW c \in calls, DeleteReply(c) PROVE Calm'
<1>1. PICK row, from : row = c.edit.row /\ from = IF c.read THEN page ELSE c.page
  OBVIOUS
<1>2. /\ c.kind = "delete" /\ db' = [db EXCEPT ![row] = Gone] /\ TInv /\ page \in PageType
      /\ UNCHANGED <<tab, page, edit, pending, cache>> /\ from \in PageType
      /\ row \in Rows /\ db \in [Rows -> Vals]
  BY <1>1, CallTypes DEF DeleteReply, Held, TInv, Types, CallsInv
<1>3. IF from.rows[row] # Gone THEN SyncStep(c, Without(c)) ELSE calls' = calls \ {c}
  BY <1>1, <1>2, DeleteReplyTypes
<1>4. DeleteInv(c)
  BY <1>2, OnlyCall DEF Held, Calm, WorkInv, CallInv
<1>5. /\ AtRest /\ ~tab.error /\ Usual /\ Shown /\ EditOK /\ ~c.dialog /\ ~c.edit.on
      /\ db[row] # Gone /\ page.of = tab.view
  BY <1>1, <1>4, RestFacts DEF DeleteInv, Usual
<1>6. from.rows[row] # Gone
  <2>1. CASE ~c.read
    BY <1>1, <1>4, <2>1 DEF DeleteInv
  <2>2. CASE c.read
    BY <1>1, <1>2, <1>5, <2>2, EditShown
  <2> QED BY <2>1, <2>2
<1>7. SyncStep(c, Without(c))
  BY <1>3, <1>6
<1>8. Without(c).rows = [from.rows EXCEPT ![row] = Gone] /\ Without(c) = [from EXCEPT !.rows[row] = Gone]
  BY <1>1, <1>2 DEF Without, PageType
<1>9. Without(c).rows = db'
  <2>1. CASE ~c.read
    BY <1>1, <1>2, <1>4, <1>8, <2>1 DEF DeleteInv
  <2>2. CASE c.read
    <3>1. from = page
      BY <1>1, <2>2
    <3>2. CASE ~Editing
      BY <1>2, <1>5, <1>8, <3>1, <3>2, EditShown
    <3>3. CASE Editing
      <4>1. /\ page.rows = [db EXCEPT ![edit.row] = edit.to] /\ page.rows[edit.row] = edit.to
            /\ edit.row \in Rows
        BY <1>2, <1>5, <3>3, EditShown
      <4>2. edit.row = row
        <5> SUFFICES ASSUME edit.row # row PROVE FALSE
          OBVIOUS
        <5>1. PICK s \in CallType :
                /\ calls' = (calls \ {c}) \cup {s} /\ s.id \notin {d.id : d \in calls}
                /\ s.kind = "sync" /\ s.page = Without(c) /\ s.edit = c.edit
          BY <1>7 DEF SyncStep, Held
        <5>2. s \in calls' \ calls
          BY <5>1
        <5>3. Without(c).rows[edit.row] = edit.to
          BY <1>2, <1>8, <3>1, <4>1, PageTypes
        <5>4. CarriesTyped(s)
          BY <1>2, <1>5, <3>3, <5>1, <5>3 DEF CarriesTyped, Editing
        <5> QED BY <5>2, <5>4, NoGap
      <4>3. [page.rows EXCEPT ![row] = Gone] = [db EXCEPT ![row] = Gone]
        BY <1>2, <4>1, <4>2
      <4> QED BY <1>2, <1>8, <3>1, <4>3
    <3> QED BY <3>2, <3>3
  <2> QED BY <2>1, <2>2
<1> QED BY <1>2, <1>5, <1>7, <1>9, SyncSent

\* The rows shown and those cached are the table's.
LEMMA SyncReplyCalm == ASSUME Held, NEW c \in calls, SyncReply(c) PROVE Calm'
<1>1. /\ c.kind = "sync" /\ UNCHANGED db /\ TInv /\ tab.open /\ tab'.visible = tab.visible
      /\ SyncedStep(c) /\ tab \in TabType /\ page \in PageType /\ c.page \in PageType
      /\ page.of \in Views /\ c.of \in Views
  BY SyncReplyTypes, CallTypes, PageTypes DEF Held, TInv, Types
<1>2. PICK saved, shown, rest, action :
        /\ saved = [tab EXCEPT !.saveError = FALSE, !.residency = "resident"]
        /\ shown = [c.page EXCEPT !.of = page.of]
        /\ rest = Barred(calls \ {c})
        /\ action = IF c.dialog THEN pending ELSE "none"
  OBVIOUS
<1>3. /\ cache' = Patches(c) /\ Opens(action, saved, shown, NotEdited, rest)
      /\ pending' = IF c.dialog THEN "none" ELSE pending
  BY <1>1, <1>2 DEF SyncedStep
<1>4. SyncInv(c) /\ Working(calls \ {c}) = {}
  BY <1>1, OnlyCall DEF Held, Calm, WorkInv, CallInv
<1>5. Fits(rest) /\ Working(rest) = {}
  <2>1. Fits(rest)
    BY <1>1, <1>2, CallsFit, BarredTypes
  <2>2. \A d \in calls \ {c} : d \in CallType /\ d.kind = "cancel"
    BY <1>1, <1>4 DEF Working, TInv, Types
  <2>3. \A d \in rest : \E b \in calls \ {c} : d = b \/ d = [b EXCEPT !.barred = b.kind = "load"]
    BY <1>2 DEF Barred
  <2>4. \A d \in rest : d.kind = "cancel"
    <3> SUFFICES ASSUME NEW d \in rest PROVE d.kind = "cancel"
      OBVIOUS
    <3>1. PICK b \in calls \ {c} : d = b \/ d = [b EXCEPT !.barred = b.kind = "load"]
      BY <2>3
    <3>2. d.kind = b.kind
      BY <2>2, <3>1 DEF CallType
    <3> QED BY <2>2, <3>2
  <2> QED BY <2>1, <2>4 DEF Working
<1>6. /\ saved.view = tab.view /\ saved.loading = tab.loading /\ saved.error = tab.error
      /\ saved.residency = "resident" /\ ~saved.loading /\ page.of = tab.view
  BY <1>1, <1>2, <1>4 DEF TabType, SyncInv, AtRest
<1>7. shown.rows = db /\ shown.of = page.of /\ shown.draft = c.page.draft
  BY <1>1, <1>2, <1>4 DEF PageType, SyncInv
<1>8. page'.rows = db' /\ page'.of = page.of /\ (~edit'.on \/ edit'.row = Draft)
  <2>1. CASE action \in {"view", "refresh"}
    BY <1>1, <1>3, <1>7, <2>1 DEF Opens, NotEdited
  <2>2. CASE action = "insert"
    BY <1>1, <1>3, <1>7, <2>2 DEF Opens
  <2>3. CASE action = "none"
    BY <1>1, <1>3, <1>7, <2>3 DEF Opens, NotEdited
  <2> QED BY <1>3, <2>1, <2>2, <2>3 DEF Opens
<1>9. ~c.page.draft
  <2>1. CASE action = "insert"
    <3>1. c.dialog
      BY <1>2, <2>1
    <3> QED BY <1>4, <3>1 DEF SyncInv
  <2>2. CASE action # "insert"
    <3>1. page' = shown /\ ~edit'.on
      BY <1>3, <2>2 DEF Opens, NotEdited
    <3> QED BY <1>7, <3>1, NoGap
  <2> QED BY <2>1, <2>2
<1>10. CacheIs(page.of)'
  <2>1. CASE cache = NoPage
    BY <1>3, <2>1 DEF Patches, CacheIs
  <2>2. CASE cache # NoPage
    <3>1. cache' = [c.page EXCEPT !.of = c.of]
      BY <1>3, <2>2 DEF Patches
    <3>2. cache'.rows = c.page.rows /\ cache'.draft = c.page.draft /\ cache'.of = c.of
      BY <1>1, <3>1 DEF PageType
    <3> QED BY <1>1, <1>4, <1>6, <1>8, <1>9, <3>2 DEF CacheIs, SyncInv
  <2> QED BY <2>1, <2>2
<1>11. CASE action \in {"view", "refresh"}
  <2>1. /\ tab'.loading /\ ~tab'.error /\ tab'.residency = "resident"
        /\ Issue(NewCall("load", tab'.view), rest) /\ edit' = NotEdited
    BY <1>3, <1>6, <1>11 DEF Opens
  <2>2. pending' = "none"
    BY <1>2, <1>3, <1>11
  <2> QED BY <1>5, <1>8, <1>10, <2>1, <2>2, ShownAgain, LoadStarts
<1>12. CASE action \in {"insert", "none"}
  <2>1. /\ tab'.view = tab.view /\ tab'.loading = tab.loading /\ tab'.error = tab.error
        /\ tab'.residency = "resident" /\ calls' = rest
    <3>1. CASE action = "insert"
      <4>1. tab' = [saved EXCEPT !.saveError = FALSE] /\ calls' = rest
        BY <1>3, <3>1 DEF Opens
      <4>2. saved \in TabType
        BY <1>1, <1>2 DEF TabType
      <4>3. /\ tab'.view = saved.view /\ tab'.loading = saved.loading
            /\ tab'.error = saved.error /\ tab'.residency = saved.residency
        BY <4>1, <4>2 DEF TabType
      <4> QED BY <1>6, <4>1, <4>3
    <3>2. CASE action = "none"
      BY <1>3, <1>6, <3>2 DEF Opens
    <3> QED BY <1>12, <3>1, <3>2
  <2>2. Usual'
    BY <1>6, <1>8, <1>10, <2>1, UsualShown
  <2>3. WorkInv'
    BY <1>5, <2>1, <2>2, NoneAtWork
  <2>4. pending' # "none" => tab'.visible
    BY <1>1, <1>3, RestFacts
  <2>5. ScreenInv'
    BY <1>6, <2>1, <2>4, NoGap DEF ScreenInv
  <2> QED BY <2>3, <2>5, CalmKept
<1> QED BY <1>3, <1>11, <1>12 DEF Opens
----------
(* The inductive invariant. *)

LEMMA InitIInv == ASSUME Init PROVE IInv
<1>1. /\ born \in Rows /\ db = [r \in Rows |-> IF r <= born THEN 0 ELSE Gone]
      /\ tab = [open |-> TRUE, visible |-> TRUE, view |-> 0, loading |-> TRUE, cancelling |-> FALSE,
                error |-> FALSE, saveError |-> FALSE, residency |-> "resident"]
      /\ page = NoPage /\ cache = NoPage /\ edit = NotEdited /\ pending = "none" /\ timer = FALSE
      /\ issued = 1 /\ gaps = {}
  BY DEF Init
<1>2. PICK c : c = [kind |-> "load", id |-> 1, of |-> 0, read |-> FALSE, barred |-> FALSE,
                    page |-> NoPage, edit |-> NotEdited, dialog |-> FALSE]
  OBVIOUS
<1>3. calls = {c}
  BY <1>2 DEF Init
<1>4. c \in CallType
  BY <1>2, ConstTypes DEF CallType, CallKinds
<1>5. Types
  <2>1. db \in [Rows -> Vals]
    BY <1>1, ConstTypes, BoundsAssumption DEF Vals
  <2>2. tab \in TabType
    BY <1>1, ConstTypes DEF TabType
  <2>3. issued \in 0 .. MaxCalls
    BY <1>1, BoundsAssumption
  <2> QED BY <1>1, <1>3, <1>4, <2>1, <2>2, <2>3, ConstTypes DEF Types, GapNames
<1>6. CallsInv /\ TabInv
  BY <1>1, <1>2, <1>3 DEF CallsInv, TabInv
<1>7. page.draft = FALSE /\ page.rows = NoRows /\ page.of = 0 /\ edit.on = FALSE
  BY <1>1 DEF NoPage, NotEdited
<1>8. Calm
  <2>1. OneCall /\ Working(calls) = {c}
    <3>1. c.kind = "load"
      BY <1>2
    <3> QED BY <1>3, <3>1 DEF OneCall, Working
  <2>2. LoadInv(c)
    BY <1>1, <1>2, <1>7 DEF LoadInv, RowsOK, EditOK, Blank, Editing, CacheIs
  <2>3. WorkInv
    BY <1>2, <2>1, <2>2 DEF WorkInv, CallInv
  <2>4. ScreenInv
    BY <1>1, <1>7 DEF ScreenInv
  <2> QED BY <2>1, <2>3, <2>4 DEF Calm
<1> QED BY <1>5, <1>6, <1>8 DEF IInv, TInv

LEMMA StutterIInv == ASSUME IInv, UNCHANGED vars PROVE IInv'
<1>1. UNCHANGED <<db, born, tab, page, edit, pending, cache, timer, calls, issued, gaps>>
  BY DEF vars
<1>2. TInv'
  BY <1>1 DEF IInv, TInv, Types, CallsInv, TabInv
<1>3. Calm => Calm'
  <2>1. /\ RowsOK' <=> RowsOK /\ TRUE
        /\ Usual' <=> Usual /\ TRUE
        /\ Editing' <=> Editing /\ TRUE
        /\ AtRest' <=> AtRest /\ TRUE
        /\ \A v : CacheIs(v)' <=> CacheIs(v)
    BY <1>1 DEF RowsOK, EditOK, Usual, Shown, Blank, Base, Editing, CacheIs, AtRest
  <2>2. \A c : CallInv(c) => CallInv(c)'
    BY <1>1, <2>1 DEF CallInv, LoadInv, RestoreInv, SaveInv, DeleteInv, SyncInv
  <2>3. Working(calls)' = Working(calls)
    BY <1>1
  <2> QED BY <1>1, <2>1, <2>2, <2>3 DEF Calm, OneCall, WorkInv, ScreenInv
<1> QED BY <1>1, <1>2, <1>3 DEF IInv

\* Types, whatever races were met.
LEMMA NextTInv == ASSUME TInv, Next PROVE TInv'
<1>1. CASE User
  BY <1>1, RequestNavigationTypes, LoadTableDataTypes, CancelTypes, ResidencyTypes,
     MarkActiveTypes, EditCellTypes, SaveTypes, DiscardTypes, DeleteRowTypes, ConfirmTypes,
     CleanupTypes DEF User
<1>2. CASE EvictInactiveRows \/ CacheExpires
  BY <1>2, ResidencyTypes
<1>3. ASSUME NEW c \in calls, Reply(c) PROVE TInv'
  BY <1>3, LoadReadsTypes, LoadReplyTypes, LoadFailsTypes, CancelTypes, RestoreReplyTypes,
     InsertReplyTypes, UpdateReplyTypes, WriteFailsTypes, SyncReplyTypes, DeleteReplyTypes
     DEF Reply
<1> QED BY <1>1, <1>2, <1>3 DEF Next

\* A step of a tab that stays open and meets no race.
LEMMA NextCalm == ASSUME Held, Next PROVE Calm'
<1>1. CASE User
  <2>1. ~CleanupTab
    BY CleanupTypes DEF Held
  <2> QED BY <1>1, <2>1, RequestNavigationCalm, LoadTableDataCalm, CancelCalm, MarkInactiveCalm,
             MarkActiveCalm, EditCellCalm, SaveCalm, DiscardCalm, DeleteRowCalm, ConfirmCalm
             DEF User
<1>2. CASE EvictInactiveRows \/ CacheExpires
  BY <1>2, EvictCalm, CacheExpiresCalm
<1>3. ASSUME NEW c \in calls, Reply(c) PROVE Calm'
  BY <1>3, LoadReadsCalm, LoadReplyCalm, LoadFailsCalm, CancelCalm, RestoreReplyCalm,
     InsertReplyCalm, UpdateReplyCalm, WriteFailsCalm, SyncReplyCalm, DeleteReplyCalm
     DEF Reply
<1> QED BY <1>1, <1>2, <1>3 DEF Next

\* A tab does not come back, and every step notes the races it meets.
LEMMA ClosedStays == ASSUME TInv, Next PROVE Note /\ (tab'.open => tab.open)
<1>1. tab \in TabType
  BY DEF TInv, Types
<1>2. ASSUME NEW action \in Navigations, RequestNavigationAction(action)
      PROVE  Note /\ (tab'.open => tab.open)
  BY <1>2 DEF RequestNavigationAction, Usable
<1>3. ASSUME LoadTableData \/ CancelLoad \/ MarkSurfaceInactive \/ MarkSurfaceActive \/ EditCell
             \/ Save \/ DiscardCurrentRow \/ DeleteRow \/ CleanupTab
      PROVE  Note /\ (tab'.open => tab.open)
  BY <1>3 DEF LoadTableData, CancelLoad, MarkSurfaceInactive, MarkSurfaceActive, EditCell, Save,
              DiscardCurrentRow, DeleteRow, CleanupTab, OnGrid, Usable
<1>4. ASSUME ConfirmNavigationSave \/ ConfirmNavigationDiscard \/ CancelNavigation
      PROVE  Note /\ (tab'.open => tab.open)
  BY <1>4 DEF ConfirmNavigationSave, ConfirmNavigationDiscard, CancelNavigation
<1>5. ASSUME EvictInactiveRows \/ CacheExpires PROVE Note /\ (tab'.open => tab.open)
  BY <1>1, <1>5 DEF EvictInactiveRows, CacheExpires, TInv, TabInv
<1>6. ASSUME NEW c \in calls, Reply(c) PROVE Note /\ (tab'.open => tab.open)
  <2>1. CASE LoadReads(c) \/ InsertReply(c) \/ UpdateReply(c) \/ DeleteReply(c)
    BY <2>1 DEF LoadReads, InsertReply, UpdateReply, DeleteReply
  <2>2. CASE LoadReply(c) \/ LoadFails(c) \/ CancelReply(c) \/ RestoreReply(c) \/ WriteFails(c)
    BY <2>2 DEF LoadReply, LoadFails, CancelReply, RestoreReply, WriteFails
  <2>3. CASE SyncReply(c)
    BY <2>3, SyncReplyTypes
  <2> QED BY <1>6, <2>1, <2>2, <2>3 DEF Reply
<1> QED BY <1>2, <1>3, <1>4, <1>5, <1>6 DEF Next, User

LEMMA NextIInv == ASSUME IInv, Next PROVE IInv'
<1>1. TInv /\ TInv'
  BY NextTInv DEF IInv
<1>2. ASSUME tab'.open, gaps' = {} PROVE Calm'
  <2>1. Note /\ tab.open
    BY <1>1, <1>2, ClosedStays
  <2>2. gaps = {}
    BY <1>2, <2>1 DEF Note
  <2>3. Held
    BY <1>1, <1>2, <2>1, <2>2 DEF Held, IInv
  <2> QED BY <2>3, NextCalm
<1> QED BY <1>1, <1>2 DEF IInv

LEMMA IInvCopies == ASSUME IInv PROVE CopiesAgree
<1>1. TInv /\ (tab.open /\ gaps = {} => Calm)
  BY DEF IInv
<1>2. TypeOK
  <2>1. tab.residency = "evicted" /\ gaps = {} => page.rows = NoRows /\ ~edit.on
    <3>1. CASE tab.open
      BY <1>1, <3>1 DEF Calm, ScreenInv
    <3>2. CASE ~tab.open
      BY <1>1, <3>2 DEF TInv, TabInv, NoPage, NotEdited
    <3> QED BY <3>1, <3>2
  <2> QED BY <1>1, <2>1 DEF TypeOK, TInv, Types, TabInv, GapNames
<1>3. ASSUME Settled PROVE Usual /\ ScreenInv /\ tab.residency = "resident"
  BY <1>1, <1>3 DEF Settled, Calm, WorkInv
<1>4. ASSUME Settled, page.rows # NoRows PROVE Shown /\ EditOK
  BY <1>3, <1>4 DEF Usual, RowsOK, Blank
<1>5. ShownMatchesTable
  BY <1>4 DEF ShownMatchesTable, Shown, Base, Editing
<1>6. ShownMatchesView
  BY <1>3 DEF ShownMatchesView, Usual
<1>7. CacheMatchesScreen
  <2> SUFFICES ASSUME Settled, cache # NoPage, page.rows # NoRows
               PROVE  /\ cache.of = page.of /\ ~cache.draft
                      /\ cache.rows = IF edit.on /\ edit.row # Draft
                                      THEN [page.rows EXCEPT ![edit.row] = edit.from]
                                      ELSE page.rows
    BY DEF CacheMatchesScreen
  <2>1. cache.rows = db /\ ~cache.draft /\ cache.of = page.of
    BY <1>3 DEF Usual, CacheIs
  <2>2. CASE Editing
    <3>1. /\ edit.row \in Rows /\ page.rows = [db EXCEPT ![edit.row] = edit.to]
          /\ edit.from = db[edit.row] /\ db \in [Rows -> Vals]
      BY <1>1, <1>4, <2>2, EditShown
    <3>2. [page.rows EXCEPT ![edit.row] = edit.from] = db
      BY <3>1
    <3> QED BY <2>1, <2>2, <3>2 DEF Editing
  <2>3. CASE ~Editing
    <3>1. page.rows = db
      BY <1>1, <1>4, <2>3, EditShown
    <3> QED BY <2>1, <2>3, <3>1 DEF Editing
  <2> QED BY <2>2, <2>3
<1> QED BY <1>2, <1>5, <1>6, <1>7 DEF CopiesAgree

\* CopiesAgree, at any number of rows, values, views and calls: outside the
\* races named, what table-data-store.ts shows of a row, what is in the table
\* and what the backend has cached of it agree once the calls have ended.
THEOREM CopiesAlwaysAgree == Spec => []CopiesAgree
<1>1. Init => IInv
  BY InitIInv
<1>2. IInv /\ [Next]_vars => IInv'
  BY NextIInv, StutterIInv
<1>3. IInv => CopiesAgree
  BY IInvCopies
<1> QED BY <1>1, <1>2, <1>3, PTL DEF Spec

=============================================================================
