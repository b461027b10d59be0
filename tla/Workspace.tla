----------------------------- MODULE Workspace -----------------------------
(***************************************************************************)
(* The workspace: the tabs of each connection, which one is active, which  *)
(* connection is visible, what each query tab's bottom panel shows, and    *)
(* with that which rows (of a query's result or of a table) are on screen: *)
(* all others may be evicted, and are restored when they are shown again.  *)
(*                                                                         *)
(* The handlers run to their end between two events, calling one another,  *)
(* so they are operators from a workspace to a workspace. A query tab has  *)
(* one result. A designer or object editor is an "object" tab, the pinned  *)
(* history and process-list tabs are tab 0, and the backend's part of a    *)
(* restore is TableData's and QueryTab's.                                  *)
(***************************************************************************)
EXTENDS Integers, FiniteSets, SequencesExt, TLC

CONSTANTS Conns,    \* connection sessions
          Names,    \* tables and objects of each
          NoConn,   \* no connection, no name
          MaxTabs,  \* bound on the tabs ever opened
          Limit     \* results.maxTabsPerGroup, 0 for none

ASSUME WorkspaceAssumption == {MaxTabs, Limit} \subseteq Nat /\ NoConn \notin Conns \cup Names

VARIABLES w,      \* the stores: see Workspaces
          panel,  \* results.tableTabsInBottomPanel
          stray   \* ghost: the marks are wrong since a case named at Gap

workVars == <<w, panel, stray>>

None == 0
Tabs == 1 .. MaxTabs
Infos  == [type : {"none", "query", "table", "object"}, name : Names \cup {NoConn}, parent : 0 .. MaxTabs]
NoTab  == [type |-> "none", name |-> NoConn, parent |-> None]
NoCascade == [query |-> None, children |-> <<>>]

Workspaces ==
  [attached : SUBSET Conns,                    \* the open connections
   tabs     : [Conns -> Seq(Tabs)],            \* tabsByConnection
   active   : [Conns -> 0 .. MaxTabs],         \* activeTabByConnection
   visible  : Conns \cup {NoConn},             \* visibleConnectionSessionId
   info     : [Tabs -> Infos],
   used     : Seq(Tabs),                       \* tables and objects by tabLastUsedAt
   bottom   : [Tabs -> 0 .. MaxTabs],          \* activeBottomPanelItem, None for the result
   loaded   : SUBSET Tabs,                     \* tabs that have rows,
   marked   : SUBSET Tabs,                     \* of those, isActive,
   evicted  : SUBSET Tabs,                     \* or evicted
   dirty    : SUBSET Tabs,                     \* unsaved changes
   asking   : 0 .. MaxTabs,                    \* pendingClose, with its dialog
   cascade  : [query : 0 .. MaxTabs, children : Seq(Tabs)],   \* pendingCascadeClose
   next     : 1 .. MaxTabs + 1]

Open(v)  == UNION {ToSet(v.tabs[c]) : c \in Conns}
ConnOf(v, t) == CHOOSE c \in Conns : t \in ToSet(v.tabs[c])

(* The members of S in a sequence, in its order.                           *)
Only(s, S) ==
  LET f[i \in 0 .. Len(s)] ==
        IF i = 0 THEN <<>> ELSE IF s[i] \in S THEN Append(f[i - 1], s[i]) ELSE f[i - 1]
  IN  f[Len(s)]

Children(v, c, q) == Only(v.tabs[c], {t \in Tabs : v.info[t].parent = q})
Type(v, t) == IF t = None THEN "none" ELSE v.info[t].type

(* Every active tab is open and no scoped child, and only rows that are    *)
(* there are marked, evicted or edited.                                    *)
WorkTypeOK ==
  /\ w \in Workspaces /\ panel \in BOOLEAN /\ stray \in BOOLEAN
  /\ \A c \in Conns : w.active[c] # None =>
       w.active[c] \in ToSet(w.tabs[c]) /\ w.info[w.active[c]].parent = None
  /\ w.marked \cup w.evicted \subseteq w.loaded
  /\ w.marked \cap w.evicted = {} /\ w.dirty \cap w.evicted = {}
  /\ w.loaded \cup w.dirty \cup ({w.asking} \ {None}) \subseteq Open(w)
  /\ w.visible # NoConn => w.visible \in w.attached

-----------------------------------------------------------------------------
(* Which rows are on screen. *)

(* The rows a tab shows when it is active: a table's own, or what is in a  *)
(* query's bottom panel.                                                   *)
SurfaceOf(v, t) ==
  CASE Type(v, t) = "table" -> t
    [] Type(v, t) = "query" -> IF v.bottom[t] = None THEN t ELSE v.bottom[t]
    [] OTHER -> None

Screen(v) == IF v.visible = NoConn THEN None ELSE SurfaceOf(v, v.active[v.visible])

Hide(v, s) == [v EXCEPT !.marked = @ \ {s}]

Show(v, s) == IF s \notin v.loaded THEN v ELSE [v EXCEPT !.marked = @ \cup {s}, !.evicted = @ \ {s}]

FinalizeAnywhere(v, c, previous, t) == Show(Hide(v, previous), SurfaceOf(v, t))

(* A background connection's tab changes touch no rows. *)
Finalize(v, c, previous, t) ==
  IF v.visible # c THEN v ELSE Show(Hide(v, previous), SurfaceOf(v, t))

Without(s, t) == Only(s, Tabs \ {t})

Activate(v, c, t) ==
  Finalize([v EXCEPT !.active[c] = t,
                     !.used = IF Type(v, t) = "query" THEN @ ELSE Append(Without(@, t), t)],
           c, SurfaceOf(v, v.active[c]), t)

(* For each query tab of qs. *)
SetBottoms(v, qs, item) ==
  LET u == [v EXCEPT !.bottom = [q \in Tabs |-> IF q \in qs THEN item ELSE @[q]]]
  IN  IF v.visible # NoConn /\ v.active[v.visible] \in qs THEN Show(Hide(u, Screen(v)), Screen(u)) ELSE u

SetBottom(v, q, item) == SetBottoms(v, {q}, item)

SetVisible(v, c) ==
  LET u == [Hide(v, Screen(v)) EXCEPT !.visible = c]
  IN  IF c = v.visible THEN v ELSE Show(u, Screen(u))

-----------------------------------------------------------------------------
(* Closing. *)

Stack(v, t) == IF panel /\ v.info[t].parent # None THEN "none" ELSE v.info[t].type

(* The tab that follows the closed one: the next of its stack, else the    *)
(* one before, else its neighbour.                                         *)
NextActive(v, rest, t, i) ==
  LET same   == {j \in DOMAIN rest : Stack(v, t) # "none" /\ Stack(v, rest[j]) = Stack(v, t)}
      after  == {j \in same : j >= i}
  IN  CASE rest = <<>> -> None
        [] rest # <<>> /\ after # {} -> rest[Min(after)]
        [] rest # <<>> /\ after = {} /\ same # {} -> rest[Max(same)]
        [] OTHER -> rest[Min({i, Len(rest)})]

NormalKeepsChild(v, t) == t

(* A scoped child is active only as its query tab's. *)
Normal(v, t) == IF t # None /\ v.info[t].parent \in Open(v) THEN v.info[t].parent ELSE t

(* What the tab's own stores forget. *)
Forget(v, ts) ==
  [v EXCEPT !.info = [t \in Tabs |-> IF t \in ts THEN NoTab ELSE @[t]],
            !.bottom = [t \in Tabs |-> IF t \in ts THEN None ELSE @[t]],
            !.used = Only(@, Tabs \ ts),
            !.loaded = @ \ ts, !.marked = @ \ ts, !.evicted = @ \ ts,
            !.dirty = @ \ ts, !.asking = IF @ \in ts THEN None ELSE @]

(* The tab is gone and, had it been active, the next one is on screen. *)
Closed(v, c, t, previous) ==
  LET i    == CHOOSE j \in DOMAIN v.tabs[c] : v.tabs[c][j] = t
      rest == Without(v.tabs[c], t)
      next == IF v.active[c] = t
              THEN Normal([v EXCEPT !.tabs[c] = rest], NextActive(v, rest, t, i)) ELSE v.active[c]
      u    == [Forget(v, {t}) EXCEPT !.tabs[c] = rest, !.active[c] = next,
                                     !.cascade = IF @.query = t THEN NoCascade ELSE @]
  IN  IF v.active[c] = t THEN Finalize(u, c, previous, next) ELSE u

(* forceCloseTab reads the surface after the query store forgot the tab. *)
ForceClose(v, c, t) ==
  IF t \notin ToSet(v.tabs[c]) THEN v
  ELSE Closed(v, c, t, IF Type(v, t) = "table" THEN t ELSE None)

(* One after the other.                                                    *)
CloseAll(v, c, ts) ==
  LET f[i \in 0 .. Len(ts)] == IF i = 0 THEN v ELSE ForceClose(f[i - 1], c, ts[i])
  IN  f[Len(ts)]

(* A connection's tabs, the least recently used first.                     *)
ByAge(v, c) == Only(v.tabs[c], Tabs \ ToSet(v.used)) \o Only(v.used, ToSet(v.tabs[c]))

Group(v, c, t) == {x \in ToSet(v.tabs[c]) : Type(v, x) = Type(v, t) /\ v.info[x].parent = None}

OverflowTakesDirty(v, c, t) ==
  LET over == Max({Cardinality(Group(v, c, t)) - Limit, 0})
      old  == Only(ByAge(v, c), Group(v, c, t) \ {t})
  IN  IF Type(v, t) = "query" \/ v.info[t].parent # None THEN <<>>
      ELSE SubSeq(old, 1, Min({over, Len(old)}))

OverflowOffByOne(v, c, t) ==
  LET over == Max({Cardinality(Group(v, c, t)) - Limit - 1, 0})
      old  == Only(ByAge(v, c), Group(v, c, t) \ ({t} \cup v.dirty))
  IN  IF Type(v, t) = "query" \/ v.info[t].parent # None THEN <<>>
      ELSE SubSeq(old, 1, Min({over, Len(old)}))

(* The group of tab t, the least recently used first, over the limit:      *)
(* dirty tabs are never closed, and query tabs and scoped tables not       *)
(* limited.                                                                *)
Overflow(v, c, t) ==
  LET limited == Type(v, t) \in {"table", "object"} /\ v.info[t].parent = None
      over == Max({Cardinality(Group(v, c, t)) - Limit, 0})
      old  == Only(ByAge(v, c), Group(v, c, t) \ ({t} \cup v.dirty))
  IN  IF ~limited \/ Limit = 0 THEN <<>> ELSE SubSeq(old, 1, Min({over, Len(old)}))

EnforceLimit(v, c, t) == CloseAll(v, c, Overflow(v, c, t))

(* The marks go wrong in three ways. A run that ends while the bottom      *)
(* panel shows a table puts its result there and leaves the table marked   *)
(* (unmarked). The setting turned off leaves the bottom panels as they     *)
(* were (dangling): the panel that would reset them is not drawn. And it   *)
(* can put a table's other tab in place of the active one (merged).        *)
Wrong(v) == v.marked # {Screen(v)} \cap v.loaded

Dangling(v) == \E q \in Tabs : v.bottom[q] # None

Merged == panel /\ ~panel' /\ Open(w) # Open(w')

Gap(unmarked) == unmarked \/ (~panel /\ Dangling(w)) \/ (~panel' /\ Dangling(w')) \/ Merged

Note(unmarked) == stray' = (Wrong(w') /\ (stray \/ Gap(unmarked)))

-----------------------------------------------------------------------------
(* The user, who sees one connection, opens tabs and moves between them. A *)
(* dialog is modal.                                                        *)

Free == w.asking = None /\ w.cascade = NoCascade

Live(c) == c \in w.attached

(* A bottom panel (hidden tabs stay mounted) drawn with an item that is    *)
(* gone, which its effect resets before the user's next gesture.           *)
Stale(q) ==
  /\ panel /\ Type(w, q) = "query" /\ w.bottom[q] # None
  /\ (Type(w, w.bottom[q]) # "table" \/ w.info[w.bottom[q]].parent # q)

Settled == \A q \in Tabs : ~Stale(q)

At(c) == Free /\ Settled /\ Live(c) /\ c = w.visible

WorkInit ==
  /\ w = [attached |-> {}, tabs |-> [c \in Conns |-> <<>>],
          active |-> [c \in Conns |-> None], visible |-> NoConn,
          info |-> [t \in Tabs |-> NoTab], used |-> <<>>, bottom |-> [t \in Tabs |-> None],
          loaded |-> {}, marked |-> {}, evicted |-> {}, dirty |-> {},
          asking |-> None, cascade |-> NoCascade, next |-> 1]
  /\ panel \in BOOLEAN /\ stray = FALSE

Become(v) == w' = v /\ UNCHANGED panel /\ Note(FALSE)

Add(v, c, type, name, parent) ==
  [v EXCEPT !.tabs[c] = Append(@, v.next), !.next = @ + 1,
            !.info[v.next] = [type |-> type, name |-> name, parent |-> parent]]

AddQuery(v, c) == Activate(Add(v, c, "query", NoConn, None), c, v.next)

OpenQueryTab(c) == At(c) /\ w.next \in Tabs /\ Become(AddQuery(w, c))

(* Where openTab puts a table: under the active query tab, or a new one. *)
OpensQuery(c, type) == type = "table" /\ panel /\ Type(w, w.active[c]) # "query"

Parent(v, c, type) == IF type = "table" /\ panel THEN v.active[c] ELSE None

Existing(c, type, name, parent) ==
  {t \in ToSet(w.tabs[c]) : w.info[t] = [type |-> type, name |-> name, parent |-> parent]}

ShowIn(v, p, t) == IF p = None THEN v ELSE SetBottom(v, p, t)

OpenTab(c, type, name) ==
  /\ At(c) /\ (OpensQuery(c, type) => w.next \in Tabs)
  /\ LET v == IF OpensQuery(c, type) THEN AddQuery(w, c) ELSE w
         p == Parent(v, c, type)
         old == Existing(c, type, name, p)
         new == Activate(Add(v, c, type, name, p), c, IF p = None THEN v.next ELSE p)
     IN  \/ /\ old # {}
            /\ \E t \in old : Become(ShowIn(Activate(v, c, IF p = None THEN t ELSE p), p, t))
         \/ /\ old = {} /\ v.next \in Tabs
            /\ Become(ShowIn(EnforceLimit(new, c, v.next), p, v.next))

(* A tab that asks about unsaved changes blocks its connection's tabs. *)
RequestActivateTab(c, t) ==
  /\ Settled /\ w.cascade = NoCascade
  /\ c = w.visible /\ t \in ToSet(w.tabs[c]) /\ w.info[t].parent = None
  /\ (w.active[c] # w.asking \/ w.asking = None)
  /\ Become(Activate(w, c, t))

SelectBottom(c, t) ==
  /\ At(c) /\ panel /\ Type(w, w.active[c]) = "query"
  /\ t \in ToSet(Children(w, c, w.active[c])) \cup {None}
  /\ Become(SetBottom(w, w.active[c], t))

ResetBottom(q) == Stale(q) /\ Become(SetBottom(w, q, None))

(* reorderWorkspaceTab moves tab t before what is now the tab after place  *)
(* i of 0 .. Len; in panel mode a query tab moves with its scoped tables.  *)
Place(s, t) == CHOOSE j \in DOMAIN s : s[j] = t

Heads(v, c) == Only(v.tabs[c], {t \in Tabs : v.info[t].parent = None})

MoveTo(s, t, i) == InsertAt(Without(s, t), IF i > Place(s, t) - 1 THEN i ELSE i + 1, t)

GroupsBefore(v, c, i) ==
  {IF v.info[v.tabs[c][j]].parent = None THEN v.tabs[c][j] ELSE v.info[v.tabs[c][j]].parent : j \in 1 .. i}

ReorderedAlone(v, c, t, i) ==
  IF panel /\ Type(v, t) = "query"
  THEN MoveTo(Heads(v, c), t, Cardinality(GroupsBefore(v, c, i)))
  ELSE MoveTo(v.tabs[c], t, i)

Reordered(v, c, t, i) ==
  IF panel /\ Type(v, t) = "query"
  THEN LET heads == MoveTo(Heads(v, c), t, Cardinality(GroupsBefore(v, c, i)))
       IN  FlattenSeq([j \in DOMAIN heads |->
             <<heads[j]>> \o IF Type(v, heads[j]) = "query" THEN Children(v, c, heads[j]) ELSE <<>>])
  ELSE MoveTo(v.tabs[c], t, i)

-----------------------------------------------------------------------------
(* The user closes tabs. *)

(* A query tab takes its scoped tables with it.                            *)
CloseTab(c, t) ==
  /\ At(c) /\ t \in ToSet(w.tabs[c])
  /\ LET kids == IF Type(w, t) = "query" THEN Children(w, c, t) ELSE <<>>
         dirty == ({t} \cup ToSet(kids)) \cap w.dirty # {}
     IN  \/ dirty /\ kids = <<>> /\ Become([w EXCEPT !.asking = t])
         \/ dirty /\ kids # <<>> /\ Become([w EXCEPT !.cascade = [query |-> t, children |-> kids]])
         \/ ~dirty /\ kids # <<>> /\ Become(CloseAll(w, c, Append(kids, t)))
         \/ ~dirty /\ kids = <<>> /\ Become(Closed(w, c, t, SurfaceOf(w, t)))

(* Saved or discarded, the tab is closed at last. *)
ConfirmClose(t) ==
  /\ t = w.asking
  /\ Become(ForceClose(w, ConnOf(w, t), t))

CancelClose(t) == t = w.asking /\ Become([w EXCEPT !.asking = None])

CascadeClosesQueryOnly ==
  /\ w.cascade # NoCascade
  /\ LET q == w.cascade.query
         v == [w EXCEPT !.cascade = NoCascade]
     IN  Become(IF q \in Open(w) THEN ForceClose(v, ConnOf(w, q), q) ELSE v)

ConfirmCascade ==
  /\ w.cascade # NoCascade
  /\ LET q == w.cascade.query
         v == [w EXCEPT !.cascade = NoCascade]
     IN  Become(IF q \in Open(w) THEN CloseAll(v, ConnOf(w, q), Append(w.cascade.children, q)) ELSE v)

CancelCascade == w.cascade # NoCascade /\ Become([w EXCEPT !.cascade = NoCascade])

-----------------------------------------------------------------------------
(* Objects dropped and renamed, the setting, and connections. *)

(* closeTabsByObject, closeTabsByDatabase. *)
Removed(v, c, gone) ==
  LET parents == {q \in Tabs : v.bottom[q] \in gone /\ v.info[v.bottom[q]].parent = q}
      u    == SetBottoms(v, parents, None)
      rest == Only(v.tabs[c], Tabs \ gone)
      a    == v.active[c]
      next == IF a \in gone
              THEN Normal([v EXCEPT !.tabs[c] = rest],
                          NextActive(v, rest, a, CHOOSE i \in DOMAIN v.tabs[c] : v.tabs[c][i] = a))
              ELSE a
      x    == [Forget(u, gone) EXCEPT !.tabs[c] = rest, !.active[c] = next]
  IN  IF next # a \/ SurfaceOf(v, a) # SurfaceOf(x, next)
      THEN Finalize(x, c, SurfaceOf(v, a), next) ELSE x

DropObject(c, n) ==
  /\ Live(c)
  /\ Become(Removed(w, c, {t \in ToSet(w.tabs[c]) : w.info[t].name = n}))

(* The server refuses a name that is taken: updateTabObject itself does    *)
(* not look. A table dropped by another program, whose tab is still open    *)
(* when its name is given away, is not modelled.                            *)
RenameObject(c, n, m) ==
  /\ Live(c) /\ \A t \in ToSet(w.tabs[c]) : w.info[t].name # m
  /\ Become([w EXCEPT !.info = [t \in Tabs |-> IF t \in ToSet(w.tabs[c]) /\ @[t].name = n
                                               THEN [@[t] EXCEPT !.name = m] ELSE @[t]]])

FirstOfKeepsBoth(v, c, t) == t

(* normalizeTableDataTabScopes: the scoped tables become tabs of their     *)
(* own, the second tab of a table is removed, and the table on screen      *)
(* becomes the active tab. No surface is marked.                           *)
FirstOf(v, c, t) ==
  LET same == {i \in DOMAIN v.tabs[c] : Type(v, v.tabs[c][i]) = "table"
                                        /\ v.info[v.tabs[c][i]].name = v.info[t].name}
  IN  IF Type(v, t) = "table" THEN v.tabs[c][Min(same)] ELSE t

OnTop(v, t) == IF Type(v, t) = "query" /\ Type(v, v.bottom[t]) = "table"
                  /\ v.info[v.bottom[t]].parent = t THEN v.bottom[t] ELSE t

Unscoped(v) ==
  LET doubles == {t \in Open(v) : FirstOf(v, ConnOf(v, t), t) # t}
      u == [v EXCEPT !.active = [c \in Conns |-> IF @[c] = None THEN None
                                                 ELSE FirstOf(v, c, OnTop(v, @[c]))],
                     !.tabs = [c \in Conns |-> Only(@[c], Tabs \ doubles)],
                     !.info = [t \in Tabs |-> [@[t] EXCEPT !.parent = None]]]
      children == {t \in Open(v) : v.info[t].parent # None}
  IN  IF children = {} THEN v ELSE Forget(u, doubles)

ToggleSetting ==
  /\ Free /\ Settled
  /\ panel' = ~panel
  /\ w' = IF panel THEN Unscoped(w) ELSE w
  /\ Note(FALSE)

(* openConnection with its query tab, or attachExisting. *)
OpenConnection(c) ==
  /\ Free /\ ~Live(c)
  /\ LET v == SetVisible([w EXCEPT !.attached = @ \cup {c}], c)
     IN  \/ Become(v)
         \/ w.next \in Tabs /\ Become(AddQuery(v, c))

SwitchConnection(c) == Free /\ Settled /\ Live(c) /\ c # w.visible /\ Become(SetVisible(w, c))

(* closeConnection, after it saved the edited rows, asked about the object *)
(* editors and waited for the backend: another connection is shown before  *)
(* the tabs go.                                                            *)
CloseWorkspace(c) ==
  /\ Live(c)
  /\ LET others == w.attached \ {c}
         v == IF w.visible # c THEN w
              ELSE SetVisible(w, IF others = {} THEN NoConn ELSE CHOOSE d \in others : TRUE)
     IN  Become([Forget(v, ToSet(w.tabs[c])) EXCEPT
                   !.tabs[c] = <<>>, !.active[c] = None, !.attached = @ \ {c}])

-----------------------------------------------------------------------------
(* Rows come and go. *)

(* A table's rows arrive. *)
Load(t) ==
  /\ Type(w, t) = "table" /\ t \notin w.evicted
  /\ Become([w EXCEPT !.loaded = @ \cup {t},
                      !.marked = IF Screen(w) = t THEN @ \cup {t} ELSE @ \ {t}])

(* A run ends: its result is in the bottom panel, and active if the query  *)
(* tab is on screen. A run that fails has no rows to keep.                 *)
EndRun(q, rows) ==
  /\ Type(w, q) = "query"
  /\ w' = [w EXCEPT !.bottom[q] = None, !.evicted = @ \ {q}, !.dirty = @ \ {q},
                    !.loaded = IF rows THEN @ \cup {q} ELSE @ \ {q},
                    !.marked = IF rows /\ w.visible = ConnOf(w, q) /\ w.active[w.visible] = q
                               THEN @ \cup {q} ELSE @ \ {q}]
  /\ UNCHANGED panel
  /\ Note(w.bottom[q] \in w.marked)

Edit(t) ==
  /\ Free /\ w.visible # NoConn
  /\ \/ t = Screen(w) /\ t \in w.loaded \ w.evicted
     \/ t = w.active[w.visible] /\ Type(w, t) = "object"
  /\ Become([w EXCEPT !.dirty = @ \cup {t}])

Save(t) == t \in w.dirty /\ Become([w EXCEPT !.dirty = @ \ {t}])

(* The inactive timer. *)
Evict(t) ==
  /\ t \in w.loaded \ (w.marked \cup w.evicted \cup w.dirty)
  /\ Become([w EXCEPT !.evicted = @ \cup {t}])

-----------------------------------------------------------------------------
WorkNext ==
  \/ \E c \in Conns :
       \/ OpenQueryTab(c) \/ OpenConnection(c) \/ SwitchConnection(c)
       \/ CloseWorkspace(c)
       \/ \E n \in Names : \/ DropObject(c, n)
                           \/ \E type \in {"table", "object"} : OpenTab(c, type, n)
                           \/ \E m \in Names \ {n} : RenameObject(c, n, m)
       \/ \E t \in Tabs : RequestActivateTab(c, t) \/ CloseTab(c, t)
       \/ \E t \in 0 .. MaxTabs : SelectBottom(c, t)
  \/ \E t \in Tabs :
       \/ ConfirmClose(t) \/ CancelClose(t) \/ ResetBottom(t)
       \/ Load(t) \/ Edit(t) \/ Save(t) \/ Evict(t)
       \/ \E rows \in BOOLEAN : EndRun(t, rows)
  \/ ConfirmCascade \/ CancelCascade \/ ToggleSetting

Symm == Permutations(Conns) \cup Permutations(Names)

WorkSpec == WorkInit /\ [][WorkNext]_workVars

-----------------------------------------------------------------------------
(* The rows on screen, and no others, are marked active: they are never    *)
(* evicted, and all others can be. It holds through every activation,      *)
(* close, drop and switch of connections (finalizeWorkspaceActivation,     *)
(* setActiveBottomPanelItem), the three ways of Gap aside, until an        *)
(* activation puts the marks right again.                                  *)
ScreenIsActive == Wrong(w) => stray

(* A table opened under a query tab never outlives it, nor moves to        *)
(* another connection: closing the query tab closes its scoped tables      *)
(* first, also after it asked about them (closeTab's cascade).             *)
NoOrphans ==
  \A c \in Conns : \A t \in ToSet(w.tabs[c]) : w.info[t].parent # None =>
    w.info[t].parent \in ToSet(w.tabs[c]) /\ Type(w, w.info[t].parent) = "query"

(* A connection has one tab of each table (and query tab it is under) and  *)
(* object, through renames and the change of the setting (openTab's        *)
(* search for an existing tab, normalizeScopedTableDataTabs).              *)
TabsOnce ==
  \A c \in Conns : \A i, j \in DOMAIN w.tabs[c] :
    i # j /\ w.info[w.tabs[c][i]] = w.info[w.tabs[c][j]] => Type(w, w.tabs[c][i]) = "query"

(* A tab lands where it was dropped and the others keep their order, with  *)
(* groups and without (reorderWorkspaceTab), from every layout reached.    *)
ReorderLands ==
  \A c \in Conns : \A t \in ToSet(Heads(w, c)), i \in 0 .. Len(w.tabs[c]) :
    LET r == Reordered(w, c, t, i)
        before(s, x, y) == Place(s, x) < Place(s, y)
        others == ToSet(Heads(w, c)) \ {t}
    IN  /\ Len(r) = Len(w.tabs[c]) /\ ToSet(r) = ToSet(w.tabs[c])
        /\ \A x \in others : before(r, x, t) <=> Place(w.tabs[c], x) <= i
        /\ \A x, y \in others : before(r, x, y) <=> before(w.tabs[c], x, y)

(* The tabs stay in order: none lost, doubled, orphaned or misplaced.       *)
TabsInv == WorkTypeOK /\ NoOrphans /\ TabsOnce /\ ReorderLands

(* Unsaved changes are lost by a dialog's answer only, by a drop of the    *)
(* object, or by closing the connection: never by the limit on tabs, or by *)
(* the close of another tab (README: tabs with unsaved changes are never   *)
(* closed automatically). Merging the tabs of a table is the exception.    *)
DirtyLeavesOnPurpose ==
  [][\A t \in w.dirty : t \in Open(w')
       \/ t = w.asking \/ t = w.cascade.query \/ t \in ToSet(w.cascade.children)
       \/ CloseWorkspace(ConnOf(w, t)) \/ Merged
       \/ \E c \in Conns, n \in Names : DropObject(c, n)]_workVars

(* A new tab's group fits results.maxTabsPerGroup, unless all its other    *)
(* tabs have unsaved changes.                                              *)
LimitHolds ==
  [][\A c \in Conns : \A t \in ToSet(w'.tabs[c]) \ Open(w) :
       LET group == {x \in ToSet(w'.tabs[c]) : w'.info[x].type = w'.info[t].type
                                              /\ w'.info[x].parent = None}
       IN  Type(w', t) # "query" /\ w'.info[t].parent = None /\ Limit # 0 =>
             Cardinality(group) <= Limit \/ group \ {t} \subseteq w'.dirty]_workVars

(* A tab opened over the limit closes older ones, but never a dirty one.    *)
LimitSparesDirty == DirtyLeavesOnPurpose /\ LimitHolds

(* Only what is visible is active, a run's end included.                   *)
OnlyVisibleIsActive == w.marked \subseteq {Screen(w)}

=============================================================================
