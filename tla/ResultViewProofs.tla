--------------------------- MODULE ResultViewProofs ---------------------------
(***************************************************************************)
(* Proofs about ResultView, for any number of handlers, rows, filters and  *)
(* view requests: the type invariant, that the slot behaves as an atomic   *)
(* register although every change is prepared outside the lock, that only  *)
(* deleted rows leave the result, that the rows on screen belong to the    *)
(* painted version, and that the grid converges to the backend's view.     *)
(*                                                                         *)
(* The first inductive invariant has a part for the slot and its history,  *)
(* one for what a handler may hold, and one for what the grid has kept.    *)
(* What a change prepared is right as long as the version did not move,    *)
(* and a reply carries the view of the version it names.                   *)
(*                                                                         *)
(* The second, for convergence, names who will paint the current version,  *)
(* who made it, and what a request that is not the latest may still do.    *)
(***************************************************************************)
EXTENDS ResultView, TLAPS

Gaps == {"unanswered", "overtaken", "mislabelled", "reordered"}

\* v is a version of the slot and rows are those it shows.
ViewOf(v, rows) == v \in 1 .. slot.version /\ rows = committed[v].view

SlotInv ==
    /\ slot \in [version : Versions, spec : Specs, tombstones : SUBSET Rows,
                 view : SUBSET Rows]
    /\ slot.view = Selected(slot.spec) \ slot.tombstones
    /\ slot.tombstones \subseteq deleted
    /\ deleted \subseteq Rows
    /\ committed \in Seq([spec : Specs, view : SUBSET Rows])
    /\ Len(committed) = slot.version
    /\ committed[slot.version].view = slot.view

\* What a handler holds: the rows it removes were deleted, a prepared change fits the
\* version it was made for, a reply names a version and its view.
Targets(k) ==
    k.call = "remove" /\ k.pc \in {"sent", "checked", "answered"} =>
        k.rows # {} /\ k.rows \subseteq deleted

Snapshot(k) ==
    k.pc = "checked" =>
        /\ k.call \in {"view", "remove"}
        /\ k.base <= slot.version
        /\ k.base = slot.version =>
              IF k.call = "view" THEN k.view = Selected(k.spec) \ slot.tombstones
              ELSE /\ k.tombstones = slot.tombstones \cup k.rows
                   /\ k.view = slot.view \ k.tombstones

Carries(k) == k.pc = "answered" /\ k.reply = "ok" => ViewOf(k.version, k.view)

HandlerInv(k) == k \in Task /\ Targets(k) /\ Snapshot(k) /\ Carries(k)

TaskInv == task \in [Tasks -> Task] /\ \A t \in Tasks : HandlerInv(task[t])

SurfaceInv ==
    /\ surface \in [version : Versions, spec : Specs, page : {None} \cup SUBSET Rows,
                    live : SUBSET Rows, generation : Nat]
    /\ surface.version <= slot.version
    /\ surface.page # None => surface.page = committed[surface.version].view

RequestInv ==
    /\ request \in [seq : 0 .. MaxRequests, known : Versions, spec : Specs,
                    retry : {None} \cup Specs, success : {None} \cup Success,
                    error : BOOLEAN, outdated : BOOLEAN]
    /\ request.success # None =>
          request.success \in Success /\ ViewOf(request.success.version, request.success.view)

IInv == SlotInv /\ TaskInv /\ SurfaceInv /\ RequestInv /\ raced \subseteq Gaps

----------
(* Records and specs. *)

LEMMA HistoryType ==
  ASSUME SlotInv, NEW v \in 1 .. slot.version
  PROVE  /\ committed[v] \in [spec : Specs, view : SUBSET Rows]
         /\ committed[v].view \in SUBSET Rows
<1> DEFINE Entries == [spec : Specs, view : SUBSET Rows]
<1>1. v \in 1 .. Len(committed) /\ committed \in Seq(Entries)
  BY DEF SlotInv
<1>2. committed[v] \in Entries
  <2> HIDE DEF Entries
  <2>1. QED BY <1>1
<1>3. QED BY <1>2

LEMMA SelectedType == ASSUME NEW s \in Specs PROVE Selected(s) \in SUBSET Rows
BY MatchingAssumption DEF Specs, Selected

LEMMA IdleType == ASSUME SlotInv PROVE Idle \in Task
<1>1. Plain \in Specs
  BY DEF Plain, SlotInv
<1>2. QED BY <1>1 DEF Idle, Task, Labels, Calls, Replies

LEMMA IdleInv == ASSUME SlotInv PROVE HandlerInv(Idle)'
<1>1. Idle \in Task
  BY IdleType
<1>2. Idle.pc = "idle"
  BY DEF Idle
<1>3. QED BY <1>1, <1>2 DEF HandlerInv, Targets, Snapshot, Carries

(* One handler moves on; the slot keeps its value. *)

LEMMA HandlerStep ==
  ASSUME TaskInv, NEW t \in Tasks, NEW k, task' = [task EXCEPT ![t] = k],
         HandlerInv(k)', UNCHANGED <<slot, committed>>, deleted \subseteq deleted'
  PROVE  TaskInv'
<1>1. k \in Task
  BY DEF HandlerInv
<1>2. task' \in [Tasks -> Task]
  BY <1>1 DEF TaskInv
<1>3. ASSUME NEW u \in Tasks PROVE HandlerInv(task[u])' 
  <2>1. CASE u = t
    <3>1. task'[u] = k
      BY <2>1 DEF TaskInv
    <3>2. QED BY <3>1 DEF HandlerInv, Targets, Snapshot, Carries, ViewOf
  <2>2. CASE u # t
    <3>1. task'[u] = task[u]
      BY <2>2 DEF TaskInv
    <3>2. HandlerInv(task[u])
      BY DEF TaskInv
    <3>3. QED BY <3>1, <3>2 DEF HandlerInv, Targets, Snapshot, Carries, ViewOf
  <2>3. QED BY <2>1, <2>2
<1>4. QED BY <1>2, <1>3 DEF TaskInv

LEMMA FinishStep ==
  ASSUME SlotInv, TaskInv, NEW t \in Tasks, Finish(t),
         UNCHANGED <<slot, committed>>, deleted \subseteq deleted'
  PROVE  TaskInv'
BY IdleInv, HandlerStep DEF Finish

\* Sending needs rows that were deleted if it is a removal.
LEMMA SendStep ==
  ASSUME SlotInv, TaskInv, NEW t \in Tasks, NEW c \in Calls, NEW base \in Nat,
         NEW locals \in Task, Send(t, c, base, locals),
         c = "remove" => locals.rows # {} /\ locals.rows \subseteq deleted',
         UNCHANGED <<slot, committed>>, deleted \subseteq deleted'
  PROVE  TaskInv'
<1> DEFINE k == [locals EXCEPT !.pc = "sent", !.call = c, !.base = base, !.reply = "none",
                               !.version = 0, !.view = {}, !.tombstones = {}]
<1>1. k \in Task /\ k.pc = "sent" /\ k.call = c /\ k.rows = locals.rows
  BY DEF Task, Labels, Replies
<1>2. task' = [task EXCEPT ![t] = k]
  BY DEF Send
<1>3. HandlerInv(k)'
  BY <1>1 DEF HandlerInv, Targets, Snapshot, Carries
<1> HIDE DEF k
<1>4. QED BY <1>2, <1>3, HandlerStep

\* An answer other than "ok" carries nothing; an "ok" names a version and its view.
LEMMA AnswerStep ==
  ASSUME SlotInv, TaskInv, NEW t \in Tasks, NEW reply \in Replies, NEW v \in Nat,
         NEW view \in SUBSET Rows, NEW tombstones \in SUBSET Rows,
         Answer(t, reply, v, view, tombstones), reply = "ok" => ViewOf(v, view),
         task[t].pc = "sent" \/ task[t].pc = "checked",
         UNCHANGED <<slot, committed, deleted>>
  PROVE  TaskInv'
<1>1. task[t] \in Task /\ HandlerInv(task[t])
  BY DEF TaskInv
<1>2. PICK k : k = [task[t] EXCEPT !.pc = "answered", !.reply = reply, !.version = v,
                                   !.view = view, !.tombstones = tombstones]
  OBVIOUS
<1>3. /\ k \in Task /\ k.pc = "answered" /\ k.reply = reply /\ k.version = v
      /\ k.view = view /\ k.rows = task[t].rows /\ k.call = task[t].call
  BY <1>1, <1>2 DEF Task, Labels
<1>4. task' = [task EXCEPT ![t] = k]
  BY <1>2 DEF Answer, TaskInv
<1>5. HandlerInv(k)'
  BY <1>1, <1>3 DEF HandlerInv, Targets, Snapshot, Carries, ViewOf
<1>6. QED BY <1>4, <1>5, HandlerStep

\* What is painted is a version with its rows, or no rows yet.
LEMMA PaintStep ==
  ASSUME SlotInv, SurfaceInv, NEW spec \in Specs, NEW v \in 1 .. slot.version, NEW page,
         page = None \/ page = committed[v].view, NEW live \in SUBSET Rows,
         Paint(spec, v, page, live), UNCHANGED <<slot, committed>>
  PROVE  SurfaceInv'
<1>1. committed[v].view \in SUBSET Rows
  BY HistoryType
<1>2. QED BY <1>1 DEF SurfaceInv, Paint, SlotInv, Versions

LEMMA SlotFrame ==
  ASSUME SlotInv, UNCHANGED <<slot, committed, deleted>> PROVE SlotInv'
BY DEF SlotInv

LEMMA SurfaceFrame ==
  ASSUME SurfaceInv, UNCHANGED <<slot, committed, surface>> PROVE SurfaceInv'
BY DEF SurfaceInv

LEMMA RequestFrame ==
  ASSUME RequestInv, UNCHANGED <<slot, committed, request>> PROVE RequestInv'
BY DEF RequestInv, ViewOf

LEMMA MarkType ==
  ASSUME raced \subseteq Gaps, NEW gap \in Gaps, NEW wrong \in BOOLEAN, Mark(gap, wrong)
  PROVE  raced' \subseteq Gaps
BY DEF Mark

----------
(* The backend's steps. *)

LEMMA TaskTypes ==
  ASSUME TaskInv, NEW t \in Tasks
  PROVE  /\ HandlerInv(task[t]) /\ task[t] \in Task
         /\ task[t].call \in Calls /\ task[t].base \in Nat /\ task[t].version \in Nat
         /\ task[t].seq \in Nat /\ task[t].spec \in Specs /\ task[t].rows \in SUBSET Rows
         /\ task[t].live \in SUBSET Rows /\ task[t].view \in SUBSET Rows
         /\ task[t].tombstones \in SUBSET Rows /\ task[t].attempt \in 0 .. 1
<1>1. HandlerInv(task[t]) /\ task[t] \in Task
  BY DEF TaskInv, HandlerInv
<1>2. QED BY <1>1 DEF Task

LEMMA SupersededStep ==
  ASSUME SlotInv, TaskInv, NEW t \in Tasks, Superseded(t),
         task[t].pc = "sent" \/ task[t].pc = "checked", UNCHANGED <<slot, committed, deleted>>
  PROVE  TaskInv'
<1>1. slot.version \in Nat /\ "superseded" \in Replies /\ {} \in SUBSET Rows
  BY DEF SlotInv, Versions, Replies
<1>2. Answer(t, "superseded", slot.version, {}, {})
  BY DEF Superseded
<1>3. PICK v \in Nat : v = slot.version
  BY <1>1
<1>4. QED BY <1>1, <1>2, <1>3, AnswerStep

\* A change prepared from the slot as it is now fits its version.
LEMMA PreparedStep ==
  ASSUME SlotInv, TaskInv, NEW t \in Tasks, NEW view \in SUBSET Rows,
         NEW tombstones \in SUBSET Rows, Prepared(t, view, tombstones),
         task[t].call \in {"view", "remove"}, task[t].pc = "sent",
         task[t].base = slot.version,
         IF task[t].call = "view" THEN view = Selected(task[t].spec) \ slot.tombstones
         ELSE /\ tombstones = slot.tombstones \cup task[t].rows
              /\ view = slot.view \ tombstones,
         UNCHANGED <<slot, committed, deleted>>
  PROVE  TaskInv'
<1>1. task[t] \in Task /\ HandlerInv(task[t])
  BY TaskTypes
<1>2. PICK k : k = [task[t] EXCEPT !.pc = "checked", !.view = view,
                                   !.tombstones = tombstones]
  OBVIOUS
<1>3. /\ k \in Task /\ k.pc = "checked" /\ k.view = view /\ k.tombstones = tombstones
      /\ k.rows = task[t].rows /\ k.call = task[t].call /\ k.base = task[t].base
      /\ k.spec = task[t].spec
  BY <1>1, <1>2 DEF Task, Labels
<1>4. task' = [task EXCEPT ![t] = k]
  BY <1>2 DEF Prepared, TaskInv
<1>5. slot.version \in Nat
  BY DEF SlotInv, Versions
<1>6. HandlerInv(k)'
  BY <1>1, <1>3, <1>5 DEF HandlerInv, Targets, Snapshot, Carries
<1>7. QED BY <1>4, <1>6, HandlerStep

\* Only the task moved.
LEMMA OthersKept ==
  ASSUME IInv, TaskInv', UNCHANGED <<slot, surface, request, deleted, committed, raced>>
  PROVE  IInv'
BY SlotFrame, SurfaceFrame, RequestFrame DEF IInv

LEMMA PrepareViewPreserves ==
  ASSUME IInv, NEW t \in Tasks, PrepareView(t) PROVE IInv'
<1>1. /\ task[t].pc = "sent" /\ task[t].call = "view"
      /\ UNCHANGED <<slot, surface, request, deleted, committed, raced>>
  BY DEF PrepareView
<1>2. TaskInv'
  <2>1. CASE Superseded(t)
    BY <1>1, <2>1, SupersededStep DEF IInv
  <2>2. CASE Answer(t, "refused", 0, {}, {})
    BY <1>1, <2>2, AnswerStep DEF IInv, Replies
  <2>3. CASE /\ slot.version = task[t].base
             /\ Prepared(t, Selected(task[t].spec) \ slot.tombstones, slot.tombstones)
    <3>1. PICK view, gone : /\ view = Selected(task[t].spec) \ slot.tombstones
                            /\ gone = slot.tombstones
      OBVIOUS
    <3>2. view \in SUBSET Rows /\ gone \in SUBSET Rows
      BY <3>1, SelectedType, TaskTypes DEF IInv, SlotInv
    <3>3. QED BY <1>1, <2>3, <3>1, <3>2, PreparedStep DEF IInv
  <2>4. QED BY <2>1, <2>2, <2>3 DEF PrepareView
<1>3. QED BY <1>1, <1>2, OthersKept

LEMMA PrepareRemovalPreserves ==
  ASSUME IInv, NEW t \in Tasks, PrepareRemoval(t) PROVE IInv'
<1>1. /\ task[t].pc = "sent" /\ task[t].call = "remove"
      /\ UNCHANGED <<slot, surface, request, deleted, committed, raced>>
  BY DEF PrepareRemoval
<1>2. TaskInv'
  <2>1. CASE Superseded(t)
    BY <1>1, <2>1, SupersededStep DEF IInv
  <2>2. CASE /\ slot.version = task[t].base
             /\ Prepared(t, slot.view \ (slot.tombstones \cup task[t].rows),
                         slot.tombstones \cup task[t].rows)
    <3>1. PICK view, gone : /\ gone = slot.tombstones \cup task[t].rows
                            /\ view = slot.view \ gone
      OBVIOUS
    <3>2. view \in SUBSET Rows /\ gone \in SUBSET Rows
      BY <3>1, TaskTypes DEF IInv, SlotInv
    <3>3. QED BY <1>1, <2>2, <3>1, <3>2, PreparedStep DEF IInv
  <2>3. QED BY <2>1, <2>2 DEF PrepareRemoval
<1>3. QED BY <1>1, <1>2, OthersKept

LEMMA FetchWindowPreserves ==
  ASSUME IInv, NEW t \in Tasks, FetchWindow(t) PROVE IInv'
<1>1. /\ task[t].pc = "sent"
      /\ UNCHANGED <<slot, surface, request, deleted, committed, raced>>
  BY DEF FetchWindow
<1>2. TaskInv'
  <2>1. CASE Answer(t, "stale", 0, {}, {})
    BY <1>1, <2>1, AnswerStep DEF IInv, Replies
  <2>2. CASE Answer(t, "ok", slot.version, slot.view, {})
    <3>1. PICK v, view : v = slot.version /\ view = slot.view
      OBVIOUS
    <3>2. v \in Nat /\ view \in SUBSET Rows /\ ViewOf(v, view)
      BY <3>1 DEF IInv, SlotInv, ViewOf, Versions
    <3>3. QED BY <1>1, <2>2, <3>1, <3>2, AnswerStep DEF IInv, Replies
  <2>3. QED BY <2>1, <2>2 DEF FetchWindow
<1>3. QED BY <1>1, <1>2, OthersKept

----------
(* A change is written: nothing else wrote since it was prepared. *)

\* What a write does to the slot, and what it makes of the change it read.
Writes(t, spec, tombstones) ==
    /\ task[t].pc = "checked" /\ task[t].base = slot.version
    /\ Write(t, spec, tombstones)
    /\ UNCHANGED <<surface, request, deleted, raced>>
    /\ \/ task[t].call = "view" /\ spec = task[t].spec /\ tombstones = slot.tombstones
       \/ task[t].call = "remove" /\ spec = slot.spec /\ tombstones = task[t].tombstones

LEMMA WriteFacts ==
  ASSUME IInv, NEW t \in Tasks, NEW spec, NEW tombstones, Writes(t, spec, tombstones)
  PROVE  /\ spec \in Specs /\ tombstones \in SUBSET Rows /\ tombstones \subseteq deleted
         /\ slot.tombstones \subseteq tombstones
         /\ task[t].view = Selected(spec) \ tombstones
         /\ task[t].call = "remove" =>
               /\ task[t].rows # {} /\ task[t].rows \in SUBSET Rows
               /\ tombstones = slot.tombstones \cup task[t].rows
<1>1. HandlerInv(task[t]) /\ task[t].spec \in Specs /\ task[t].rows \in SUBSET Rows
  BY TaskTypes DEF IInv
<1>2. Snapshot(task[t]) /\ Targets(task[t])
  BY <1>1 DEF HandlerInv
<1>3. CASE task[t].call = "view" /\ spec = task[t].spec /\ tombstones = slot.tombstones
  BY <1>1, <1>2, <1>3 DEF Writes, Snapshot, IInv, SlotInv
<1>4. CASE task[t].call = "remove" /\ spec = slot.spec /\ tombstones = task[t].tombstones
  <2>1. task[t].rows # {} /\ task[t].rows \subseteq deleted
    BY <1>2, <1>4 DEF Writes, Targets
  <2>2. slot.version \in Nat /\ task[t].pc = "checked" /\ task[t].base = slot.version
    BY DEF Writes, IInv, SlotInv, Versions
  <2>3. /\ tombstones = slot.tombstones \cup task[t].rows
        /\ task[t].view = slot.view \ tombstones
    BY <1>2, <1>4, <2>2 DEF Snapshot
  <2>4. /\ slot.view = Selected(slot.spec) \ slot.tombstones /\ slot.spec \in Specs
        /\ slot.tombstones \in SUBSET Rows /\ slot.tombstones \subseteq deleted
    BY DEF IInv, SlotInv
  <2>5. task[t].view = Selected(spec) \ tombstones
    BY <1>4, <2>3, <2>4
  <2>6. QED BY <1>1, <1>4, <2>1, <2>3, <2>4, <2>5
<1>5. QED BY <1>3, <1>4 DEF Writes

\* The history grows by the new version; the versions before stay what they were.
LEMMA HistoryGrows ==
  ASSUME IInv, NEW t \in Tasks, NEW spec, NEW tombstones, Writes(t, spec, tombstones)
  PROVE  /\ slot'.version = slot.version + 1 /\ slot.version \in Versions
         /\ committed' \in Seq([spec : Specs, view : SUBSET Rows])
         /\ Len(committed') = slot'.version
         /\ \A v \in 1 .. slot.version : committed'[v] = committed[v]
         /\ committed'[slot'.version].view = task[t].view
<1> DEFINE Entries == [spec : Specs, view : SUBSET Rows]
           entry   == [spec |-> spec, view |-> task[t].view]
<1>1. entry \in Entries
  BY WriteFacts, TaskTypes DEF IInv
<1>2. entry.view = task[t].view
  OBVIOUS
<1>3. /\ slot'.version = slot.version + 1 /\ slot.version \in Versions
      /\ committed \in Seq(Entries) /\ Len(committed) = slot.version
      /\ committed' = Append(committed, entry)
  BY DEF Writes, Write, IInv, SlotInv
<1> HIDE DEF Entries, entry
<1>4. /\ committed' \in Seq(Entries) /\ Len(committed') = Len(committed) + 1
      /\ \A v \in 1 .. Len(committed) : committed'[v] = committed[v]
      /\ committed'[Len(committed) + 1] = entry
  BY <1>1, <1>3 DEF Versions
<1>5. committed' \in Seq([spec : Specs, view : SUBSET Rows])
  BY <1>4 DEF Entries
<1>6. QED BY <1>2, <1>3, <1>4, <1>5

LEMMA WriteKeepsSlot ==
  ASSUME IInv, NEW t \in Tasks, NEW spec, NEW tombstones, Writes(t, spec, tombstones)
  PROVE  SlotInv'
<1>1. slot' = [version |-> slot.version + 1, spec |-> spec, tombstones |-> tombstones,
               view |-> task[t].view] /\ deleted' = deleted
  BY DEF Writes, Write
<1>2. task[t].view \in SUBSET Rows
  BY TaskTypes DEF IInv
<1>3. slot' \in [version : Versions, spec : Specs, tombstones : SUBSET Rows,
                 view : SUBSET Rows]
  BY <1>1, <1>2, WriteFacts, HistoryGrows DEF Versions
<1>4. slot'.view = Selected(slot'.spec) \ slot'.tombstones
  BY <1>1, WriteFacts
<1>5. slot'.tombstones \subseteq deleted' /\ deleted' \subseteq Rows
  BY <1>1, WriteFacts DEF IInv, SlotInv
<1>6. committed'[slot'.version].view = slot'.view
  BY <1>1, HistoryGrows
<1>7. QED BY <1>3, <1>4, <1>5, <1>6, HistoryGrows DEF SlotInv, Selected

LEMMA WriteKeepsTasks ==
  ASSUME IInv, NEW t \in Tasks, NEW spec, NEW tombstones, Writes(t, spec, tombstones)
  PROVE  TaskInv'
<1>1. task[t] \in Task /\ HandlerInv(task[t]) /\ deleted' = deleted
  BY TaskTypes DEF IInv, Writes
<1>2. PICK k : k = [task[t] EXCEPT !.pc = "answered", !.reply = "ok",
                                   !.version = slot.version + 1, !.tombstones = tombstones]
  OBVIOUS
<1>3. /\ k \in Task /\ k.pc = "answered" /\ k.version = slot.version + 1
      /\ k.view = task[t].view /\ k.rows = task[t].rows /\ k.call = task[t].call
  <2>1. tombstones \in SUBSET Rows
    BY WriteFacts
  <2>2. slot.version + 1 \in Nat
    BY HistoryGrows DEF Versions
  <2>3. QED BY <1>1, <1>2, <2>1, <2>2 DEF Task, Labels, Replies
<1>4. task' = [task EXCEPT ![t] = k]
  <2>1. [task[t] EXCEPT !.pc = "answered", !.reply = "ok", !.version = slot.version + 1,
                        !.view = task[t].view, !.tombstones = tombstones] = k
    BY <1>1, <1>2 DEF Task
  <2>2. QED BY <2>1 DEF Writes, Write, Answer, IInv, TaskInv
<1>5. task' \in [Tasks -> Task]
  BY <1>3, <1>4 DEF IInv, TaskInv
<1>6. ASSUME NEW u \in Tasks PROVE HandlerInv(task[u])'
  <2>1. CASE u = t
    <3>1. task'[u] = k
      BY <1>4, <2>1 DEF IInv, TaskInv
    <3>2. k.version \in 1 .. slot'.version /\ k.view = committed'[k.version].view
      BY <1>3, HistoryGrows DEF Versions
    <3>3. QED
      BY <1>1, <1>3, <3>1, <3>2 DEF HandlerInv, Targets, Snapshot, Carries, ViewOf, Writes
  <2>2. CASE u # t
    <3>1. task'[u] = task[u]
      BY <1>4, <2>2 DEF IInv, TaskInv
    <3>2. HandlerInv(task[u]) /\ task[u] \in Task /\ task[u].base \in Nat
      BY TaskTypes DEF IInv
    <3>3. Targets(task[u])'
      BY <1>1, <3>1, <3>2 DEF HandlerInv, Targets
    <3>4. Snapshot(task[u])'
      BY <3>1, <3>2, HistoryGrows DEF HandlerInv, Snapshot, Versions
    <3>5. Carries(task[u])'
      BY <3>1, <3>2, HistoryGrows DEF HandlerInv, Carries, ViewOf, Versions
    <3>6. QED BY <3>1, <3>2, <3>3, <3>4, <3>5 DEF HandlerInv
  <2>3. QED BY <2>1, <2>2
<1>7. QED BY <1>5, <1>6 DEF TaskInv

LEMMA WritePreserves ==
  ASSUME IInv, NEW t \in Tasks, NEW spec, NEW tombstones, Writes(t, spec, tombstones)
  PROVE  IInv'
<1>1. UNCHANGED <<surface, request, raced>>
  BY DEF Writes
<1>2. SurfaceInv'
  BY <1>1, HistoryGrows DEF IInv, SurfaceInv, Versions
<1>3. RequestInv'
  BY <1>1, HistoryGrows DEF IInv, RequestInv, ViewOf, Versions
<1>4. QED BY <1>1, <1>2, <1>3, WriteKeepsSlot, WriteKeepsTasks DEF IInv

LEMMA CommitCases ==
  ASSUME IInv, NEW t \in Tasks, Commit(t)
  PROVE  \/ /\ Superseded(t) /\ task[t].pc = "checked"
            /\ UNCHANGED <<slot, surface, request, deleted, committed, raced>>
         \/ \E spec, tombstones : Writes(t, spec, tombstones)
<1>1. Snapshot(task[t]) /\ task[t].pc = "checked"
  BY TaskTypes DEF IInv, HandlerInv, Commit
<1>2. task[t].call \in {"view", "remove"}
  BY <1>1 DEF Snapshot
<1>3. CASE slot.version # task[t].base
  BY <1>1, <1>3 DEF Commit
<1>4. CASE slot.version = task[t].base /\ task[t].call = "view"
  <2>1. Writes(t, task[t].spec, slot.tombstones)
    BY <1>1, <1>4 DEF Commit, Writes
  <2>2. QED BY <2>1
<1>5. CASE slot.version = task[t].base /\ task[t].call = "remove"
  <2>1. Writes(t, slot.spec, task[t].tombstones)
    BY <1>1, <1>5 DEF Commit, Writes
  <2>2. QED BY <2>1
<1>6. QED BY <1>2, <1>3, <1>4, <1>5

LEMMA CommitPreserves ==
  ASSUME IInv, NEW t \in Tasks, Commit(t) PROVE IInv'
<1>1. CASE /\ Superseded(t) /\ task[t].pc = "checked"
           /\ UNCHANGED <<slot, surface, request, deleted, committed, raced>>
  BY <1>1, SupersededStep, OthersKept DEF IInv
<1>2. CASE \E spec, tombstones : Writes(t, spec, tombstones)
  BY <1>2, WritePreserves
<1>3. QED BY <1>1, <1>2, CommitCases

----------
(* The front end's steps. *)

\* The slot keeps its value and nothing is deleted: the four other parts are left.
LEMMA PartsKept ==
  ASSUME IInv, UNCHANGED <<slot, deleted, committed>>, TaskInv', SurfaceInv', RequestInv',
         raced' \subseteq Gaps
  PROVE  IInv'
BY SlotFrame DEF IInv

LEMMA RequestPagePreserves ==
  ASSUME IInv, NEW t \in Tasks, RequestPage(t) PROVE IInv'
<1>1. /\ Send(t, "page", surface.version, [Idle EXCEPT !.generation = surface.generation])
      /\ UNCHANGED <<slot, surface, request, deleted, committed, raced>>
  BY DEF RequestPage
<1>2. surface.version \in Nat /\ surface.generation \in Nat
  BY DEF IInv, SurfaceInv, Versions
<1>3. PICK base, locals : /\ base = surface.version
                          /\ locals = [Idle EXCEPT !.generation = surface.generation]
  OBVIOUS
<1>4. locals \in Task
  BY <1>2, <1>3, IdleType DEF IInv, Task
<1>5. TaskInv'
  BY <1>1, <1>2, <1>3, <1>4, SendStep DEF IInv, Calls
<1>6. QED BY <1>1, <1>5, OthersKept

LEMMA PageReplyPreserves ==
  ASSUME IInv, NEW t \in Tasks, PageReply(t) PROVE IInv'
<1>1. Finish(t) /\ UNCHANGED <<slot, request, deleted, committed, raced>>
  BY DEF PageReply
<1>2. TaskInv'
  BY <1>1, FinishStep DEF IInv
<1>3. CASE PageFits(t) /\ surface' = [surface EXCEPT !.page = task[t].view]
  <2>1. Carries(task[t]) /\ task[t].view \in SUBSET Rows
    BY TaskTypes DEF IInv, HandlerInv
  <2>2. task[t].view = committed[surface.version].view
    BY <1>3, <2>1 DEF PageFits, Carries, ViewOf, PageReply, Answered
  <2>3. SurfaceInv'
    BY <1>1, <1>3, <2>1, <2>2 DEF IInv, SurfaceInv
  <2>4. QED BY <1>1, <1>2, <2>3, PartsKept, RequestFrame DEF IInv
<1>4. CASE surface' = surface
  BY <1>1, <1>2, <1>4, OthersKept
<1>5. QED BY <1>3, <1>4 DEF PageReply

LEMMA RequestViewPreserves ==
  ASSUME IInv, NEW t \in Tasks, NEW spec \in Specs, RequestView(t, spec) PROVE IInv'
<1>1. /\ Send(t, "view", request.known, [Idle EXCEPT !.seq = request.seq + 1, !.spec = spec])
      /\ request' = [request EXCEPT !.seq = @ + 1, !.spec = spec, !.retry = None,
                                    !.error = FALSE]
      /\ request.seq < MaxRequests
      /\ UNCHANGED <<slot, surface, deleted, committed, raced>>
  BY DEF RequestView
<1>2. request.known \in Nat /\ request.seq + 1 \in 0 .. MaxRequests /\ request.seq + 1 \in Nat
  BY <1>1, BoundAssumption DEF IInv, RequestInv, Versions
<1>3. PICK base, locals : /\ base = request.known
                          /\ locals = [Idle EXCEPT !.seq = request.seq + 1, !.spec = spec]
  OBVIOUS
<1>4. locals \in Task
  BY <1>2, <1>3, IdleType DEF IInv, Task
<1>5. TaskInv'
  BY <1>1, <1>2, <1>3, <1>4, SendStep DEF IInv, Calls
<1>6. RequestInv'
  BY <1>1, <1>2 DEF IInv, RequestInv, ViewOf
<1>7. QED BY <1>1, <1>5, <1>6, PartsKept, SurfaceFrame DEF IInv

LEMMA UserRequestPreserves ==
  ASSUME IInv, NEW t \in Tasks, SortResults(t) \/ ApplyFilters(t) \/ RetryViewChange(t)
  PROVE  IInv'
<1>1. request.spec \in Specs /\ (request.retry = None \/ request.retry \in Specs)
  BY DEF IInv, RequestInv
<1>2. \A s \in Sorts : [request.spec EXCEPT !.sort = s] \in Specs
  BY <1>1 DEF Specs
<1>3. \A f \in Filters : [request.spec EXCEPT !.filter = f] \in Specs
  BY <1>1 DEF Specs
<1>4. \E spec \in Specs : RequestView(t, spec)
  BY <1>1, <1>2, <1>3 DEF SortResults, ApplyFilters, RetryViewChange
<1>5. QED BY <1>4, RequestViewPreserves

\* The rows a delete will send are known: it holds nothing else.
LEMMA ResolvedStep ==
  ASSUME SlotInv, TaskInv, NEW t \in Tasks, NEW checked \in SUBSET Rows,
         NEW rows \in SUBSET Rows, Resolved(t, checked, rows),
         UNCHANGED <<slot, committed, deleted>>
  PROVE  TaskInv'
<1>1. PICK k : k = [Idle EXCEPT !.pc = "deleting", !.call = "remove", !.checked = checked,
                                !.rows = rows]
  OBVIOUS
<1>2. k \in Task /\ k.pc = "deleting"
  BY <1>1, IdleType DEF Task, Labels, Calls
<1>3. HandlerInv(k)'
  BY <1>2 DEF HandlerInv, Targets, Snapshot, Carries
<1>4. task' = [task EXCEPT ![t] = k]
  BY <1>1 DEF Resolved
<1>5. QED BY <1>3, <1>4, HandlerStep

\* A window of checked rows is fetched.
LEMMA SendRangeStep ==
  ASSUME SlotInv, TaskInv, SurfaceInv, NEW t \in Tasks, NEW locals \in Task,
         Send(t, "range", surface.version, locals), UNCHANGED <<slot, committed, deleted>>
  PROVE  TaskInv'
<1>1. surface.version \in Nat
  BY DEF SurfaceInv, Versions
<1>2. PICK base : base = surface.version
  OBVIOUS
<1>3. QED BY <1>1, <1>2, SendStep DEF Calls

LEMMA BeginDeletePreserves ==
  ASSUME IInv, NEW t \in Tasks, BeginDelete(t) PROVE IInv'
<1>1. PICK rows \in (SUBSET surface.page) \ {{}} :
        \/ Resolved(t, rows, rows)
        \/ Send(t, "range", surface.version,
                [Idle EXCEPT !.checked = rows, !.rest = rows, !.from = surface.version])
  BY DEF BeginDelete
<1>2. UNCHANGED <<slot, surface, request, deleted, committed, raced>> /\ surface.page # None
  BY DEF BeginDelete
<1>3. rows \in SUBSET Rows /\ surface.version \in Nat
  BY <1>1, <1>2 DEF IInv, SurfaceInv, Versions
<1>4. TaskInv'
  <2>1. CASE Resolved(t, rows, rows)
    BY <1>2, <1>3, <2>1, ResolvedStep DEF IInv
  <2>2. CASE Send(t, "range", surface.version,
                  [Idle EXCEPT !.checked = rows, !.rest = rows, !.from = surface.version])
    <3>1. PICK locals :
            locals = [Idle EXCEPT !.checked = rows, !.rest = rows, !.from = surface.version]
      OBVIOUS
    <3>2. locals \in Task
      BY <1>3, <3>1, IdleType DEF IInv, Task
    <3>3. QED BY <1>2, <2>2, <3>1, <3>2, SendRangeStep DEF IInv
  <2>3. QED BY <1>1, <2>1, <2>2
<1>5. QED BY <1>2, <1>4, OthersKept

\* What a reply "ok" brings.
LEMMA ReplyFacts ==
  ASSUME IInv, NEW t \in Tasks, task[t].pc = "answered", task[t].reply = "ok"
  PROVE  /\ task[t].version \in 1 .. slot.version /\ task[t].version \in Versions
         /\ task[t].view = committed[task[t].version].view
         /\ Larger(request.known, task[t].version) \in Versions
<1>1. Carries(task[t])
  BY TaskTypes DEF IInv, HandlerInv
<1>2. request.known \in Versions /\ slot.version \in Versions
  BY DEF IInv, RequestInv, SlotInv
<1>3. QED BY <1>1, <1>2 DEF Carries, ViewOf, Larger, Versions

LEMMA RowsAtType ==
  ASSUME SlotInv, NEW rows, NEW from, NEW v \in 1 .. slot.version
  PROVE  RowsAt(rows, from, v) \in SUBSET Rows
BY HistoryType DEF RowsAt

LEMMA RangeReplyPreserves ==
  ASSUME IInv, NEW t \in Tasks, RangeReply(t) PROVE IInv'
<1>1. Answered(t, "range") /\ UNCHANGED <<slot, surface, request, deleted, committed, raced>>
  BY DEF RangeReply
<1>2. CASE Finish(t)
  BY <1>1, <1>2, FinishStep, OthersKept DEF IInv
<1>3. CASE task[t].reply = "ok" /\ ~Finish(t)
  <2>1. PICK range, rows, rest :
          /\ range \in (SUBSET task[t].rest) \ {{}}
          /\ rows = task[t].rows \cup RowsAt(range, task[t].from, task[t].version)
          /\ rest = task[t].rest \ range
          /\ \/ Resolved(t, task[t].checked, rows)
             \/ Resolved(t, task[t].checked,
                         rows \cup RowsAt(rest, task[t].from, surface.version))
             \/ Send(t, "range", surface.version,
                     [task[t] EXCEPT !.rows = rows, !.rest = rest])
    BY <1>3 DEF RangeReply
  <2>2. task[t] \in Task /\ task[t].rows \in SUBSET Rows /\ task[t].checked \in SUBSET Rows
        /\ task[t].rest \in SUBSET Rows
    BY TaskTypes DEF IInv, Task
  <2>3. rows \in SUBSET Rows /\ rest \in SUBSET Rows
    <3>1. RowsAt(range, task[t].from, task[t].version) \in SUBSET Rows
      BY <1>1, <1>3, ReplyFacts, RowsAtType DEF IInv, Answered
    <3>2. QED BY <2>1, <2>2, <3>1
  <2>4. RowsAt(rest, task[t].from, surface.version) \in SUBSET Rows
    <3>1. surface.version \in 1 .. slot.version
      BY DEF IInv, SurfaceInv, SlotInv, Versions
    <3>2. PICK v : v = surface.version
      OBVIOUS
    <3>3. QED BY <3>1, <3>2, RowsAtType DEF IInv
  <2>5. CASE \E more \in SUBSET Rows : Resolved(t, task[t].checked, more)
    <3>1. PICK checked, more \in SUBSET Rows :
            checked = task[t].checked /\ Resolved(t, checked, more)
      BY <2>2, <2>5
    <3>2. QED BY <1>1, <2>2, <3>1, ResolvedStep, OthersKept DEF IInv
  <2>6. CASE Send(t, "range", surface.version, [task[t] EXCEPT !.rows = rows, !.rest = rest])
    <3>1. PICK locals : locals = [task[t] EXCEPT !.rows = rows, !.rest = rest]
      OBVIOUS
    <3>2. locals \in Task
      BY <2>2, <2>3, <3>1 DEF Task
    <3>3. QED BY <1>1, <2>6, <3>1, <3>2, SendRangeStep, OthersKept DEF IInv
  <2>7. QED BY <2>1, <2>3, <2>4, <2>5, <2>6
<1>4. QED BY <1>2, <1>3 DEF RangeReply

LEMMA RowsDeletedPreserves ==
  ASSUME IInv, NEW t \in Tasks, RowsDeleted(t) PROVE IInv'
<1>1. PICK rows \in SUBSET (task[t].rows \ deleted) :
        /\ deleted' = deleted \cup rows
        /\ IF rows = {} THEN Finish(t)
           ELSE Send(t, "remove", request.known, [Idle EXCEPT !.rows = rows])
  BY DEF RowsDeleted
<1>2. UNCHANGED <<slot, surface, request, committed, raced>>
  BY DEF RowsDeleted
<1>3. rows \in SUBSET Rows /\ task[t] \in Task
  BY <1>1, TaskTypes DEF IInv
<1>4. deleted' \subseteq Rows /\ deleted \subseteq deleted'
  BY <1>1, <1>3 DEF IInv, SlotInv
<1>5. SlotInv'
  BY <1>2, <1>4 DEF IInv, SlotInv
<1>6. TaskInv'
  <2>1. CASE rows = {}
    BY <1>1, <1>2, <1>4, <2>1, FinishStep DEF IInv
  <2>2. CASE rows # {}
    <3>1. PICK base, locals : /\ base = request.known
                              /\ locals = [Idle EXCEPT !.rows = rows]
      OBVIOUS
    <3>2. locals \in Task /\ locals.rows = rows /\ base \in Nat
      BY <1>3, <3>1, IdleType DEF IInv, RequestInv, Versions, Task
    <3>3. QED BY <1>1, <1>2, <1>4, <2>2, <3>1, <3>2, SendStep DEF IInv, Calls
  <2>3. QED BY <2>1, <2>2
<1>7. QED BY <1>2, <1>5, <1>6, SurfaceFrame, RequestFrame DEF IInv

\* The latest success, once there is one.
LEMMA SuccessType ==
  ASSUME RequestInv, request.success # None
  PROVE  /\ request.success \in Success
         /\ request.success.spec \in Specs /\ request.success.live \in SUBSET Rows
         /\ request.success.version \in 1 .. slot.version
         /\ request.success.view = committed[request.success.version].view
BY DEF RequestInv, Success, ViewOf

LEMMA SettleFailedStep ==
  ASSUME IInv, NEW t \in Tasks, NEW known \in Versions, SettleFailed(t, known),
         UNCHANGED <<slot, deleted, committed>>
  PROVE  TaskInv' /\ SurfaceInv' /\ RequestInv'
<1> DEFINE reverted == IF request.success # None THEN request.success.spec ELSE surface.spec
           failed   == [request EXCEPT !.known = known, !.retry = request.spec]
<1>1. /\ surface.spec \in Specs /\ surface.live \in SUBSET Rows /\ request.spec \in Specs
      /\ reverted \in Specs
  BY SuccessType DEF IInv, SurfaceInv, RequestInv
<1>2. ASSUME NEW spec \in Specs, NEW error \in BOOLEAN,
             request' = [failed EXCEPT !.spec = spec, !.error = error]
      PROVE  RequestInv'
  BY <1>1, <1>2 DEF IInv, RequestInv, ViewOf
<1>3. ASSUME NEW spec \in Specs, request' = [failed EXCEPT !.spec = spec]
      PROVE  RequestInv'
  BY <1>1, <1>3 DEF IInv, RequestInv, ViewOf
<1>4. CASE /\ request.success # None
           /\ request' = [failed EXCEPT !.spec = request.success.spec, !.error = TRUE]
           /\ Paint(request.success.spec, request.success.version, request.success.view,
                    request.success.live)
           /\ Finish(t)
  <2>1. PICK spec, v, page, live :
          /\ spec = request.success.spec /\ v = request.success.version
          /\ page = request.success.view /\ live = request.success.live
    OBVIOUS
  <2>2. /\ spec \in Specs /\ v \in 1 .. slot.version /\ page = committed[v].view
        /\ live \in SUBSET Rows
    BY <1>4, <2>1, SuccessType DEF IInv
  <2>3. SurfaceInv'
    BY <1>4, <2>1, <2>2, PaintStep DEF IInv
  <2>4. TaskInv'
    BY <1>4, FinishStep DEF IInv
  <2>5. RequestInv'
    BY <1>2, <1>4, <2>1, <2>2
  <2>6. QED BY <2>3, <2>4, <2>5
<1>5. CASE /\ request' = [failed EXCEPT !.spec = reverted]
           /\ Send(t, "settle", known, [task[t] EXCEPT !.spec = reverted,
                                                       !.live = surface.live])
           /\ UNCHANGED surface
  <2>1. PICK locals : locals = [task[t] EXCEPT !.spec = reverted, !.live = surface.live]
    OBVIOUS
  <2>2. locals \in Task
    BY <1>1, <2>1, TaskTypes DEF IInv, Task
  <2>3. TaskInv'
    BY <1>5, <2>1, <2>2, SendStep DEF IInv, Calls, Versions
  <2>4. RequestInv'
    BY <1>1, <1>3, <1>5
  <2>5. QED BY <1>5, <2>3, <2>4, SurfaceFrame DEF IInv
<1>6. CASE /\ request' = [failed EXCEPT !.spec = surface.spec, !.error = TRUE]
           /\ Finish(t)
           /\ UNCHANGED surface
  <2>1. RequestInv'
    BY <1>1, <1>2, <1>6
  <2>2. QED BY <1>6, <2>1, FinishStep, SurfaceFrame DEF IInv
<1>7. QED BY <1>4, <1>5, <1>6 DEF SettleFailed

\* A handler paints the reply it got.
LEMMA PaintReply ==
  ASSUME IInv, NEW t \in Tasks, task[t].pc = "answered", task[t].reply = "ok",
         NEW spec \in Specs, NEW live \in SUBSET Rows,
         Paint(spec, task[t].version, task[t].view, live),
         UNCHANGED <<slot, deleted, committed>>
  PROVE  SurfaceInv'
<1>1. PICK v, page : v = task[t].version /\ page = task[t].view
  OBVIOUS
<1>2. v \in 1 .. slot.version /\ page = committed[v].view
  BY <1>1, ReplyFacts
<1>3. QED BY <1>1, <1>2, PaintStep DEF IInv

LEMMA ViewSucceededPreserves ==
  ASSUME IInv, NEW t \in Tasks, ViewSucceeded(t) PROVE IInv'
<1> DEFINE known   == Larger(request.known, task[t].version)
           live    == Rows \ task[t].tombstones
           success == [version |-> task[t].version, spec |-> task[t].spec,
                       view |-> task[t].view, live |-> live]
           kept    == [request EXCEPT !.success = success, !.known = known]
<1>1. /\ task[t].pc = "answered" /\ task[t].reply = "ok"
      /\ UNCHANGED <<slot, deleted, committed>>
  BY DEF ViewSucceeded, Answered
<1>2. raced' \subseteq Gaps
  BY MarkType DEF ViewSucceeded, IInv, Gaps
<1>3. known \in Versions /\ live \in SUBSET Rows /\ success \in Success
  BY <1>1, ReplyFacts, TaskTypes DEF IInv, Success
<1>4. success.version \in 1 .. slot.version
      /\ success.view = committed[success.version].view
  BY <1>1, ReplyFacts
<1>5. ASSUME request' = kept \/ request' = [kept EXCEPT !.error = FALSE]
      PROVE  RequestInv'
  <2> HIDE DEF known, live, success
  <2>1. request'.success = success
    BY <1>5 DEF IInv, RequestInv
  <2>2. request' \in [seq : 0 .. MaxRequests, known : Versions, spec : Specs,
                      retry : {None} \cup Specs, success : {None} \cup Success,
                      error : BOOLEAN, outdated : BOOLEAN]
    BY <1>3, <1>5 DEF IInv, RequestInv
  <2>3. QED BY <1>1, <1>3, <1>4, <2>1, <2>2 DEF RequestInv, ViewOf
<1>6. CASE request' = kept /\ Finish(t) /\ UNCHANGED surface
  BY <1>1, <1>2, <1>5, <1>6, FinishStep, SurfaceFrame, PartsKept DEF IInv
<1>7. CASE request' = kept /\ Send(t, "repaint", known, task[t]) /\ UNCHANGED surface
  <2>1. PICK base, locals : base = known /\ locals = task[t]
    OBVIOUS
  <2>2. base \in Nat /\ locals \in Task
    BY <1>3, <2>1, TaskTypes DEF IInv, Versions
  <2>3. TaskInv'
    BY <1>1, <1>7, <2>1, <2>2, SendStep DEF IInv, Calls
  <2>4. QED BY <1>1, <1>2, <1>5, <1>7, <2>3, SurfaceFrame, PartsKept DEF IInv
<1>8. CASE /\ request' = [kept EXCEPT !.error = FALSE]
           /\ Paint(task[t].spec, task[t].version, task[t].view, live)
           /\ Finish(t)
  <2>1. SurfaceInv'
    <3>1. PICK spec, rows : spec = task[t].spec /\ rows = live
      OBVIOUS
    <3>2. spec \in Specs /\ rows \in SUBSET Rows
      BY <1>3, <3>1, TaskTypes DEF IInv
    <3>3. QED BY <1>1, <1>8, <3>1, <3>2, PaintReply
  <2>2. QED BY <1>1, <1>2, <1>5, <1>8, <2>1, FinishStep, PartsKept DEF IInv
<1>9. QED BY <1>6, <1>7, <1>8 DEF ViewSucceeded

\* A refused change is sent once more against the version it was told.
LEMMA RetryStep ==
  ASSUME IInv, NEW t \in Tasks, NEW c \in {"view", "remove"}, MayRetry(t), Answered(t, c),
         Send(t, c, task[t].version, [task[t] EXCEPT !.attempt = @ + 1]),
         UNCHANGED <<slot, deleted, committed>>
  PROVE  TaskInv'
<1>1. task[t] \in Task /\ Targets(task[t]) /\ task[t].version \in Nat
  BY TaskTypes DEF IInv, HandlerInv
<1>2. PICK base, locals : /\ base = task[t].version
                          /\ locals = [task[t] EXCEPT !.attempt = @ + 1]
  OBVIOUS
<1>3. locals \in Task /\ locals.rows = task[t].rows
  BY <1>1, <1>2 DEF MayRetry, Task
<1>4. c = "remove" => locals.rows # {} /\ locals.rows \subseteq deleted'
  BY <1>1, <1>3 DEF Targets, Answered
<1>5. QED BY <1>1, <1>2, <1>3, <1>4, SendStep DEF IInv, Calls

\* Raising the known version keeps the rest.
LEMMA KnownStep ==
  ASSUME IInv, NEW known \in Versions, UNCHANGED <<slot, committed>>,
         \/ request' = [request EXCEPT !.known = known]
         \/ \E error \in BOOLEAN :
               request' = [request EXCEPT !.known = known, !.error = error]
  PROVE  RequestInv'
BY DEF IInv, RequestInv, ViewOf

LEMMA ViewFailedPreserves ==
  ASSUME IInv, NEW t \in Tasks, ViewFailed(t) PROVE IInv'
<1> DEFINE known == Larger(request.known, task[t].version)
<1>1. Answered(t, "view") /\ UNCHANGED <<slot, deleted, committed>>
  BY DEF ViewFailed
<1>2. known \in Versions
  BY TaskTypes DEF IInv, RequestInv, Versions, Larger
<1> HIDE DEF known
<1>3. CASE request' = [request EXCEPT !.known = known] /\ Finish(t)
           /\ UNCHANGED <<surface, raced>>
  BY <1>1, <1>2, <1>3, FinishStep, KnownStep, SurfaceFrame, PartsKept DEF IInv
<1>4. CASE /\ MayRetry(t) /\ request' = [request EXCEPT !.known = known]
           /\ Send(t, "view", task[t].version, [task[t] EXCEPT !.attempt = @ + 1])
           /\ UNCHANGED <<surface, raced>>
  BY <1>1, <1>2, <1>4, RetryStep, KnownStep, SurfaceFrame, PartsKept DEF IInv
<1>5. CASE SettleFailed(t, known) /\ Mark("unanswered", OlderPending(t))
  <2>1. raced' \subseteq Gaps
    BY <1>5, MarkType DEF IInv, Gaps, OlderPending
  <2>2. QED BY <1>1, <1>2, <1>5, <2>1, SettleFailedStep, PartsKept
<1>6. QED BY <1>3, <1>4, <1>5 DEF ViewFailed, known

LEMMA RepaintReplyPreserves ==
  ASSUME IInv, NEW t \in Tasks, RepaintReply(t) PROVE IInv'
<1>1. task[t].pc = "answered" /\ UNCHANGED <<slot, deleted, committed>>
  BY DEF RepaintReply, Answered
<1>2. raced' \subseteq Gaps
  BY MarkType DEF RepaintReply, IInv, Gaps, OlderPending, Mark
<1>3. CASE /\ task[t].reply = "ok"
           /\ Paint(task[t].spec, task[t].version, task[t].view, surface.live)
           /\ request' = [request EXCEPT !.known = Larger(@, task[t].version), !.error = FALSE]
           /\ Finish(t)
  <2>1. PICK spec, live, known : /\ spec = task[t].spec /\ live = surface.live
                                 /\ known = Larger(request.known, task[t].version)
    OBVIOUS
  <2>2. spec \in Specs /\ live \in SUBSET Rows /\ known \in Versions
    BY <1>1, <1>3, <2>1, TaskTypes, ReplyFacts DEF IInv, SurfaceInv
  <2>3. SurfaceInv'
    BY <1>1, <1>3, <2>1, <2>2, PaintReply
  <2>4. RequestInv'
    BY <1>1, <1>3, <2>1, <2>2, KnownStep
  <2>5. QED BY <1>1, <1>2, <1>3, <2>3, <2>4, FinishStep, PartsKept DEF IInv
<1>4. CASE SettleFailed(t, request.known)
  <2>1. PICK known : known = request.known
    OBVIOUS
  <2>2. known \in Versions
    BY <2>1 DEF IInv, RequestInv
  <2>3. QED BY <1>1, <1>2, <1>4, <2>1, <2>2, SettleFailedStep, PartsKept
<1>5. QED BY <1>3, <1>4 DEF RepaintReply

LEMMA SettleReplyPreserves ==
  ASSUME IInv, NEW t \in Tasks, SettleReply(t) PROVE IInv'
<1>1. /\ task[t].pc = "answered" /\ Finish(t) /\ UNCHANGED <<slot, deleted, committed>>
  BY DEF SettleReply, Answered
<1>2. raced' \subseteq Gaps
  BY MarkType DEF SettleReply, IInv, Gaps, Mark
<1>3. CASE /\ task[t].reply = "ok"
           /\ Paint(task[t].spec, task[t].version, task[t].view, task[t].live)
           /\ request' = [request EXCEPT !.known = Larger(@, task[t].version), !.error = TRUE]
  <2>1. PICK spec, live, known : /\ spec = task[t].spec /\ live = task[t].live
                                 /\ known = Larger(request.known, task[t].version)
    OBVIOUS
  <2>2. spec \in Specs /\ live \in SUBSET Rows /\ known \in Versions
    BY <1>1, <1>3, <2>1, TaskTypes, ReplyFacts DEF IInv
  <2>3. SurfaceInv'
    BY <1>1, <1>3, <2>1, <2>2, PaintReply
  <2>4. RequestInv'
    BY <1>1, <1>3, <2>1, <2>2, KnownStep
  <2>5. QED BY <1>1, <1>2, <2>3, <2>4, FinishStep, PartsKept DEF IInv
<1>4. CASE request' = [request EXCEPT !.error = TRUE] /\ UNCHANGED surface
  <2>1. RequestInv'
    BY <1>1, <1>4 DEF IInv, RequestInv, ViewOf
  <2>2. QED BY <1>1, <1>2, <1>4, <2>1, FinishStep, SurfaceFrame, PartsKept DEF IInv
<1>5. QED BY <1>3, <1>4 DEF SettleReply

LEMMA RemoveReplyPreserves ==
  ASSUME IInv, NEW t \in Tasks, RemoveReply(t) PROVE IInv'
<1>1. Answered(t, "remove") /\ UNCHANGED <<slot, deleted, committed>>
  BY DEF RemoveReply
<1>2. raced' \subseteq Gaps
  BY MarkType DEF RemoveReply, IInv, Gaps, Mark
<1>3. CASE Finish(t) /\ UNCHANGED <<surface, request>>
  BY <1>1, <1>2, <1>3, FinishStep, SurfaceFrame, RequestFrame, PartsKept DEF IInv
<1>4. CASE /\ task[t].reply = "ok" /\ Finish(t)
           /\ Paint(surface.spec, task[t].version, IF task[t].view = {} THEN {} ELSE None,
                    Rows \ task[t].tombstones)
           /\ request' = [request EXCEPT !.known = task[t].version, !.error = FALSE]
  <2>1. PICK spec, v, page, live : /\ spec = surface.spec /\ v = task[t].version
                                   /\ page = IF task[t].view = {} THEN {} ELSE None
                                   /\ live = Rows \ task[t].tombstones
    OBVIOUS
  <2>2. /\ spec \in Specs /\ v \in 1 .. slot.version /\ v \in Versions
        /\ (page = None \/ page = committed[v].view) /\ live \in SUBSET Rows
    BY <1>1, <1>4, <2>1, ReplyFacts DEF IInv, SurfaceInv, Answered
  <2>3. SurfaceInv'
    BY <1>1, <1>4, <2>1, <2>2, PaintStep DEF IInv
  <2>4. RequestInv'
    BY <1>1, <1>4, <2>1, <2>2, KnownStep
  <2>5. QED BY <1>1, <1>2, <1>4, <2>3, <2>4, FinishStep, PartsKept DEF IInv
<1>5. CASE /\ MayRetry(t)
           /\ Send(t, "remove", task[t].version, [task[t] EXCEPT !.attempt = @ + 1])
           /\ UNCHANGED <<surface, request>>
  BY <1>1, <1>2, <1>5, RetryStep, SurfaceFrame, RequestFrame, PartsKept DEF IInv
<1>6. CASE Finish(t) /\ request' = [request EXCEPT !.outdated = TRUE] /\ UNCHANGED surface
  <2>1. RequestInv'
    BY <1>1, <1>6 DEF IInv, RequestInv, ViewOf
  <2>2. QED BY <1>1, <1>2, <1>6, <2>1, FinishStep, SurfaceFrame, PartsKept DEF IInv
<1>7. QED BY <1>3, <1>4, <1>5, <1>6 DEF RemoveReply

----------
(* The inductive invariant. *)

LEMMA InitIInv == Init => IInv
<1> SUFFICES ASSUME Init PROVE IInv
  OBVIOUS
<1>1. PICK s \in Specs :
        /\ slot = [version |-> 1, spec |-> s, tombstones |-> {}, view |-> Selected(s)]
        /\ task = [t \in Tasks |-> Idle]
        /\ surface = [version |-> 1, spec |-> s, page |-> Selected(s), live |-> Rows,
                      generation |-> 0]
        /\ request = [seq |-> 0, known |-> 1, spec |-> s, retry |-> None, success |-> None,
                      error |-> FALSE, outdated |-> FALSE]
        /\ deleted = {}
        /\ committed = <<[spec |-> s, view |-> Selected(s)]>>
        /\ raced = {}
  BY DEF Init
<1>2. PICK view : view = Selected(s)
  OBVIOUS
<1>3. view \in SUBSET Rows
  BY <1>2, SelectedType
<1>4. SlotInv
  <2>1. slot = [version |-> 1, spec |-> s, tombstones |-> {}, view |-> view]
    BY <1>1, <1>2
  <2>2. slot.view = Selected(slot.spec) \ slot.tombstones
    BY <1>2, <2>1
  <2>3. committed = <<[spec |-> s, view |-> view]>>
    BY <1>1, <1>2
  <2>4. [spec |-> s, view |-> view] \in [spec : Specs, view : SUBSET Rows]
    BY <1>3
  <2>5. committed \in Seq([spec : Specs, view : SUBSET Rows]) /\ Len(committed) = 1
        /\ committed[1].view = view
    BY <2>3, <2>4
  <2>6. deleted = {}
    BY <1>1
  <2>7. QED BY <1>3, <2>1, <2>2, <2>5, <2>6 DEF SlotInv, Versions
<1>5. TaskInv
  <2>1. Idle \in Task /\ Idle.pc = "idle"
    BY <1>4, IdleType DEF Idle
  <2>2. HandlerInv(Idle)
    BY <2>1 DEF HandlerInv, Targets, Snapshot, Carries
  <2>3. task = [t \in Tasks |-> Idle]
    BY <1>1
  <2>4. \A t \in Tasks : task[t] = Idle
    BY <2>3
  <2>5. QED BY <2>1, <2>2, <2>3, <2>4 DEF TaskInv
<1>6. SurfaceInv
  <2>1. committed[1].view = view /\ slot.version = 1
    BY <1>1, <1>2
  <2>2. QED BY <1>1, <1>2, <1>3, <2>1 DEF SurfaceInv, Versions
<1>7. RequestInv
  BY <1>1, BoundAssumption DEF RequestInv, Versions
<1>8. QED BY <1>1, <1>4, <1>5, <1>6, <1>7 DEF IInv

LEMMA StutterIInv == IInv /\ UNCHANGED vars => IInv'
<1> SUFFICES ASSUME IInv, UNCHANGED vars PROVE IInv'
  OBVIOUS
<1>1. TaskInv'
  BY DEF vars, IInv, TaskInv, HandlerInv, Targets, Snapshot, Carries, ViewOf
<1>2. QED BY <1>1, OthersKept DEF vars

\* Every action keeps the inductive invariant.
LEMMA NextIInv == IInv /\ [Next]_vars => IInv'
<1> SUFFICES ASSUME IInv, [Next]_vars PROVE IInv'
  OBVIOUS
<1>1. CASE \E t \in Tasks : Backend(t)
  BY <1>1, PrepareViewPreserves, PrepareRemovalPreserves, CommitPreserves,
     FetchWindowPreserves DEF Backend
<1>2. CASE \E t \in Tasks : Continue(t)
  BY <1>2, PageReplyPreserves, ViewSucceededPreserves, ViewFailedPreserves,
     RepaintReplyPreserves, SettleReplyPreserves, RangeReplyPreserves, RowsDeletedPreserves,
     RemoveReplyPreserves DEF Continue
<1>3. CASE \E t \in Tasks : User(t) \/ RequestPage(t)
  BY <1>3, UserRequestPreserves, BeginDeletePreserves, RequestPagePreserves DEF User
<1>4. CASE UNCHANGED vars
  BY <1>4, StutterIInv
<1>5. QED BY <1>1, <1>2, <1>3, <1>4 DEF Next

\* The inductive invariant holds in every reachable state.
THEOREM InductiveInvariant == Spec => []IInv
BY InitIInv, NextIInv, PTL DEF Spec

\* Every variable keeps its type, whatever order requests and replies come in.
THEOREM TypeCorrect == Spec => []TypeOK
<1>1. IInv => TypeOK
  BY DEF IInv, SlotInv, TaskInv, SurfaceInv, RequestInv, Gaps, TypeOK
<1>2. QED BY <1>1, InductiveInvariant, PTL

\* remove_result_rows never hides a row that is still in the table: not after retries
\* and not when sorts, filters and other deletes commit in between.
THEOREM OnlyDeletedLeave == Spec => []OnlyDeletedRowsLeave
<1>1. IInv => OnlyDeletedRowsLeave
  BY DEF IInv, SlotInv, OnlyDeletedRowsLeave
<1>2. QED BY <1>1, InductiveInvariant, PTL

\* A late window, view, repaint or delete reply never puts the rows of one version
\* under another one (fetchPage, result-window-cache.ts).
THEOREM PageOfItsVersion == Spec => []PageIsOfItsVersion
<1>1. IInv => PageIsOfItsVersion
  BY DEF IInv, SurfaceInv, PageIsOfItsVersion
<1>2. QED BY <1>1, InductiveInvariant, PTL

----------
(* The slot implements the register. *)

\* The only step that touches the slot is a write, and a write is one change of the
\* register: a new spec, or more rows removed.
LEMMA SlotSteps ==
  ASSUME IInv, [Next]_vars
  PROVE  UNCHANGED slot \/ \E t \in Tasks : \E spec, tombstones : Writes(t, spec, tombstones)
<1>1. CASE \E t \in Tasks : Backend(t)
  BY <1>1, CommitCases DEF Backend, PrepareView, PrepareRemoval, FetchWindow
<1>2. CASE \E t \in Tasks : Continue(t)
  BY ZenonT(40), <1>2 DEF Continue, PageReply, ViewSucceeded, ViewFailed, RepaintReply, SettleReply,
              RangeReply, RowsDeleted, RemoveReply
<1>3. CASE \E t \in Tasks : User(t) \/ RequestPage(t)
  BY <1>3 DEF User, SortResults, ApplyFilters, RetryViewChange, RequestView, BeginDelete,
              RequestPage
<1>4. CASE UNCHANGED vars
  BY <1>4 DEF vars
<1>5. QED BY <1>1, <1>2, <1>3, <1>4 DEF Next

LEMMA WriteIsChange ==
  ASSUME IInv, NEW t \in Tasks, NEW spec, NEW tombstones, Writes(t, spec, tombstones)
  PROVE  Register!Next
<1>1. slot' = [version |-> slot.version + 1, spec |-> spec, tombstones |-> tombstones,
               view |-> task[t].view]
  BY DEF Writes, Write
<1>2. task[t].view = Selected(spec) \ tombstones
  BY WriteFacts
<1>3. Register!Change(spec, tombstones)
  BY <1>1, <1>2 DEF Register!Change
<1>4. CASE task[t].call = "view" /\ tombstones = slot.tombstones
  BY <1>3, <1>4, WriteFacts DEF Register!SetView, Register!Next
<1>5. CASE task[t].call = "remove" /\ spec = slot.spec
  <2>1. task[t].rows \in (SUBSET Rows) \ {{}} /\ tombstones = slot.tombstones \cup task[t].rows
    BY <1>5, WriteFacts
  <2>2. QED BY <1>3, <1>5, <2>1 DEF Register!Remove, Register!Next
<1>6. QED BY <1>4, <1>5 DEF Writes

\* The view of a result is one atomic register: although sorts, filters and deletes are
\* computed outside any lock and retried, every version is one change of the version
\* before, no change is lost, and deleted rows never come back (commit_result_view,
\* remove_result_rows_impl).
THEOREM SlotImplementsRegister == Spec => ImplementsRegister
<1>1. Init => Register!Init
  BY DEF Init, Register!Init
<1>2. IInv /\ [Next]_vars => [Register!Next]_(Register!registerVars)
  <2> SUFFICES ASSUME IInv, [Next]_vars PROVE [Register!Next]_(Register!registerVars)
    OBVIOUS
  <2>1. CASE UNCHANGED slot
    BY <2>1 DEF Register!registerVars
  <2>2. CASE \E t \in Tasks : \E spec, tombstones : Writes(t, spec, tombstones)
    BY <2>2, WriteIsChange
  <2>3. QED BY <2>1, <2>2, SlotSteps
<1>3. QED BY <1>1, <1>2, InductiveInvariant, PTL DEF Spec, ImplementsRegister, Register!Spec

----------
(***************************************************************************)
(* The grid converges.  First, what holds however replies overtake each    *)
(* other; then, what holds as long as none of the named gaps was hit: what *)
(* is still to be painted has somebody who will paint it, and who changed  *)
(* the view and was not heard of yet can still be named.                   *)
(***************************************************************************)

\* t waits for the backend, or for its reply to be handled, on behalf of one of calls.
Busy(t, calls)   == task[t].pc # "idle" /\ task[t].call \in calls
Asked(t, calls)  == task[t].pc \in {"sent", "checked"} /\ task[t].call \in calls
Brings(t, calls) == task[t].pc = "answered" /\ task[t].reply = "ok" /\ task[t].call \in calls

Fetched == {"repaint", "settle"}
Showing == {"view", "repaint", "settle"}
Changes == {"view", "remove"}

Newest(t) == Busy(t, Showing) /\ task[t].seq = request.seq
Older(t)  == Busy(t, {"view"}) /\ task[t].seq # request.seq

\* t has deleted rows for the slot.
Owes(t) == Busy(t, {"remove"}) /\ task[t].pc # "deleting" /\ ~Brings(t, {"remove"})

\* Deleted rows are on their way to the slot, or the user was told.
DeletedInv ==
    request.outdated = TRUE \/
    \A r \in deleted : r \in slot.tombstones \/ \E t \in Tasks : Owes(t) /\ r \in task[t].rows

\* A request has one handler.
SeqInv ==
    /\ \A t \in Tasks : Busy(t, Showing) => task[t].seq <= request.seq
    /\ \A t, u \in Tasks : Busy(t, Showing) /\ Busy(u, Showing) /\ task[t].seq = task[u].seq
                             => t = u

\* A handler names no version before it is made; it knows the spec of the version it made,
\* and the rows deleted from it while it is current.
HandlerGrid(t) ==
    /\ task[t].pc = "deleting" => task[t].call = "remove"
    /\ Asked(t, Changes \cup Fetched) => task[t].base <= slot.version
    /\ task[t].pc = "answered" => task[t].version <= slot.version
    /\ Brings(t, {"view"}) => committed[task[t].version].spec = task[t].spec
    /\ Brings(t, Changes) /\ task[t].version = slot.version
          => task[t].tombstones = slot.tombstones

\* Neither does the grid.
GridInv ==
    /\ request.known <= slot.version /\ surface.version <= request.known
    /\ committed[slot.version].spec = slot.spec
    /\ request.success # None =>
          /\ request.success.version <= request.known
          /\ committed[request.success.version].spec = request.success.spec
          /\ request.success.version = slot.version
                => request.success.live = Rows \ slot.tombstones

GInv == DeletedInv /\ SeqInv /\ GridInv /\ \A t \in Tasks : HandlerGrid(t)

\* A delete that will paint the current version.
Painter(t) == Brings(t, {"remove"}) /\ task[t].version = slot.version
Removal == \E t \in Tasks : Painter(t)

\* The latest request.
NewestView(t) == Newest(t) /\ task[t].call = "view"

\* It is still to be committed, or refused.
Open(t) == NewestView(t) /\ ~Brings(t, {"view"})

\* t works on the current version.
OnCurrent(t) == \/ Asked(t, Fetched) /\ task[t].base = slot.version
                \/ Brings(t, Fetched) /\ task[t].version = slot.version

\* The current version will be painted.
PaintInv ==
    \/ surface.version = slot.version
    \/ Removal
    \/ \E t \in Tasks : NewestView(t)
    \/ \E t \in Tasks : OnCurrent(t)

\* u commits, and committed, nothing at or after version v.
Behind(u, v) == /\ Asked(u, {"view"}) => task[u].base < v
                /\ Brings(u, {"view"}) => task[u].version < v

\* A request that is not the latest changes nothing behind the back of the latest.
OlderInv ==
    /\ (\E t \in Tasks : Open(t)) \/ \A u \in Tasks : Older(u) => Behind(u, slot.version)
    /\ \A t, u \in Tasks : NewestView(t) /\ Brings(t, {"view"}) /\ Older(u) =>
                             Behind(u, task[t].version)

\* A view request made version j, and its success is still to be handled.
Unheard(j) == \E t \in Tasks : Brings(t, {"view"}) /\ task[t].version = j

\* Between two versions of different specs the view was changed, by the last success or
\* one before it, or by a request not heard of.
SpecsInv ==
    \A i, k \in 1 .. slot.version :
        i < k /\ committed[i].spec # committed[k].spec =>
            \E j \in i + 1 .. k :
                (request.success # None /\ j <= request.success.version) \/ Unheard(j)

\* Who made the current version is still to be heard of, or it was painted or noted.
MakerInv ==
    \/ Removal \/ Unheard(slot.version)
    \/ surface.version = slot.version
    \/ request.success # None /\ request.success.version = slot.version

\* The row count of the current version is right, or will be.
CountInv ==
    /\ surface.version = slot.version => surface.live = Rows \ slot.tombstones \/ Removal
    /\ \A t \in Tasks : OnCurrent(t) => Removal \/ surface.version = slot.version

\* What t is to paint has the spec of its version, and the latest handler goes for the
\* spec the user chose last.
LabelOK(t) ==
    /\ Asked(t, Fetched) =>
          task[t].base \in 1 .. slot.version /\ committed[task[t].base].spec = task[t].spec
    /\ Brings(t, Fetched) => committed[task[t].version].spec = task[t].spec
    /\ Newest(t) => task[t].spec = request.spec
    /\ Newest(t) /\ task[t].call \in Fetched => task[t].spec = slot.spec

\* So has what is painted, and the spec the user sees chosen is the current one unless a
\* request works on it.
LabelInv ==
    /\ surface.spec = committed[surface.version].spec
    /\ \A t \in Tasks : LabelOK(t)
    /\ (\E t \in Tasks : Newest(t)) \/ request.spec = slot.spec

CalmInv == PaintInv /\ OlderInv /\ SpecsInv /\ MakerInv /\ CountInv /\ LabelInv

CInv == raced = {} => CalmInv

Inv == IInv /\ GInv /\ CInv

----------
(* What a step of one handler keeps. *)

\* Only t moves.
Others(t) == \A u \in Tasks : u # t => task'[u] = task[u]

\* t takes no part in showing a view, and does not bring the current version.
Aside(t) == ~Busy(t, Showing) /\ ~Painter(t)

SlotKept == slot' = slot /\ committed' = committed /\ deleted' = deleted

GridTyped ==
    /\ slot.version \in Nat \ {0} /\ request.known \in Nat /\ surface.version \in Nat
    /\ request.seq \in Nat /\ surface.version # 0
    /\ request.success # None => request.success.version \in Nat \ {0}
    /\ \A t \in Tasks : task[t].seq \in Nat /\ task[t].base \in Nat /\ task[t].version \in Nat
    /\ \A t \in Tasks : task[t].pc = "answered" /\ task[t].reply = "ok" =>
                          task[t].version \in 1 .. slot.version

LEMMA GridTypes == ASSUME IInv PROVE GridTyped
<1>1. slot.version \in Nat \ {0} /\ surface.version \in Nat \ {0}
  BY DEF IInv, SlotInv, SurfaceInv, Versions
<1>2. request.known \in Nat /\ request.seq \in Nat
  BY BoundAssumption DEF IInv, RequestInv, Versions
<1>3. request.success # None => request.success.version \in Nat \ {0}
  BY <1>1 DEF IInv, RequestInv, Success, ViewOf
<1>4. \A t \in Tasks : task[t].seq \in Nat /\ task[t].base \in Nat /\ task[t].version \in Nat
  BY TaskTypes DEF IInv
<1>5. \A t \in Tasks : task[t].pc = "answered" /\ task[t].reply = "ok" =>
                         task[t].version \in 1 .. slot.version
  BY TaskTypes DEF IInv, HandlerInv, Carries, ViewOf
<1> QED BY <1>1, <1>2, <1>3, <1>4, <1>5 DEF GridTyped

\* A handler that does not move stays what it is.
LEMMA StaySame ==
  ASSUME NEW t, Others(t), slot'.version = slot.version, NEW u \in Tasks, u # t
  PROVE  /\ task'[u] = task[u]
         /\ OnCurrent(u)' <=> OnCurrent(u)
         /\ Painter(u)' <=> Painter(u)
         /\ Owes(u)' <=> Owes(u)
         /\ request'.seq = request.seq => /\ Newest(u)' <=> Newest(u)
                                          /\ NewestView(u)' <=> NewestView(u)
                                          /\ Open(u)' <=> Open(u)
                                          /\ Older(u)' <=> Older(u)
BY DEF Others, OnCurrent, Painter, Owes, Newest, NewestView, Open, Older, Asked, Brings, Busy

LEMMA DeletedKept ==
  ASSUME DeletedInv, NEW t \in Tasks, Others(t), SlotKept,
         request.outdated = TRUE => request'.outdated = TRUE,
         Owes(t) => Owes(t)' /\ task'[t].rows = task[t].rows
  PROVE  DeletedInv'
<1>1. CASE request.outdated = TRUE
  BY <1>1 DEF DeletedInv
<1>2. CASE request.outdated # TRUE
  <2>1. ASSUME NEW r \in deleted, r \notin slot.tombstones
        PROVE  \E u \in Tasks : Owes(u)' /\ r \in task'[u].rows
    <3>1. PICK u \in Tasks : Owes(u) /\ r \in task[u].rows
      BY <1>2, <2>1 DEF DeletedInv
    <3>2. Owes(u)' /\ task'[u].rows = task[u].rows
      BY <3>1, StaySame DEF SlotKept
    <3> QED BY <3>1, <3>2
  <2> QED BY <2>1 DEF DeletedInv, SlotKept
<1> QED BY <1>1, <1>2

LEMMA SeqKept ==
  ASSUME SeqInv, NEW t \in Tasks, Others(t), request'.seq = request.seq,
         Busy(t, Showing)' => Busy(t, Showing) /\ task'[t].seq = task[t].seq
  PROVE  SeqInv'
<1>1. \A u \in Tasks : Busy(u, Showing)' => Busy(u, Showing) /\ task'[u].seq = task[u].seq
  BY DEF Others, Busy
<1> QED BY <1>1 DEF SeqInv

LEMMA HandlersKept ==
  ASSUME \A u \in Tasks : HandlerGrid(u), NEW t \in Tasks, Others(t), SlotKept, HandlerGrid(t)'
  PROVE  \A u \in Tasks : HandlerGrid(u)'
<1>1. ASSUME NEW u \in Tasks, u # t PROVE HandlerGrid(u)'
  <2>1. task'[u] = task[u] /\ HandlerGrid(u)
    BY <1>1 DEF Others
  <2> QED BY <2>1 DEF HandlerGrid, SlotKept, Asked, Brings
<1> QED BY <1>1

LEMMA GridKept ==
  ASSUME GridInv, SlotKept, surface'.version = surface.version,
         request'.success = request.success, request'.known >= request.known,
         request'.known <= slot.version, GridTyped, request'.known \in Nat
  PROVE  GridInv'
BY DEF GridInv, SlotKept, GridTyped

\* What matters about the surface and the request.
Unpainted == /\ surface'.version = surface.version /\ surface'.spec = surface.spec
             /\ surface'.live = surface.live
Unasked   == /\ request'.seq = request.seq /\ request'.known = request.known
             /\ request'.spec = request.spec /\ request'.success = request.success

\* A handler aside changes nothing about the calm.
LEMMA AsideKeepsCalm ==
  ASSUME CalmInv, NEW t \in Tasks, Others(t), UNCHANGED <<slot, committed>>, Unpainted,
         request'.seq = request.seq, request'.spec = request.spec,
         request'.success = request.success, Aside(t), Aside(t)'
  PROVE  CalmInv'
<1>1. /\ ~Newest(t) /\ ~Older(t) /\ ~Painter(t) /\ ~OnCurrent(t) /\ ~Brings(t, {"view"})
      /\ ~Newest(t)' /\ ~Older(t)' /\ ~Painter(t)' /\ ~OnCurrent(t)' /\ ~Brings(t, {"view"})'
  BY DEF Aside, Newest, Older, OnCurrent, Brings, Asked, Busy, Showing, Fetched
<1>2. \A u \in Tasks : /\ u # t => task'[u] = task[u]
                       /\ Newest(u)' <=> Newest(u)
                       /\ NewestView(u)' <=> NewestView(u)
                       /\ Open(u)' <=> Open(u)
                       /\ Older(u)' <=> Older(u)
                       /\ Painter(u)' <=> Painter(u)
                       /\ OnCurrent(u)' <=> OnCurrent(u)
  BY <1>1, StaySame DEF NewestView, Open
<1>3. (Removal' <=> Removal) /\ \A j : Unheard(j)' <=> Unheard(j)
  BY <1>1, <1>2 DEF Removal, Unheard, Brings
<1>4. PaintInv'
  BY <1>2, <1>3 DEF CalmInv, PaintInv, Unpainted
<1>5. OlderInv'
  BY <1>1, <1>2 DEF CalmInv, OlderInv, Behind, Asked, Brings, NewestView
<1>6. SpecsInv'
  BY <1>3 DEF CalmInv, SpecsInv
<1>7. MakerInv'
  BY <1>3 DEF CalmInv, MakerInv, Unpainted
<1>8. CountInv'
  BY <1>2, <1>3 DEF CalmInv, CountInv, Unpainted
<1>9. LabelInv'
  <2>1. LabelOK(t)'
    BY <1>1 DEF Aside, LabelOK, Newest, Asked, Brings, Busy, Showing, Fetched
  <2>2. ASSUME NEW u \in Tasks, u # t PROVE LabelOK(u)'
    <3>1. task'[u] = task[u] /\ LabelOK(u) /\ (Newest(u)' <=> Newest(u))
      BY <1>2, <2>2 DEF CalmInv, LabelInv
    <3> QED BY <3>1 DEF LabelOK, Asked, Brings
  <2> QED BY <1>2, <2>1, <2>2 DEF CalmInv, LabelInv, Unpainted
<1> QED BY <1>4, <1>5, <1>6, <1>7, <1>8, <1>9 DEF CalmInv

\* What the three ways to move on leave in the handler's hands.
Sent(t, c, base) == /\ Others(t) /\ task'[t].pc = "sent" /\ task'[t].call = c
                    /\ task'[t].base = base

Done(t) == Others(t) /\ task'[t].pc = "idle"

Replied(t, reply, version, tombstones) ==
    /\ Others(t) /\ task'[t].pc = "answered" /\ task'[t].reply = reply
    /\ task'[t].version = version /\ task'[t].tombstones = tombstones
    /\ task'[t].call = task[t].call /\ task'[t].seq = task[t].seq
    /\ task'[t].base = task[t].base /\ task'[t].spec = task[t].spec
    /\ task'[t].rows = task[t].rows /\ task'[t].live = task[t].live

LEMMA SentFacts ==
  ASSUME TaskInv, NEW t \in Tasks, NEW c, NEW base, NEW locals \in Task,
         Send(t, c, base, locals)
  PROVE  /\ Sent(t, c, base) /\ task'[t].seq = locals.seq /\ task'[t].spec = locals.spec
         /\ task'[t].rows = locals.rows /\ task'[t].live = locals.live
<1> DEFINE k == [locals EXCEPT !.pc = "sent", !.call = c, !.base = base, !.reply = "none",
                               !.version = 0, !.view = {}, !.tombstones = {}]
<1>1. /\ k.pc = "sent" /\ k.call = c /\ k.base = base /\ k.seq = locals.seq
      /\ k.spec = locals.spec /\ k.rows = locals.rows /\ k.live = locals.live
  BY DEF Task
<1>2. task' = [task EXCEPT ![t] = k]
  BY DEF Send
<1> HIDE DEF k
<1>3. task'[t] = k /\ Others(t)
  BY <1>2 DEF TaskInv, Others
<1> QED BY <1>1, <1>3 DEF Sent

LEMMA DoneFacts ==
  ASSUME TaskInv, NEW t \in Tasks, Finish(t)
  PROVE  Done(t)
<1>1. task'[t] = Idle /\ Others(t)
  BY DEF TaskInv, Finish, Others
<1> QED BY <1>1 DEF Done, Idle

LEMMA RepliedFacts ==
  ASSUME TaskInv, NEW t \in Tasks, NEW reply, NEW version, NEW view, NEW tombstones,
         Answer(t, reply, version, view, tombstones)
  PROVE  Replied(t, reply, version, tombstones)
<1>1. PICK k : k = [task[t] EXCEPT !.pc = "answered", !.reply = reply, !.version = version,
                                   !.view = view, !.tombstones = tombstones]
  OBVIOUS
<1>2. task[t] \in Task
  BY TaskTypes
<1>3. /\ k.pc = "answered" /\ k.reply = reply /\ k.version = version
      /\ k.tombstones = tombstones /\ k.call = task[t].call /\ k.seq = task[t].seq
      /\ k.base = task[t].base /\ k.spec = task[t].spec /\ k.rows = task[t].rows
      /\ k.live = task[t].live
  BY <1>1, <1>2 DEF Task
<1>4. task' = [task EXCEPT ![t] = k]
  BY <1>1 DEF Answer, TaskInv
<1>5. task'[t] = k /\ Others(t)
  BY <1>4 DEF TaskInv, Others
<1> QED BY <1>3, <1>5 DEF Replied

LEMMA PreparedFacts ==
  ASSUME TaskInv, NEW t \in Tasks, NEW view, NEW tombstones, Prepared(t, view, tombstones)
  PROVE  /\ Others(t) /\ task'[t].pc = "checked" /\ task'[t].call = task[t].call
         /\ task'[t].seq = task[t].seq /\ task'[t].base = task[t].base
         /\ task'[t].spec = task[t].spec /\ task'[t].rows = task[t].rows
<1>1. PICK k : k = [task[t] EXCEPT !.pc = "checked", !.view = view,
                                   !.tombstones = tombstones]
  OBVIOUS
<1>2. task[t] \in Task
  BY TaskTypes
<1>3. /\ k.pc = "checked" /\ k.call = task[t].call /\ k.seq = task[t].seq
      /\ k.base = task[t].base /\ k.spec = task[t].spec /\ k.rows = task[t].rows
  BY <1>1, <1>2 DEF Task
<1>4. task' = [task EXCEPT ![t] = k]
  BY <1>1 DEF Prepared, TaskInv
<1>5. task'[t] = k /\ Others(t)
  BY <1>4 DEF TaskInv, Others
<1> QED BY <1>3, <1>5

----------
(* Windows, and deletes before they reach the backend. *)

\* A handler aside that owes the slot no rows afterwards, or the rows it owed.
LEMMA AsideKeeps ==
  ASSUME IInv, GInv, CInv, NEW t \in Tasks, Others(t), SlotKept, Unpainted, Unasked,
         request.outdated = TRUE => request'.outdated = TRUE,
         raced' = raced, Aside(t), Aside(t)', HandlerGrid(t)',
         Owes(t) => Owes(t)' /\ task'[t].rows = task[t].rows
  PROVE  GInv' /\ CInv'
<1>1. GridTyped
  BY GridTypes
<1>2. DeletedInv'
  BY DeletedKept DEF GInv
<1>3. SeqInv'
  BY SeqKept DEF GInv, Unasked, Aside
<1>4. \A u \in Tasks : HandlerGrid(u)'
  BY HandlersKept DEF GInv
<1>5. GridInv'
  BY <1>1 DEF GInv, GridInv, SlotKept, Unpainted, Unasked
<1>6. CInv'
  BY AsideKeepsCalm DEF CInv, Unasked, SlotKept
<1> QED BY <1>2, <1>3, <1>4, <1>5, <1>6 DEF GInv

LEMMA RequestPageConverges ==
  ASSUME IInv, GInv, CInv, NEW t \in Tasks, RequestPage(t)
  PROVE  GInv' /\ CInv'
<1>1. PICK base, locals : /\ base = surface.version
                          /\ locals = [Idle EXCEPT !.generation = surface.generation]
  OBVIOUS
<1>2. locals \in Task
  BY <1>1, IdleType DEF IInv, Task, SurfaceInv
<1>3. Sent(t, "page", base) /\ task[t].pc = "idle"
  BY <1>1, <1>2, SentFacts DEF IInv, RequestPage, IsIdle
<1> QED BY <1>3, AsideKeeps DEF RequestPage, Sent, SlotKept, Unpainted, Unasked, Aside,
          HandlerGrid, Owes, Busy, Asked, Brings, Painter, Showing, Changes, Fetched

LEMMA PageReplyConverges ==
  ASSUME IInv, GInv, CInv, NEW t \in Tasks, PageReply(t)
  PROVE  GInv' /\ CInv'
<1>1. Done(t) /\ task[t].call = "page"
  BY DoneFacts DEF IInv, PageReply, Answered
<1>2. Unpainted
  BY DEF IInv, SurfaceInv, PageReply, Unpainted
<1> QED BY <1>1, <1>2, AsideKeeps DEF PageReply, Done, SlotKept, Unasked, Aside,
          HandlerGrid, Owes, Busy, Asked, Brings, Painter, Showing, Changes, Fetched

\* The rows a delete will send are known, or it reads on.
LEMMA ResolvedKeeps ==
  ASSUME IInv, GInv, CInv, NEW t \in Tasks, NEW checked, NEW rows,
         Resolved(t, checked, rows), task[t].pc = "idle" \/ task[t].call = "range",
         UNCHANGED <<slot, surface, request, deleted, committed, raced>>
  PROVE  GInv' /\ CInv'
<1> DEFINE k == [Idle EXCEPT !.pc = "deleting", !.call = "remove",
                             !.checked = checked, !.rows = rows]
<1>1. k.pc = "deleting" /\ k.call = "remove"
  BY DEF Idle
<1>2. task' = [task EXCEPT ![t] = k]
  BY DEF Resolved
<1> HIDE DEF k
<1>3. task'[t] = k /\ Others(t)
  BY <1>2 DEF IInv, TaskInv, Others
<1> QED BY <1>1, <1>3, AsideKeeps DEF SlotKept, Unpainted, Unasked, Aside,
          HandlerGrid, Owes, Busy, Asked, Brings, Painter, Showing, Changes, Fetched

LEMMA RangeKeeps ==
  ASSUME IInv, GInv, CInv, NEW t \in Tasks, NEW base, NEW locals \in Task,
         Send(t, "range", base, locals), task[t].pc = "idle" \/ task[t].call = "range",
         UNCHANGED <<slot, surface, request, deleted, committed, raced>>
  PROVE  GInv' /\ CInv'
<1>1. Sent(t, "range", base)
  BY SentFacts DEF IInv
<1> QED BY <1>1, AsideKeeps DEF Sent, SlotKept, Unpainted, Unasked, Aside,
          HandlerGrid, Owes, Busy, Asked, Brings, Painter, Showing, Changes, Fetched

LEMMA BeginDeleteConverges ==
  ASSUME IInv, GInv, CInv, NEW t \in Tasks, BeginDelete(t)
  PROVE  GInv' /\ CInv'
<1>1. PICK rows \in (SUBSET surface.page) \ {{}} :
        \/ Resolved(t, rows, rows)
        \/ Send(t, "range", surface.version,
                [Idle EXCEPT !.checked = rows, !.rest = rows, !.from = surface.version])
  BY DEF BeginDelete
<1>2. /\ UNCHANGED <<slot, surface, request, deleted, committed, raced>>
      /\ surface.page # None /\ task[t].pc = "idle"
  BY DEF BeginDelete, IsIdle
<1>3. rows \in SUBSET Rows /\ surface.version \in Nat
  BY <1>1, <1>2 DEF IInv, SurfaceInv, Versions
<1>4. CASE Resolved(t, rows, rows)
  BY <1>2, <1>4, ResolvedKeeps
<1>5. CASE Send(t, "range", surface.version,
                [Idle EXCEPT !.checked = rows, !.rest = rows, !.from = surface.version])
  <2>1. PICK base, locals :
          /\ base = surface.version
          /\ locals = [Idle EXCEPT !.checked = rows, !.rest = rows, !.from = surface.version]
    OBVIOUS
  <2>2. locals \in Task
    BY <1>3, <2>1, IdleType DEF IInv, Task
  <2>3. Send(t, "range", base, locals)
    BY <1>5, <2>1
  <2> QED BY <1>2, <2>2, <2>3, RangeKeeps
<1> QED BY <1>1, <1>4, <1>5

LEMMA RangeReplyConverges ==
  ASSUME IInv, GInv, CInv, NEW t \in Tasks, RangeReply(t)
  PROVE  GInv' /\ CInv'
<1>1. Answered(t, "range") /\ UNCHANGED <<slot, surface, request, deleted, committed, raced>>
  BY DEF RangeReply
<1>2. CASE Finish(t)
  <2>1. Done(t) /\ task[t].call = "range"
    BY <1>1, <1>2, DoneFacts DEF IInv, Answered
  <2> QED BY <1>1, <2>1, AsideKeeps DEF Done, SlotKept, Unpainted, Unasked, Aside,
            HandlerGrid, Owes, Busy, Asked, Brings, Painter, Showing, Changes, Fetched
<1>3. CASE \E checked, rows : Resolved(t, checked, rows)
  BY <1>1, <1>3, ResolvedKeeps DEF Answered
<1>4. CASE \E range \in SUBSET task[t].rest :
             Send(t, "range", surface.version,
                  [task[t] EXCEPT
                     !.rows = task[t].rows \cup RowsAt(range, task[t].from, task[t].version),
                     !.rest = task[t].rest \ range])
           /\ task[t].reply = "ok"
  <2>1. PICK range \in SUBSET task[t].rest :
             Send(t, "range", surface.version,
                  [task[t] EXCEPT
                     !.rows = task[t].rows \cup RowsAt(range, task[t].from, task[t].version),
                     !.rest = task[t].rest \ range])
    BY <1>4
  <2>2. PICK base, more, locals :
          /\ base = surface.version
          /\ more = RowsAt(range, task[t].from, task[t].version)
          /\ locals = [task[t] EXCEPT !.rows = task[t].rows \cup more,
                                      !.rest = task[t].rest \ range]
    OBVIOUS
  <2>3. more \in SUBSET Rows
    BY <1>1, <1>4, <2>2, ReplyFacts, RowsAtType DEF IInv, Answered
  <2>4. locals \in Task
    <3>1. task[t] \in Task /\ TaskInv
      BY TaskTypes DEF IInv
    <3>2. task[t].rows \cup more \in SUBSET Rows /\ task[t].rest \ range \in SUBSET Rows
      BY <2>3, <3>1 DEF Task
    <3> QED BY <2>2, <3>1, <3>2 DEF Task
  <2>5. Send(t, "range", base, locals)
    BY <2>1, <2>2
  <2> QED BY <1>1, <2>4, <2>5, RangeKeeps DEF Answered
<1> QED BY <1>2, <1>3, <1>4 DEF RangeReply

\* MySQL deleted rows: the handler owes them to the slot from now on.
LEMMA RowsDeletedConverges ==
  ASSUME IInv, GInv, CInv, NEW t \in Tasks, RowsDeleted(t)
  PROVE  GInv' /\ CInv'
<1>1. PICK rows \in SUBSET (task[t].rows \ deleted) :
        /\ deleted' = deleted \cup rows
        /\ IF rows = {} THEN Finish(t)
           ELSE Send(t, "remove", request.known, [Idle EXCEPT !.rows = rows])
  BY DEF RowsDeleted
<1>2. UNCHANGED <<slot, surface, request, committed, raced>> /\ task[t].pc = "deleting"
      /\ GridTyped
  BY GridTypes DEF RowsDeleted
<1>3. rows \in SUBSET Rows
  BY <1>1, TaskTypes DEF IInv
<1>4. ~Owes(t) /\ ~Brings(t, Changes) /\ ~Asked(t, Changes \cup Fetched)
  BY <1>2 DEF Owes, Busy, Brings, Asked
<1>5. Aside(t)
  BY <1>2 DEF GInv, HandlerGrid, Aside, Busy, Painter, Brings, Showing
<1>6. CASE rows = {}
  <2>1. Done(t) /\ deleted' = deleted
    BY <1>1, <1>6, DoneFacts DEF IInv
  <2> QED BY <1>2, <1>4, <1>5, <2>1, AsideKeeps DEF Done, SlotKept, Unpainted, Unasked,
            Aside, HandlerGrid, Owes, Busy, Asked, Brings, Painter, Showing, Changes, Fetched
<1>7. CASE rows # {}
  <2>1. PICK base, locals : base = request.known /\ locals = [Idle EXCEPT !.rows = rows]
    OBVIOUS
  <2>2. locals \in Task /\ locals.rows = rows
    BY <1>3, <2>1, IdleType DEF IInv, Task
  <2>3. Sent(t, "remove", base) /\ task'[t].rows = rows
    <3>1. Send(t, "remove", base, locals) /\ TaskInv
      BY <1>1, <1>7, <2>1 DEF IInv
    <3> QED BY <2>2, <3>1, SentFacts
  <2>4. Aside(t)' /\ HandlerGrid(t)' /\ Owes(t)'
    BY <1>2, <2>1, <2>3 DEF Sent, Aside, HandlerGrid, Owes, Busy, Asked, Brings, Painter,
       Showing, Changes, GInv, GridInv
  <2>5. DeletedInv'
    <3>1. ASSUME NEW r \in deleted', request.outdated # TRUE, r \notin slot.tombstones
          PROVE  \E u \in Tasks : Owes(u)' /\ r \in task'[u].rows
      <4>1. CASE r \in rows
        BY <2>3, <2>4, <4>1
      <4>2. CASE r \in deleted
        <5>1. PICK u \in Tasks : Owes(u) /\ r \in task[u].rows
          BY <3>1, <4>2 DEF GInv, DeletedInv
        <5> QED BY <1>2, <1>4, <2>3, <5>1, StaySame DEF Sent
      <4> QED BY <1>1, <3>1, <4>1, <4>2
    <3> QED BY <1>2, <3>1 DEF DeletedInv
  <2>6. SeqInv'
    BY <1>2, <1>5, <2>3, <2>4, SeqKept DEF GInv, Sent, Aside
  <2>7. ASSUME NEW u \in Tasks PROVE HandlerGrid(u)'
    <3>1. CASE u # t
      <4>1. task'[u] = task[u] /\ HandlerGrid(u)
        BY <2>3, <3>1 DEF Sent, Others, GInv
      <4> QED BY <1>2, <4>1 DEF HandlerGrid, Asked, Brings
    <3> QED BY <2>4, <3>1
  <2>8. GridInv'
    BY <1>2 DEF GInv, GridInv
  <2>9. CInv'
    BY <1>2, <1>5, <2>3, <2>4, AsideKeepsCalm DEF CInv, Sent, Unpainted
  <2> QED BY <2>5, <2>6, <2>7, <2>8, <2>9 DEF GInv
<1> QED BY <1>6, <1>7

----------
(* The backend prepares and reads. *)

\* A handler that brings no commit moves between the backend's steps: the calm is kept
\* when what it promises is.
LEMMA MoveKeepsCalm ==
  ASSUME CalmInv, GridTyped, NEW t \in Tasks, Others(t), UNCHANGED <<slot, surface, committed>>,
         request'.seq = request.seq, request'.spec = request.spec,
         request'.success = request.success, Newest(t)' <=> Newest(t), Older(t)' <=> Older(t), Open(t) => Open(t)',
         NewestView(t)' <=> NewestView(t), Painter(t)' <=> Painter(t),
         OnCurrent(t)' <=> OnCurrent(t), ~Brings(t, {"view"}), ~Brings(t, {"view"})',
         Older(t) /\ Asked(t, {"view"})' => Asked(t, {"view"}) /\ task'[t].base = task[t].base,
         LabelOK(t)'
  PROVE  CalmInv'
<1>1. \A u \in Tasks : /\ u # t => task'[u] = task[u]
                       /\ Newest(u)' <=> Newest(u)
                       /\ NewestView(u)' <=> NewestView(u)
                       /\ Open(u) => Open(u)'
                       /\ Older(u)' <=> Older(u)
                       /\ Painter(u)' <=> Painter(u)
                       /\ OnCurrent(u)' <=> OnCurrent(u)
  BY StaySame
<1>2. (Removal' <=> Removal) /\ \A j : Unheard(j)' <=> Unheard(j)
  BY <1>1 DEF Removal, Unheard, Brings
<1>3. PaintInv'
  BY <1>1, <1>2 DEF CalmInv, PaintInv
<1>4. \A u \in Tasks : \A v : Older(u) /\ Behind(u, v) => Behind(u, v)'
  BY <1>1 DEF Behind, Asked, Brings
<1>5. OlderInv'
  <2>1. (\E u \in Tasks : Open(u)) => \E u \in Tasks : Open(u)'
    BY <1>1
  <2>2. (\A u \in Tasks : Older(u) => Behind(u, slot.version)) =>
           \A u \in Tasks : Older(u)' => Behind(u, slot.version)'
    BY <1>1, <1>4
  <2>3. ASSUME NEW x \in Tasks, NEW u \in Tasks, NewestView(x)', Brings(x, {"view"})', Older(u)'
        PROVE  Behind(u, task[x].version)' /\ task'[x] = task[x]
    <3>1. x # t /\ task'[x] = task[x] /\ NewestView(x) /\ Brings(x, {"view"}) /\ Older(u)
      BY <1>1, <2>3 DEF Brings
    <3>2. Behind(u, task[x].version)
      BY <3>1 DEF CalmInv, OlderInv
    <3> QED BY <1>4, <3>1, <3>2 DEF Behind
  <2> QED BY <2>1, <2>2, <2>3 DEF CalmInv, OlderInv, Behind
<1>6. SpecsInv'
  BY <1>2 DEF CalmInv, SpecsInv
<1>7. MakerInv'
  BY <1>2 DEF CalmInv, MakerInv
<1>8. CountInv'
  BY <1>1, <1>2 DEF CalmInv, CountInv
<1>9. LabelInv'
  <2>1. ASSUME NEW u \in Tasks, u # t PROVE LabelOK(u)'
    <3>1. task'[u] = task[u] /\ LabelOK(u) /\ (Newest(u)' <=> Newest(u))
      BY <1>1, <2>1 DEF CalmInv, LabelInv
    <3> QED BY <3>1 DEF LabelOK, Asked, Brings
  <2> QED BY <1>1, <2>1 DEF CalmInv, LabelInv
<1> QED BY <1>3, <1>5, <1>6, <1>7, <1>8, <1>9 DEF CalmInv

\* The same for what holds always.
LEMMA MoveKeeps ==
  ASSUME IInv, GInv, CInv, NEW t \in Tasks, Others(t),
         UNCHANGED <<slot, surface, request, deleted, committed, raced>>,
         HandlerGrid(t)', Busy(t, Showing)' => Busy(t, Showing) /\ task'[t].seq = task[t].seq,
         Owes(t) => Owes(t)' /\ task'[t].rows = task[t].rows,
         raced = {} => CalmInv'
  PROVE  GInv' /\ CInv'
<1>1. GridTyped /\ SlotKept
  BY GridTypes DEF SlotKept
<1>2. DeletedInv'
  BY <1>1, DeletedKept DEF GInv
<1>3. SeqInv'
  BY SeqKept DEF GInv
<1>4. \A u \in Tasks : HandlerGrid(u)'
  BY <1>1, HandlersKept DEF GInv
<1>5. GridInv'
  BY DEF GInv, GridInv
<1> QED BY <1>2, <1>3, <1>4, <1>5 DEF GInv, CInv

LEMMA SupersededKeeps ==
  ASSUME IInv, GInv, CInv, NEW t \in Tasks, NEW reply \in {"superseded", "refused"},
         NEW version \in 0 .. slot.version, Replied(t, reply, version, {}),
         task[t].pc \in {"sent", "checked"}, task[t].call \in Changes,
         UNCHANGED <<slot, surface, request, deleted, committed, raced>>
  PROVE  GInv' /\ CInv'
<1>1. GridTyped
  BY GridTypes
<1>2. /\ task'[t].call = task[t].call /\ task'[t].pc = "answered" /\ task'[t].reply # "ok"
      /\ task'[t].seq = task[t].seq /\ task'[t].version = version
      /\ task'[t].rows = task[t].rows /\ Others(t) /\ task'[t].spec = task[t].spec
  BY DEF Replied
<1>3. HandlerGrid(t)'
  BY <1>1, <1>2 DEF HandlerGrid, Asked, Brings
<1>4. ASSUME raced = {} PROVE CalmInv'
  <2>1. /\ Newest(t)' <=> Newest(t)
        /\ Older(t)' <=> Older(t)
        /\ Open(t) => Open(t)'
        /\ NewestView(t)' <=> NewestView(t)
    BY <1>2 DEF Newest, Older, Open, NewestView, Busy, Brings
  <2>2. /\ ~Painter(t) /\ ~Painter(t)' /\ ~OnCurrent(t) /\ ~OnCurrent(t)'
        /\ ~Brings(t, {"view"}) /\ ~Brings(t, {"view"})' /\ ~Asked(t, {"view"})'
    BY <1>2 DEF Painter, OnCurrent, Asked, Brings, Fetched, Changes
  <2>3. LabelOK(t)'
    BY <1>2, <1>4, <2>1, <2>2 DEF CInv, CalmInv, LabelInv, LabelOK, Asked, Brings, Fetched,
       Changes
  <2> QED BY <1>1, <1>2, <2>1, <2>2, <2>3, <1>4, MoveKeepsCalm DEF CInv
<1> QED BY <1>2, <1>3, <1>4, MoveKeeps DEF Busy, Owes, Brings

\* Superseded names the current version.
LEMMA SupersededMove ==
  ASSUME IInv, GInv, CInv, NEW t \in Tasks, Superseded(t),
         task[t].pc \in {"sent", "checked"}, task[t].call \in Changes,
         UNCHANGED <<slot, surface, request, deleted, committed, raced>>
  PROVE  GInv' /\ CInv'
<1>1. PICK version : version = slot.version
  OBVIOUS
<1>2. version \in 0 .. slot.version
  BY <1>1, GridTypes DEF GridTyped
<1>3. Replied(t, "superseded", version, {})
  BY <1>1, RepliedFacts DEF IInv, Superseded
<1> QED BY <1>2, <1>3, SupersededKeeps

\* A change prepared names the version it was prepared from.
LEMMA PreparedKeeps ==
  ASSUME IInv, GInv, CInv, NEW t \in Tasks, NEW view, NEW tombstones,
         Prepared(t, view, tombstones), task[t].pc = "sent", task[t].call \in Changes,
         UNCHANGED <<slot, surface, request, deleted, committed, raced>>
  PROVE  GInv' /\ CInv'
<1>1. GridTyped
  BY GridTypes
<1>2. /\ Others(t) /\ task'[t].pc = "checked" /\ task'[t].call = task[t].call
      /\ task'[t].seq = task[t].seq /\ task'[t].base = task[t].base
      /\ task'[t].spec = task[t].spec /\ task'[t].rows = task[t].rows
  BY PreparedFacts DEF IInv
<1>3. HandlerGrid(t)'
  <2>1. HandlerGrid(t)
    BY DEF GInv
  <2> QED BY <1>1, <1>2, <2>1 DEF HandlerGrid, Asked, Brings
<1>4. ASSUME raced = {} PROVE CalmInv'
  <2>1. /\ Newest(t)' <=> Newest(t)
        /\ Older(t)' <=> Older(t)
        /\ Open(t) => Open(t)'
        /\ NewestView(t)' <=> NewestView(t)
    BY <1>2 DEF Newest, Older, Open, NewestView, Busy, Brings
  <2>2. /\ ~Painter(t) /\ ~Painter(t)' /\ ~OnCurrent(t) /\ ~OnCurrent(t)'
        /\ ~Brings(t, {"view"}) /\ ~Brings(t, {"view"})'
        /\ Asked(t, {"view"})' => Asked(t, {"view"})
    BY <1>2 DEF Painter, OnCurrent, Asked, Brings, Fetched, Changes
  <2>3. LabelOK(t)'
    BY <1>2, <1>4, <2>1, <2>2 DEF CInv, CalmInv, LabelInv, LabelOK, Asked, Brings, Fetched, Changes
  <2> QED BY <1>1, <1>2, <2>1, <2>2, <2>3, <1>4, MoveKeepsCalm DEF CInv
<1> QED BY <1>2, <1>3, <1>4, MoveKeeps DEF Busy, Owes, Brings

LEMMA PrepareViewConverges ==
  ASSUME IInv, GInv, CInv, NEW t \in Tasks, PrepareView(t)
  PROVE  GInv' /\ CInv'
<1>1. /\ task[t].pc = "sent" /\ task[t].call = "view" /\ task[t].call \in Changes
      /\ UNCHANGED <<slot, surface, request, deleted, committed, raced>>
  BY DEF PrepareView, Changes
<1>2. CASE Superseded(t)
  BY <1>1, <1>2, SupersededMove
<1>3. CASE Answer(t, "refused", 0, {}, {})
  <2>1. Replied(t, "refused", 0, {}) /\ 0 \in 0 .. slot.version
    BY <1>3, RepliedFacts, GridTypes DEF IInv, GridTyped
  <2> QED BY <1>1, <2>1, SupersededKeeps
<1>4. CASE Prepared(t, Selected(task[t].spec) \ slot.tombstones, slot.tombstones)
  BY <1>1, <1>4, PreparedKeeps
<1> QED BY <1>2, <1>3, <1>4 DEF PrepareView

LEMMA PrepareRemovalConverges ==
  ASSUME IInv, GInv, CInv, NEW t \in Tasks, PrepareRemoval(t)
  PROVE  GInv' /\ CInv'
<1>1. /\ task[t].pc = "sent" /\ task[t].call = "remove" /\ task[t].call \in Changes
      /\ UNCHANGED <<slot, surface, request, deleted, committed, raced>>
  BY DEF PrepareRemoval, Changes
<1>2. CASE Superseded(t)
  BY <1>1, <1>2, SupersededMove
<1>3. CASE Prepared(t, slot.view \ (slot.tombstones \cup task[t].rows),
                    slot.tombstones \cup task[t].rows)
  BY <1>1, <1>3, PreparedKeeps
<1> QED BY <1>2, <1>3 DEF PrepareRemoval

LEMMA FetchWindowConverges ==
  ASSUME IInv, GInv, CInv, NEW t \in Tasks, FetchWindow(t)
  PROVE  GInv' /\ CInv'
<1>1. /\ task[t].pc = "sent" /\ task[t].call \in {"repaint", "settle", "page", "range"}
      /\ UNCHANGED <<slot, surface, request, deleted, committed, raced>>
      /\ GridTyped
  BY GridTypes DEF FetchWindow
<1>2. PICK reply, version :
        /\ Replied(t, reply, version, {})
        /\ \/ reply = "stale" /\ version = 0 /\ task[t].base # slot.version
           \/ reply = "ok" /\ version = slot.version /\ task[t].base = slot.version
  <2>1. CASE slot.version # task[t].base
    BY <2>1, RepliedFacts DEF IInv, FetchWindow
  <2>2. CASE slot.version = task[t].base
    BY <2>2, RepliedFacts DEF IInv, FetchWindow
  <2> QED BY <2>1, <2>2
<1>3. /\ task'[t].call = task[t].call /\ task'[t].pc = "answered" /\ task'[t].reply = reply
      /\ task'[t].seq = task[t].seq /\ task'[t].version = version
      /\ task'[t].rows = task[t].rows /\ Others(t) /\ task'[t].spec = task[t].spec
  BY <1>2 DEF Replied
<1>4. HandlerGrid(t)'
  BY <1>1, <1>2, <1>3 DEF HandlerGrid, Asked, Brings, Changes, GridTyped
<1>5. ASSUME raced = {} PROVE CalmInv'
  <2>1. /\ Newest(t)' <=> Newest(t)
        /\ ~Older(t) /\ ~Older(t)' /\ ~NewestView(t) /\ ~NewestView(t)' /\ ~Open(t)
    BY <1>1, <1>3 DEF Newest, Older, Open, NewestView, Busy, Brings
  <2>2. /\ ~Painter(t) /\ ~Painter(t)'
        /\ ~Brings(t, {"view"}) /\ ~Brings(t, {"view"})' /\ ~Asked(t, {"view"})'
    BY <1>1, <1>3 DEF Painter, Asked, Brings
  <2>3. OnCurrent(t)' <=> OnCurrent(t)
    BY <1>1, <1>2, <1>3 DEF OnCurrent, Asked, Brings, Fetched
  <2>4. LabelOK(t)'
    BY <1>1, <1>2, <1>3, <1>5, <2>1 DEF CInv, CalmInv, LabelInv, LabelOK, Asked, Brings, Fetched
  <2> QED BY <1>1, <1>3, <1>5, <2>1, <2>2, <2>3, <2>4, MoveKeepsCalm DEF CInv
<1> QED BY <1>1, <1>3, <1>4, <1>5, MoveKeeps DEF Busy, Owes, Brings

----------
(* A view is asked for, and committed. *)

LEMMA RequestViewConverges ==
  ASSUME IInv, GInv, CInv, NEW t \in Tasks, NEW spec \in Specs, RequestView(t, spec)
  PROVE  GInv' /\ CInv'
<1>1. /\ task[t].pc = "idle" /\ request'.seq = request.seq + 1 /\ request'.spec = spec
      /\ request'.known = request.known /\ request'.success = request.success
      /\ request'.outdated = request.outdated /\ request.seq < MaxRequests
      /\ UNCHANGED <<slot, surface, deleted, committed, raced>>
  BY DEF RequestView, IsIdle, IInv, RequestInv
<1>2. GridTyped /\ SlotKept
  BY <1>1, GridTypes DEF SlotKept
<1>3. PICK base, locals : /\ base = request.known
                          /\ locals = [Idle EXCEPT !.seq = request.seq + 1, !.spec = spec]
  OBVIOUS
<1>4. locals \in Task /\ locals.seq = request.seq + 1 /\ locals.spec = spec
  <2>1. Idle \in Task /\ request.seq + 1 \in Nat
    BY <1>2, IdleType DEF IInv, GridTyped
  <2> QED BY <1>3, <2>1 DEF Task
<1>5. Sent(t, "view", base) /\ task'[t].seq = request'.seq /\ task'[t].spec = spec
  <2>1. Send(t, "view", base, locals) /\ TaskInv
    BY <1>3 DEF RequestView, IInv
  <2> QED BY <1>1, <1>4, <2>1, SentFacts
<1>6. Others(t) /\ task'[t].pc = "sent" /\ task'[t].call = "view" /\ task'[t].base = request.known
  BY <1>3, <1>5 DEF Sent
<1>7. ~Busy(t, Showing) /\ ~Owes(t) /\ ~Painter(t) /\ ~OnCurrent(t) /\ ~Brings(t, {"view"})
  BY <1>1 DEF Busy, Owes, Painter, OnCurrent, Asked, Brings
<1>8. \A u \in Tasks : u # t => /\ Busy(u, Showing)' <=> Busy(u, Showing)
                                /\ ~Newest(u)' /\ task'[u] = task[u]
  BY <1>1, <1>2, <1>6 DEF Others, Busy, Newest, GInv, SeqInv, GridTyped
<1>9. Newest(t)' /\ NewestView(t)' /\ Open(t)' /\ ~Older(t)'
  BY <1>5, <1>6 DEF Newest, NewestView, Open, Older, Busy, Brings, Showing
<1>10. DeletedInv'
  BY <1>1, <1>2, <1>6, <1>7, DeletedKept DEF GInv
<1>11. SeqInv'
  BY <1>1, <1>2, <1>5, <1>8 DEF GInv, SeqInv, GridTyped
<1>12. \A u \in Tasks : HandlerGrid(u)'
  <2>1. HandlerGrid(t)'
    BY <1>1, <1>2, <1>6 DEF HandlerGrid, Brings, Asked, GInv, GridInv
  <2> QED BY <1>2, <1>6, <2>1, HandlersKept DEF GInv
<1>13. GridInv'
  BY <1>1 DEF GInv, GridInv
<1>14. ASSUME raced = {} PROVE CalmInv'
  <2>1. \A u \in Tasks : /\ u # t => (OnCurrent(u)' <=> OnCurrent(u))
                         /\ Painter(u)' <=> Painter(u)
                         /\ Brings(u, {"view"})' <=> Brings(u, {"view"})
                         /\ Brings(u, {"view"})' => task'[u] = task[u] /\ u # t
    BY <1>1, <1>6, <1>7, StaySame DEF Painter, Brings
  <2>2. (Removal' <=> Removal) /\ \A j : Unheard(j)' <=> Unheard(j)
    BY <2>1 DEF Removal, Unheard
  <2>3. ~OnCurrent(t)' /\ ~Asked(t, Fetched)' /\ ~Brings(t, Fetched)'
    BY <1>6 DEF OnCurrent, Asked, Brings, Fetched
  <2>4. PaintInv'
    BY <1>9 DEF PaintInv
  <2>5. OlderInv'
    <3>1. \A u \in Tasks : NewestView(u)' => u = t
      BY <1>8 DEF NewestView
    <3> QED BY <1>9, <2>1, <3>1 DEF OlderInv
  <2>6. SpecsInv'
    BY <1>1, <1>14, <2>2 DEF CInv, CalmInv, SpecsInv
  <2>7. MakerInv'
    BY <1>1, <1>14, <2>2 DEF CInv, CalmInv, MakerInv
  <2>8. CountInv'
    BY <1>1, <1>14, <2>1, <2>2, <2>3 DEF CInv, CalmInv, CountInv
  <2>9. LabelInv'
    <3>1. LabelOK(t)'
      BY <1>1, <1>5, <1>6, <2>3 DEF LabelOK, Fetched
    <3>2. ASSUME NEW u \in Tasks, u # t PROVE LabelOK(u)'
      <4>1. task'[u] = task[u] /\ LabelOK(u) /\ ~Newest(u)'
        BY <1>8, <1>14, <3>2 DEF CInv, CalmInv, LabelInv
      <4> QED BY <1>1, <4>1 DEF LabelOK, Asked, Brings
    <3> QED BY <1>1, <1>9, <1>14, <3>1, <3>2 DEF CInv, CalmInv, LabelInv
  <2> QED BY <2>4, <2>5, <2>6, <2>7, <2>8, <2>9 DEF CalmInv
<1> QED BY <1>1, <1>10, <1>11, <1>12, <1>13, <1>14 DEF GInv, CInv

LEMMA UserRequestConverges ==
  ASSUME IInv, GInv, CInv, NEW t \in Tasks,
         SortResults(t) \/ ApplyFilters(t) \/ RetryViewChange(t)
  PROVE  GInv' /\ CInv'
<1>1. request.spec \in Specs /\ (request.retry = None \/ request.retry \in Specs)
  BY DEF IInv, RequestInv
<1>2. \A s \in Sorts : [request.spec EXCEPT !.sort = s] \in Specs
  BY <1>1 DEF Specs
<1>3. \A f \in Filters : [request.spec EXCEPT !.filter = f] \in Specs
  BY <1>1 DEF Specs
<1>4. \E spec \in Specs : RequestView(t, spec)
  BY <1>1, <1>2, <1>3 DEF SortResults, ApplyFilters, RetryViewChange
<1> QED BY <1>4, RequestViewConverges

\* A new version: the handler that made it brings it, the others are one version behind.
LEMMA NewVersion ==
  ASSUME IInv, GInv, NEW t \in Tasks, NEW spec, NEW tombstones, Writes(t, spec, tombstones)
  PROVE  /\ Replied(t, "ok", slot'.version, tombstones)
         /\ slot'.version = slot.version + 1 /\ slot'.spec = spec
         /\ slot'.tombstones = tombstones
         /\ \A v \in 1 .. slot.version : committed'[v] = committed[v]
         /\ committed'[slot'.version].spec = spec
         /\ task[t].pc = "checked" /\ task[t].base = slot.version
         /\ UNCHANGED <<surface, request, deleted, raced>>
         /\ \A u \in Tasks : ~OnCurrent(u)' /\ (Painter(u)' => u = t)
<1>1. /\ task[t].pc = "checked" /\ task[t].base = slot.version
      /\ UNCHANGED <<surface, request, deleted, raced>>
      /\ Write(t, spec, tombstones)
  BY DEF Writes
<1>2. slot'.version = slot.version + 1 /\ slot'.spec = spec /\ slot'.tombstones = tombstones
  BY <1>1 DEF Write
<1>3. \A v \in 1 .. slot.version : committed'[v] = committed[v]
  BY HistoryGrows
<1>4. committed'[slot'.version].spec = spec
  <2>1. committed' = Append(committed, [spec |-> spec, view |-> task[t].view])
        /\ committed \in Seq([spec : Specs, view : SUBSET Rows])
        /\ Len(committed) = slot.version
    BY <1>1 DEF Write, IInv, SlotInv
  <2> QED BY <1>2, <2>1
<1>5. Replied(t, "ok", slot'.version, tombstones)
  <2>1. PICK version : version = slot.version + 1
    OBVIOUS
  <2>2. Answer(t, "ok", version, task[t].view, tombstones) /\ TaskInv
    BY <1>1, <2>1 DEF Write, IInv
  <2> QED BY <1>2, <2>1, <2>2, RepliedFacts
<1>6. GridTyped
  BY GridTypes
<1>7. ASSUME NEW u \in Tasks PROVE ~OnCurrent(u)' /\ (Painter(u)' => u = t)
  <2>1. CASE u = t
    <3>1. task[t].call \in Changes /\ task'[t].call = task[t].call /\ task'[t].pc = "answered"
      BY <1>5 DEF Writes, Replied, Changes
    <3> QED BY <2>1, <3>1 DEF OnCurrent, Asked, Brings, Changes, Fetched
  <2>2. CASE u # t
    <3>1. task'[u] = task[u] /\ HandlerGrid(u)
      BY <1>5, <2>2 DEF Replied, Others, GInv
    <3>2. Asked(u, Fetched) => task[u].base <= slot.version
      BY <3>1 DEF HandlerGrid, Asked
    <3> QED BY <1>2, <1>6, <3>1, <3>2 DEF OnCurrent, Painter, Asked, Brings, HandlerGrid, GridTyped
  <2> QED BY <2>1, <2>2
<1> QED BY <1>1, <1>2, <1>3, <1>4, <1>5, <1>7

\* What holds always survives a write.
LEMMA WriteKeepsGrid ==
  ASSUME IInv, GInv, NEW t \in Tasks, NEW spec, NEW tombstones, Writes(t, spec, tombstones)
  PROVE  GInv'
<1>1. /\ Replied(t, "ok", slot'.version, tombstones)
      /\ slot'.version = slot.version + 1 /\ slot'.spec = spec
      /\ slot'.tombstones = tombstones
      /\ \A v \in 1 .. slot.version : committed'[v] = committed[v]
      /\ committed'[slot'.version].spec = spec
      /\ task[t].pc = "checked" /\ task[t].base = slot.version
      /\ UNCHANGED <<surface, request, deleted, raced>>
  BY NewVersion
<1>2. GridTyped
  BY GridTypes
<1>3. /\ Others(t) /\ task'[t].pc = "answered" /\ task'[t].reply = "ok"
      /\ task'[t].version = slot.version + 1 /\ task'[t].tombstones = tombstones
      /\ task'[t].call = task[t].call /\ task'[t].seq = task[t].seq
      /\ task'[t].spec = task[t].spec /\ task'[t].rows = task[t].rows
  BY <1>1 DEF Replied
<1>4. slot.tombstones \subseteq tombstones
      /\ (task[t].call = "remove" => tombstones = slot.tombstones \cup task[t].rows)
  BY WriteFacts
<1>5. task[t].call \in Changes /\ (task[t].call = "view" => spec = task[t].spec)
  BY DEF Writes, Changes
<1>6. DeletedInv'
  <2>1. ASSUME NEW r \in deleted, request.outdated # TRUE, r \notin tombstones
        PROVE  \E u \in Tasks : Owes(u)' /\ r \in task'[u].rows
    <3>1. PICK u \in Tasks : Owes(u) /\ r \in task[u].rows
      BY <1>4, <2>1 DEF GInv, DeletedInv
    <3>2. u # t
      BY <1>4, <2>1, <3>1 DEF Owes, Busy
    <3>3. Owes(u)' /\ task'[u] = task[u]
      BY <1>3, <3>1, <3>2 DEF Others, Owes, Busy, Brings
    <3> QED BY <3>1, <3>3
  <2> QED BY <1>1, <2>1 DEF DeletedInv
<1>7. SeqInv'
  BY <1>1, <1>3, SeqKept DEF GInv, Busy
<1>8. ASSUME NEW u \in Tasks PROVE HandlerGrid(u)'
  <2>1. CASE u = t
    BY <1>1, <1>2, <1>3, <1>5, <2>1 DEF HandlerGrid, Asked, Brings, GridTyped
  <2>2. CASE u # t
    <3>1. task'[u] = task[u] /\ HandlerGrid(u)
      BY <1>3, <2>2 DEF Others, GInv
    <3>2. Brings(u, {"view"}) => committed'[task[u].version] = committed[task[u].version]
      BY <1>1, <1>2 DEF Brings, GridTyped
    <3> QED BY <1>1, <1>2, <3>1, <3>2 DEF HandlerGrid, Asked, Brings, GridTyped
  <2> QED BY <2>1, <2>2
<1>9. GridInv'
  <2>1. request.success # None =>
           committed'[request.success.version] = committed[request.success.version]
    BY <1>1, <1>2 DEF GInv, GridInv, GridTyped
  <2> QED BY <1>1, <1>2, <2>1 DEF GInv, GridInv, GridTyped
<1> QED BY <1>6, <1>7, <1>8, <1>9 DEF GInv

\* The history of specs is told on: a view change brings its version itself.
LEMMA WriteKeepsSpecs ==
  ASSUME IInv, GInv, SpecsInv, NEW t \in Tasks, NEW spec, NEW tombstones,
         Writes(t, spec, tombstones)
  PROVE  SpecsInv'
<1>1. /\ Replied(t, "ok", slot'.version, tombstones)
      /\ slot'.version = slot.version + 1
      /\ \A v \in 1 .. slot.version : committed'[v] = committed[v]
      /\ committed'[slot'.version].spec = spec
      /\ task[t].pc = "checked" /\ request' = request
  BY NewVersion
<1>2. GridTyped /\ committed[slot.version].spec = slot.spec
  BY GridTypes DEF GInv, GridInv
<1>3. \A j : Unheard(j) => Unheard(j)'
  BY <1>1 DEF Unheard, Brings, Replied, Others
<1>4. ASSUME NEW i \in 1 .. slot'.version, NEW k \in 1 .. slot'.version, i < k,
             committed'[i].spec # committed'[k].spec
      PROVE  \E j \in i + 1 .. k :
                (request.success # None /\ j <= request.success.version) \/ Unheard(j)'
  <2>1. i \in 1 .. slot.version /\ committed'[i] = committed[i]
    BY <1>1, <1>2, <1>4 DEF GridTyped
  <2>2. CASE k \in 1 .. slot.version
    <3>1. committed'[k] = committed[k]
      BY <1>1, <2>2
    <3> QED BY <1>3, <1>4, <2>1, <2>2, <3>1 DEF SpecsInv
  <2>3. CASE k = slot'.version /\ task[t].call = "view"
    <3>1. Unheard(k)' /\ k \in i + 1 .. k
      BY <1>1, <1>2, <1>4, <2>3 DEF Unheard, Brings, Replied, GridTyped
    <3> QED BY <3>1
  <2>4. CASE k = slot'.version /\ task[t].call = "remove"
    <3>1. committed'[k].spec = committed[slot.version].spec
      BY <1>1, <1>2, <2>4 DEF Writes
    <3>2. i # slot.version /\ i < slot.version /\ slot.version \in 1 .. slot.version
      BY <1>2, <1>4, <2>1, <3>1 DEF GridTyped
    <3>3. PICK j \in i + 1 .. slot.version :
                (request.success # None /\ j <= request.success.version) \/ Unheard(j)
      BY <1>4, <2>1, <3>1, <3>2 DEF SpecsInv
    <3>4. j \in i + 1 .. k
      BY <1>1, <1>2, <2>1, <2>4 DEF GridTyped
    <3> QED BY <1>3, <3>3, <3>4
  <2> QED BY <1>1, <1>2, <1>4, <2>2, <2>3, <2>4 DEF Writes, GridTyped
<1> QED BY <1>1, <1>4 DEF SpecsInv

\* A removal paints the new version itself; a view request is committed while the latest
\* one is still open, or is the latest one.
LEMMA WriteKeepsCalm ==
  ASSUME IInv, GInv, CalmInv, NEW t \in Tasks, NEW spec, NEW tombstones,
         Writes(t, spec, tombstones)
  PROVE  CalmInv'
<1>1. /\ Replied(t, "ok", slot'.version, tombstones)
      /\ slot'.version = slot.version + 1 /\ slot'.spec = spec
      /\ \A v \in 1 .. slot.version : committed'[v] = committed[v]
      /\ task[t].pc = "checked" /\ task[t].base = slot.version
      /\ UNCHANGED <<surface, request, deleted, raced>>
      /\ \A u \in Tasks : ~OnCurrent(u)' /\ (Painter(u)' => u = t)
  BY NewVersion
<1>2. GridTyped
  BY GridTypes
<1>3. /\ Others(t) /\ task'[t].pc = "answered" /\ task'[t].reply = "ok"
      /\ task'[t].version = slot.version + 1 /\ task'[t].call = task[t].call
      /\ task'[t].seq = task[t].seq /\ task'[t].spec = task[t].spec
  BY <1>1 DEF Replied
<1>4. surface.version < slot'.version
      /\ (request.success # None => request.success.version < slot'.version)
  BY <1>1, <1>2 DEF GInv, GridInv, GridTyped
<1>5. \A u \in Tasks : /\ Newest(u)' <=> Newest(u)
                       /\ Older(u)' <=> Older(u)
                       /\ NewestView(u)' <=> NewestView(u)
                       /\ u # t => (Open(u)' <=> Open(u)) /\ task'[u] = task[u]
  BY <1>1, <1>3 DEF Others, Newest, Older, NewestView, Open, Busy, Brings
<1>6. \/ task[t].call = "remove" /\ Removal' /\ slot'.spec = slot.spec
      \/ task[t].call = "view" /\ Unheard(slot.version)'
  BY <1>1, <1>3 DEF Writes, Removal, Painter, Unheard, Brings
<1>7. task[t].call = "view" => \E w \in Tasks : Open(w)
  <2>1. ASSUME task[t].call = "view", Older(t) PROVE \E w \in Tasks : Open(w)
    <3>1. ~Behind(t, slot.version)
      BY <1>1, <1>2, <2>1 DEF Behind, Asked, GridTyped
    <3> QED BY <2>1, <3>1 DEF CalmInv, OlderInv
  <2>2. ASSUME task[t].call = "view", ~Older(t) PROVE Open(t)
    BY <1>1, <2>2 DEF Older, Open, NewestView, Newest, Busy, Brings, Showing
  <2> QED BY <2>1, <2>2
<1>8. task[t].call = "view" => \E w \in Tasks : NewestView(w)'
  BY <1>5, <1>7 DEF Open
<1>9. PaintInv'
  BY <1>6, <1>8 DEF PaintInv
<1>10. \A u \in Tasks : u # t => Behind(u, slot.version)'
  <2>1. ASSUME NEW u \in Tasks, u # t PROVE Behind(u, slot.version)'
    <3>1. HandlerGrid(u) /\ task'[u] = task[u]
      BY <1>5, <2>1 DEF GInv
    <3> QED BY <1>1, <1>2, <3>1 DEF HandlerGrid, Behind, Asked, Brings, Changes, GridTyped
  <2> QED BY <2>1
<1>11. OlderInv'
  <2>1. (\E w \in Tasks : Open(w)') \/ \A u \in Tasks : Older(u)' => Behind(u, slot.version)'
    <3>1. CASE Older(t)'
      <4>1. PICK w \in Tasks : Open(w)
        BY <1>5, <1>7, <3>1 DEF Older, Busy
      <4>2. w # t
        BY <1>5, <3>1, <4>1 DEF Open, NewestView, Newest, Older
      <4> QED BY <1>5, <4>1, <4>2
    <3>2. CASE ~Older(t)'
      BY <1>10, <3>2
    <3> QED BY <3>1, <3>2
  <2>2. ASSUME NEW x \in Tasks, NEW u \in Tasks, NewestView(x)', Brings(x, {"view"})', Older(u)'
        PROVE  Behind(u, task[x].version)'
    <3>1. CASE x = t
      <4>1. u # t
        BY <2>2, <3>1 DEF NewestView, Newest, Older
      <4> QED BY <1>1, <1>3, <1>10, <3>1, <4>1
    <3>2. CASE x # t
      <4>1. NewestView(x) /\ Brings(x, {"view"}) /\ Older(u) /\ task'[x] = task[x]
        BY <1>5, <2>2, <3>2 DEF Brings
      <4>2. ~Open(x) /\ \A w \in Tasks : NewestView(w) => w = x
        BY <4>1 DEF Open, NewestView, Newest, GInv, SeqInv
      <4>3. u # t
        <5>1. ASSUME u = t PROVE FALSE
          <6>1. task[t].call = "view"
            BY <4>1, <5>1 DEF Older, Busy
          <6>2. PICK w \in Tasks : Open(w)
            BY <1>7, <6>1
          <6> QED BY <4>2, <6>2 DEF Open
        <5> QED BY <5>1
      <4>4. Behind(u, task[x].version)
        BY <4>1 DEF CalmInv, OlderInv
      <4> QED BY <1>5, <4>1, <4>3, <4>4 DEF Behind, Asked, Brings
    <3> QED BY <3>1, <3>2
  <2> QED BY <2>1, <2>2 DEF OlderInv
<1>12. SpecsInv'
  BY WriteKeepsSpecs DEF CalmInv
<1>13. MakerInv'
  BY <1>6 DEF MakerInv
<1>14. CountInv'
  BY <1>1, <1>2, <1>4 DEF CountInv, GridTyped
<1>15. LabelInv'
  <2>1. surface.version \in 1 .. slot.version
    BY <1>1, <1>2, <1>4 DEF GridTyped
  <2>2. ASSUME NEW u \in Tasks PROVE LabelOK(u)'
    <3>1. LabelOK(u) /\ HandlerGrid(u)
      BY DEF CalmInv, LabelInv, GInv
    <3>2. CASE u = t
      <4>1. task'[t].call \notin Fetched
        BY <1>3, <1>6 DEF Fetched
      <4> QED BY <1>1, <1>3, <1>5, <3>1, <3>2, <4>1 DEF LabelOK, Asked, Brings
    <3>3. CASE u # t
      <4>1. task'[u] = task[u] /\ (Newest(u)' <=> Newest(u))
        BY <1>5, <3>3
      <4>2. /\ Asked(u, Fetched) => task[u].base \in 1 .. slot.version
            /\ Brings(u, Fetched) => task[u].version \in 1 .. slot.version
        BY <1>2, <3>1 DEF LabelOK, GridTyped, Brings
      <4>3. \A v \in 1 .. slot.version : v \in 1 .. slot'.version
        BY <1>1, <1>2 DEF GridTyped
      <4>4. Newest(u) /\ task[u].call \in Fetched => slot'.spec = slot.spec
        <5>1. ASSUME Newest(u), task[u].call \in Fetched, task[t].call = "view" PROVE FALSE
          <6>1. PICK w \in Tasks : Open(w)
            BY <1>7, <5>1
          <6>2. w = u
            BY <5>1, <6>1 DEF Open, NewestView, Newest, GInv, SeqInv
          <6> QED BY <5>1, <6>1, <6>2 DEF Open, NewestView, Fetched
        <5> QED BY <1>6, <5>1
      <4> QED BY <1>1, <3>1, <4>1, <4>2, <4>3, <4>4 DEF LabelOK, Asked, Brings
    <3> QED BY <3>2, <3>3
  <2>3. (\E u \in Tasks : Newest(u)') \/ request.spec = slot'.spec
    BY <1>5, <1>6, <1>8 DEF CalmInv, LabelInv, NewestView
  <2> QED BY <1>1, <2>1, <2>2, <2>3 DEF CalmInv, LabelInv
<1> QED BY <1>9, <1>11, <1>12, <1>13, <1>14, <1>15 DEF CalmInv

LEMMA CommitConverges ==
  ASSUME IInv, GInv, CInv, NEW t \in Tasks, Commit(t)
  PROVE  GInv' /\ CInv'
<1>1. CASE /\ Superseded(t) /\ task[t].pc = "checked"
           /\ UNCHANGED <<slot, surface, request, deleted, committed, raced>>
  <2>1. task[t].call \in Changes
    BY <1>1, TaskTypes DEF IInv, HandlerInv, Snapshot, Changes
  <2> QED BY <1>1, <2>1, SupersededMove
<1>2. CASE \E spec, tombstones : Writes(t, spec, tombstones)
  BY <1>2, WriteKeepsGrid, WriteKeepsCalm DEF CInv, Writes
<1> QED BY <1>1, <1>2, CommitCases

----------
(* Replies of view requests. *)

\* A reply is handled: what holds always is kept when the handler and the grid are right.
LEMMA ReplyKeepsGrid ==
  ASSUME GInv, NEW t \in Tasks, Others(t), SlotKept, request'.seq = request.seq,
         request.outdated = TRUE => request'.outdated = TRUE,
         Owes(t) => Owes(t)' /\ task'[t].rows = task[t].rows,
         Busy(t, Showing)' => Busy(t, Showing) /\ task'[t].seq = task[t].seq,
         HandlerGrid(t)', GridInv'
  PROVE  GInv'
<1>1. DeletedInv'
  BY DeletedKept DEF GInv
<1>2. SeqInv'
  BY SeqKept DEF GInv
<1>3. \A u \in Tasks : HandlerGrid(u)'
  BY HandlersKept DEF GInv
<1> QED BY <1>1, <1>2, <1>3 DEF GInv

\* The latest request was committed and no older success is later: nothing after its
\* version changed the spec, and who made the current version is the latest request, a
\* removal, or was heard of.
LEMMA LatestCommitted ==
  ASSUME IInv, GInv, CalmInv, NEW t \in Tasks, NewestView(t), Brings(t, {"view"}),
         request.success # None => request.success.version <= task[t].version
  PROVE  /\ \A k \in task[t].version .. slot.version : committed[k].spec = task[t].spec
         /\ \/ task[t].version = slot.version \/ Removal
            \/ surface.version = slot.version
         /\ \A u \in Tasks : ~Open(u) /\ (Older(u) => Behind(u, slot.version))
         /\ \A u \in Tasks : u # t => ~Newest(u) /\ ~NewestView(u)
<1> DEFINE v == task[t].version
<1>1. GridTyped /\ v \in 1 .. slot.version /\ slot.version \in Nat
  BY GridTypes DEF GridTyped, Brings
<1>2. \A u \in Tasks : u # t => ~Newest(u) /\ ~NewestView(u)
  BY DEF NewestView, Newest, GInv, SeqInv
<1>3. \A u \in Tasks : Brings(u, {"view"}) /\ u # t => Older(u)
  BY <1>2 DEF Older, Newest, NewestView, Brings, Busy, Showing
<1>4. ASSUME NEW j \in Nat, Unheard(j), j > v PROVE FALSE
  <2>1. PICK u \in Tasks : Brings(u, {"view"}) /\ task[u].version = j
    BY <1>4 DEF Unheard
  <2>2. u # t /\ Older(u)
    BY <1>1, <1>3, <1>4, <2>1
  <2>3. Behind(u, v)
    BY <2>2 DEF CalmInv, OlderInv
  <2> QED BY <1>1, <1>4, <2>1, <2>3 DEF Behind
<1>5. ASSUME NEW k \in v .. slot.version PROVE committed[k].spec = task[t].spec
  <2>1. committed[v].spec = task[t].spec
    BY DEF GInv, HandlerGrid
  <2>2. ASSUME k # v, committed[k].spec # committed[v].spec PROVE FALSE
    <3>1. v < k /\ k \in 1 .. slot.version
      BY <1>1, <2>2
    <3>2. PICK j \in v + 1 .. k :
              (request.success # None /\ j <= request.success.version) \/ Unheard(j)
      BY <1>1, <2>2, <3>1 DEF CalmInv, SpecsInv
    <3>3. j \in Nat /\ j > v
      BY <1>1, <3>1, <3>2
    <3> QED BY <1>1, <1>4, <3>2, <3>3 DEF GridTyped
  <2> QED BY <2>1, <2>2
<1>6. v = slot.version \/ Removal \/ surface.version = slot.version
  <2>1. ASSUME v # slot.version PROVE slot.version \in Nat /\ slot.version > v
    BY <1>1, <2>1
  <2> QED BY <1>1, <1>4, <2>1 DEF CalmInv, MakerInv, GridTyped
<1>7. \A u \in Tasks : ~Open(u)
  BY <1>2 DEF Open
<1> QED BY <1>2, <1>5, <1>6, <1>7 DEF CalmInv, OlderInv

\* The latest request failed and no older one is left: nothing changed the spec after the
\* last success, and who made the current version is a removal or was heard of.
LEMMA LatestFailed ==
  ASSUME IInv, GInv, CalmInv, NEW t \in Tasks, ~Brings(t, {"view"}),
         \A u \in Tasks : u # t => ~Busy(u, {"view"})
  PROVE  /\ \A i, k \in 1 .. slot.version :
               i <= k /\ (request.success # None => request.success.version <= i) =>
                  committed[i].spec = committed[k].spec
         /\ \/ Removal \/ surface.version = slot.version
            \/ request.success # None /\ request.success.version = slot.version
         /\ \A j : ~Unheard(j)
<1>1. \A j : ~Unheard(j)
  BY DEF Unheard, Brings, Busy
<1>2. ASSUME NEW i \in 1 .. slot.version, NEW k \in 1 .. slot.version, i <= k,
             request.success # None => request.success.version <= i,
             committed[i].spec # committed[k].spec
      PROVE  FALSE
  <2>1. GridTyped /\ i < k
    BY <1>2, GridTypes
  <2>2. PICK j \in i + 1 .. k : request.success # None /\ j <= request.success.version
    BY <1>1, <1>2, <2>1 DEF CalmInv, SpecsInv
  <2> QED BY <1>2, <2>1, <2>2 DEF GridTyped
<1> QED BY <1>1, <1>2 DEF CalmInv, MakerInv

----------
(* ViewSucceeded. *)

\* What it notes, whatever it does then.
Noted(t) ==
    /\ request'.seq = request.seq /\ request'.spec = request.spec
    /\ request'.outdated = request.outdated
    /\ request'.known = Larger(request.known, task[t].version)
    /\ request'.success # None /\ request'.success.version = task[t].version
    /\ request'.success.spec = task[t].spec
    /\ request'.success.live = Rows \ task[t].tombstones

LEMMA SucceededFacts ==
  ASSUME IInv, NEW t \in Tasks, ViewSucceeded(t)
  PROVE  /\ Answered(t, "view") /\ Brings(t, {"view"}) /\ SlotKept /\ Noted(t)
         /\ request'.known \in Nat
         /\ raced' = {} => raced = {} /\ (request.success # None =>
                                             request.success.version <= task[t].version)
         /\ \/ task[t].seq # request.seq /\ Done(t) /\ surface' = surface
            \/ /\ task[t].seq = request.seq /\ task[t].version < request.known
               /\ Sent(t, "repaint", request'.known) /\ surface' = surface
               /\ task'[t].seq = task[t].seq /\ task'[t].spec = task[t].spec
            \/ /\ task[t].seq = request.seq /\ task[t].version >= request.known
               /\ Done(t) /\ surface'.version = task[t].version
               /\ surface'.spec = task[t].spec
               /\ surface'.live = Rows \ task[t].tombstones
<1> DEFINE known   == Larger(request.known, task[t].version)
           live    == Rows \ task[t].tombstones
           success == [version |-> task[t].version, spec |-> task[t].spec,
                       view |-> task[t].view, live |-> live]
           kept    == [request EXCEPT !.success = success, !.known = known]
<1>1. GridTyped /\ TaskInv
  BY GridTypes DEF IInv
<1>2. Answered(t, "view") /\ Brings(t, {"view"}) /\ SlotKept
  BY DEF ViewSucceeded, Answered, Brings, SlotKept
<1>3. /\ known \in Nat /\ success \in Success /\ success.version = task[t].version
      /\ success.spec = task[t].spec /\ success.live = live
  BY <1>1, <1>2, ReplyFacts, TaskTypes DEF IInv, Success, Brings, Versions
<1>4. success # None
  BY <1>3, NoneAssumption
<1>5. request' = kept \/ request' = [kept EXCEPT !.error = FALSE]
  BY DEF ViewSucceeded
<1>6. Noted(t)
  <2> HIDE DEF success, known
  <2>1. /\ request'.seq = request.seq /\ request'.spec = request.spec
        /\ request'.outdated = request.outdated /\ request'.known = known
        /\ request'.success = success
    BY <1>5 DEF IInv, RequestInv
  <2> QED BY <1>3, <1>4, <2>1 DEF Noted, known
<1>7. raced' = {} => raced = {} /\ (request.success # None =>
                                        request.success.version <= task[t].version)
  <2>1. Mark("reordered", request.success # None /\ request.success.version > task[t].version)
    BY DEF ViewSucceeded
  <2>2. CASE request.success # None /\ request.success.version > task[t].version
    BY <2>1, <2>2 DEF Mark
  <2>3. CASE ~(request.success # None /\ request.success.version > task[t].version)
    BY <1>1, <2>1, <2>3 DEF Mark, GridTyped
  <2> QED BY <2>2, <2>3
<1>8. request'.known = known
  BY <1>6 DEF Noted
<1>9. \/ task[t].seq # request.seq /\ Done(t) /\ surface' = surface
      \/ /\ task[t].seq = request.seq /\ task[t].version < request.known
         /\ Sent(t, "repaint", request'.known) /\ surface' = surface
         /\ task'[t].seq = task[t].seq /\ task'[t].spec = task[t].spec
      \/ /\ task[t].seq = request.seq /\ task[t].version >= request.known
         /\ Done(t) /\ surface'.version = task[t].version
         /\ surface'.spec = task[t].spec
         /\ surface'.live = Rows \ task[t].tombstones
  <2>1. CASE task[t].seq # request.seq /\ Finish(t) /\ UNCHANGED surface
    BY <1>1, <2>1, DoneFacts
  <2>2. CASE /\ task[t].seq = request.seq /\ Outdated(t)
             /\ Send(t, "repaint", known, task[t]) /\ UNCHANGED surface
    <3>1. PICK base, locals : base = known /\ locals = task[t]
      OBVIOUS
    <3>2. locals \in Task
      BY <1>1, <3>1, TaskTypes
    <3>3. Send(t, "repaint", base, locals)
      BY <2>2, <3>1
    <3>4. Sent(t, "repaint", base) /\ task'[t].seq = locals.seq /\ task'[t].spec = locals.spec
      BY <1>1, <3>2, <3>3, SentFacts
    <3> QED BY <1>8, <2>2, <3>1, <3>4 DEF Outdated
  <2>3. CASE /\ task[t].seq = request.seq /\ ~Outdated(t) /\ Finish(t)
             /\ Paint(task[t].spec, task[t].version, task[t].view, live)
    <3>1. Done(t)
      BY <1>1, <2>3, DoneFacts
    <3>2. task[t].version >= request.known
      BY <1>1, <2>3 DEF Outdated, GridTyped
    <3> QED BY <2>3, <3>1, <3>2 DEF Paint
  <2> QED BY <2>1, <2>2, <2>3 DEF ViewSucceeded
<1> QED BY <1>2, <1>3, <1>6, <1>7, <1>8, <1>9

LEMMA SucceededKeepsGrid ==
  ASSUME IInv, GInv, NEW t \in Tasks, ViewSucceeded(t)
  PROVE  GInv'
<1>1. /\ Answered(t, "view") /\ Brings(t, {"view"}) /\ SlotKept /\ Noted(t)
      /\ request'.known \in Nat
      /\ \/ task[t].seq # request.seq /\ Done(t) /\ surface' = surface
         \/ /\ task[t].seq = request.seq /\ task[t].version < request.known
            /\ Sent(t, "repaint", request'.known) /\ surface' = surface
            /\ task'[t].seq = task[t].seq /\ task'[t].spec = task[t].spec
         \/ /\ task[t].seq = request.seq /\ task[t].version >= request.known
            /\ Done(t) /\ surface'.version = task[t].version
            /\ surface'.spec = task[t].spec
            /\ surface'.live = Rows \ task[t].tombstones
  BY SucceededFacts
<1>2. GridTyped /\ task[t].version \in 1 .. slot.version
  BY <1>1, GridTypes DEF GridTyped, Brings
<1>3. /\ request'.known >= request.known /\ request'.known >= task[t].version
      /\ request'.known <= slot.version
  BY <1>1, <1>2 DEF Noted, Larger, GInv, GridInv, GridTyped
<1>4. HandlerGrid(t) /\ Brings(t, Changes)
  BY <1>1 DEF GInv, Brings, Changes
<1>5. GridInv'
  BY <1>1, <1>2, <1>3, <1>4 DEF GInv, GridInv, SlotKept, Noted, HandlerGrid, GridTyped
<1>6. HandlerGrid(t)'
  BY <1>1, <1>3 DEF Sent, Done, HandlerGrid, Asked, Brings, SlotKept
<1>7. Others(t) /\ ~Owes(t) /\ (Busy(t, Showing)' => Busy(t, Showing) /\ task'[t].seq = task[t].seq)
  BY <1>1 DEF Sent, Done, Owes, Busy, Answered, Showing
<1> QED BY <1>1, <1>5, <1>6, <1>7, ReplyKeepsGrid DEF Noted

\* It is heard of now, and notes the version it made.
LEMMA SucceededKeepsHistory ==
  ASSUME IInv, GInv, CalmInv, NEW t \in Tasks, Brings(t, {"view"}), SlotKept, Noted(t), Others(t),
         request.success # None => request.success.version <= task[t].version,
         \/ surface'.version = surface.version
         \/ surface'.version = task[t].version /\ task[t].version >= request.known
  PROVE  SpecsInv' /\ MakerInv' /\ (Removal => Removal')
<1>1. GridTyped /\ task[t].version \in 1 .. slot.version /\ slot.version \in Nat
  BY GridTypes DEF GridTyped, Brings
<1>2. request'.success # None /\ request'.success.version = task[t].version
  BY DEF Noted
<1>3. \A j : Unheard(j) => Unheard(j)' \/ j = task[t].version
  BY DEF Unheard, Brings, Others
<1>4. Removal => Removal'
  BY StaySame DEF Removal, Painter, Brings, SlotKept
<1>5. SpecsInv'
  <2>1. ASSUME NEW i \in 1 .. slot.version, NEW k \in 1 .. slot.version, i < k,
               committed[i].spec # committed[k].spec
        PROVE  \E j \in i + 1 .. k : j <= request'.success.version \/ Unheard(j)'
    <3>1. PICK j \in i + 1 .. k :
              (request.success # None /\ j <= request.success.version) \/ Unheard(j)
      BY <2>1 DEF CalmInv, SpecsInv
    <3>2. j <= task[t].version \/ Unheard(j)'
      BY <1>1, <1>3, <3>1 DEF GridTyped
    <3> QED BY <1>2, <3>2
  <2> QED BY <1>2, <2>1 DEF SpecsInv, SlotKept
<1>6. MakerInv'
  <2>1. CASE Removal
    BY <1>4, <2>1 DEF MakerInv
  <2>2. CASE Unheard(slot.version)
    BY <1>2, <1>3, <2>2 DEF MakerInv, SlotKept
  <2>3. CASE surface.version = slot.version
    <3>1. surface'.version = slot.version
      BY <1>1, <2>3 DEF GInv, GridInv, GridTyped
    <3> QED BY <3>1 DEF MakerInv, SlotKept
  <2>4. CASE request.success # None /\ request.success.version = slot.version
    <3>1. request'.success.version = slot.version
      BY <1>1, <1>2, <2>4 DEF GridTyped
    <3> QED BY <1>2, <3>1 DEF MakerInv, SlotKept
  <2> QED BY <2>1, <2>2, <2>3, <2>4 DEF CalmInv, MakerInv
<1> QED BY <1>4, <1>5, <1>6

\* A request that is not the latest leaves, whatever its answer.
LEMMA OlderLeaves ==
  ASSUME CalmInv, NEW t \in Tasks, Answered(t, "view"), task[t].seq # request.seq,
         SlotKept, Done(t), surface' = surface, request'.seq = request.seq,
         request'.spec = request.spec, SpecsInv', MakerInv'
  PROVE  CalmInv'
<1>1. Others(t) /\ task'[t].pc = "idle" /\ task[t].pc = "answered" /\ task[t].call = "view"
  BY DEF Done, Answered
<1>2. /\ ~Newest(t) /\ ~NewestView(t) /\ ~Open(t) /\ ~OnCurrent(t) /\ ~Painter(t)
      /\ ~Newest(t)' /\ ~NewestView(t)' /\ ~Open(t)' /\ ~OnCurrent(t)' /\ ~Painter(t)'
      /\ ~Older(t)' /\ ~Brings(t, {"view"})'
  BY <1>1 DEF Newest, NewestView, Open, OnCurrent, Painter, Older, Busy, Asked, Brings, Fetched
<1>3. \A u \in Tasks : /\ u # t => task'[u] = task[u]
                       /\ Newest(u)' <=> Newest(u)
                       /\ NewestView(u)' <=> NewestView(u)
                       /\ Open(u)' <=> Open(u)
                       /\ Older(u)' => Older(u) /\ u # t
                       /\ Painter(u)' <=> Painter(u)
                       /\ OnCurrent(u)' <=> OnCurrent(u)
  BY <1>1, <1>2, StaySame DEF SlotKept
<1>4. Removal' <=> Removal
  BY <1>3 DEF Removal
<1>5. PaintInv'
  BY <1>3, <1>4 DEF CalmInv, PaintInv, SlotKept
<1>6. OlderInv'
  BY <1>2, <1>3 DEF CalmInv, OlderInv, Behind, Asked, Brings, SlotKept
<1>7. CountInv'
  BY <1>3, <1>4 DEF CalmInv, CountInv, SlotKept
<1>8. LabelInv'
  <2>1. LabelOK(t)'
    BY <1>1, <1>2 DEF LabelOK, Asked, Brings
  <2>2. ASSUME NEW u \in Tasks, u # t PROVE LabelOK(u)'
    <3>1. task'[u] = task[u] /\ LabelOK(u) /\ (Newest(u)' <=> Newest(u))
      BY <1>3, <2>2 DEF CalmInv, LabelInv
    <3> QED BY <3>1 DEF LabelOK, SlotKept, Asked, Brings
  <2> QED BY <1>3, <2>1, <2>2 DEF CalmInv, LabelInv, SlotKept
<1> QED BY <1>5, <1>6, <1>7, <1>8 DEF CalmInv

\* A request that is not the latest only notes its success.
LEMMA OlderSucceeded ==
  ASSUME IInv, GInv, CalmInv, NEW t \in Tasks, Answered(t, "view"), Brings(t, {"view"}),
         SlotKept, Noted(t), Done(t), surface' = surface, task[t].seq # request.seq,
         request.success # None => request.success.version <= task[t].version
  PROVE  CalmInv'
<1>1. /\ request'.seq = request.seq /\ request'.spec = request.spec
      /\ Others(t) /\ task'[t].pc = "idle"
  BY DEF Noted, Done
<1>2. SpecsInv' /\ MakerInv' /\ (Removal => Removal')
  BY <1>1, SucceededKeepsHistory
<1> QED BY <1>1, <1>2, OlderLeaves

\* The server moved on: the latest known version is fetched, and has the spec asked for.
LEMMA LatestRepaints ==
  ASSUME IInv, GInv, CalmInv, NEW t \in Tasks, Answered(t, "view"), Brings(t, {"view"}),
         SlotKept, Noted(t), Sent(t, "repaint", request'.known), surface' = surface,
         task'[t].seq = task[t].seq, task'[t].spec = task[t].spec,
         task[t].seq = request.seq, task[t].version < request.known, request'.known \in Nat,
         request.success # None => request.success.version <= task[t].version
  PROVE  CalmInv'
<1> DEFINE v == task[t].version
<1>1. /\ GridTyped /\ v \in 1 .. slot.version /\ slot.version \in Nat
      /\ request.known <= slot.version
  BY GridTypes DEF GridTyped, Brings, GInv, GridInv
<1>2. /\ request'.seq = request.seq /\ request'.spec = request.spec
      /\ request'.known = request.known
      /\ Others(t) /\ task'[t].pc = "sent" /\ task'[t].call = "repaint"
      /\ task'[t].base = request.known
  BY <1>1 DEF Noted, Sent, Larger, GridTyped
<1>3. NewestView(t) /\ Newest(t) /\ task[t].call = "view" /\ task[t].pc = "answered"
  BY DEF NewestView, Newest, Answered, Busy, Showing
<1>4. SpecsInv' /\ MakerInv' /\ (Removal => Removal')
  BY <1>2, SucceededKeepsHistory
<1>5. /\ \A k \in v .. slot.version : committed[k].spec = task[t].spec
      /\ v = slot.version \/ Removal \/ surface.version = slot.version
      /\ \A u \in Tasks : ~Open(u) /\ (Older(u) => Behind(u, slot.version))
      /\ \A u \in Tasks : u # t => ~Newest(u) /\ ~NewestView(u)
  BY <1>3, LatestCommitted
<1>6. /\ Newest(t)' /\ ~NewestView(t)' /\ ~Open(t)' /\ ~Older(t)' /\ ~Painter(t)'
      /\ ~Painter(t) /\ ~OnCurrent(t) /\ ~Brings(t, Fetched)'
      /\ OnCurrent(t)' <=> request.known = slot.version
  BY <1>2, <1>3 DEF Newest, NewestView, Open, Older, Painter, OnCurrent, Busy, Asked, Brings,
     Showing, Fetched, SlotKept
<1>7. \A u \in Tasks : u # t => /\ task'[u] = task[u]
                                /\ ~Newest(u)' /\ ~NewestView(u)'
                                /\ Older(u)' <=> Older(u)
                                /\ OnCurrent(u)' <=> OnCurrent(u)
  BY <1>2, <1>5, StaySame DEF SlotKept
<1>8. Removal \/ surface.version = slot.version
  BY <1>1, <1>5 DEF GridTyped
<1>9. PaintInv'
  BY <1>4, <1>8 DEF PaintInv, SlotKept
<1>10. OlderInv'
  BY <1>5, <1>6, <1>7 DEF OlderInv, Behind, Asked, Brings, SlotKept
<1>11. CountInv'
  BY <1>4, <1>8 DEF CalmInv, CountInv, SlotKept
<1>12. LabelInv'
  <2>1. LabelOK(t)'
    <3>1. request.known \in v .. slot.version /\ slot.version \in v .. slot.version
          /\ request.known \in 1 .. slot.version
      BY <1>1 DEF GridTyped
    <3>2. committed[request.known].spec = task[t].spec /\ slot.spec = task[t].spec
      BY <1>5, <3>1 DEF GInv, GridInv
    <3>3. task[t].spec = request.spec
      BY <1>3 DEF CalmInv, LabelInv, LabelOK
    <3> QED BY <1>2, <1>6, <3>1, <3>2, <3>3 DEF LabelOK, SlotKept
  <2>2. ASSUME NEW u \in Tasks, u # t PROVE LabelOK(u)'
    <3>1. task'[u] = task[u] /\ LabelOK(u) /\ ~Newest(u)'
      BY <1>7, <2>2 DEF CalmInv, LabelInv
    <3> QED BY <3>1 DEF LabelOK, SlotKept, Asked, Brings
  <2> QED BY <1>6, <2>1, <2>2 DEF CalmInv, LabelInv, SlotKept
<1> QED BY <1>4, <1>9, <1>10, <1>11, <1>12 DEF CalmInv

\* The latest request is painted, unless rows were removed from its version meanwhile.
LEMMA LatestPaints ==
  ASSUME IInv, GInv, CalmInv, NEW t \in Tasks, Answered(t, "view"), Brings(t, {"view"}),
         SlotKept, Noted(t), Done(t), task[t].seq = request.seq,
         task[t].version >= request.known, surface'.version = task[t].version,
         surface'.spec = task[t].spec, surface'.live = Rows \ task[t].tombstones,
         request.success # None => request.success.version <= task[t].version
  PROVE  CalmInv'
<1> DEFINE v == task[t].version
<1>1. /\ GridTyped /\ v \in 1 .. slot.version /\ slot.version \in Nat
      /\ surface.version <= request.known
  BY GridTypes DEF GridTyped, Brings, GInv, GridInv
<1>2. /\ request'.seq = request.seq /\ request'.spec = request.spec
      /\ Others(t) /\ task'[t].pc = "idle"
  BY DEF Noted, Done
<1>3. NewestView(t) /\ Newest(t) /\ task[t].call = "view" /\ task[t].pc = "answered"
  BY DEF NewestView, Newest, Answered, Busy, Showing
<1>4. SpecsInv' /\ MakerInv' /\ (Removal => Removal')
  BY <1>2, SucceededKeepsHistory
<1>5. /\ \A k \in v .. slot.version : committed[k].spec = task[t].spec
      /\ v = slot.version \/ Removal \/ surface.version = slot.version
      /\ \A u \in Tasks : ~Open(u) /\ (Older(u) => Behind(u, slot.version))
      /\ \A u \in Tasks : u # t => ~Newest(u) /\ ~NewestView(u)
  BY <1>3, LatestCommitted
<1>6. /\ ~Newest(t)' /\ ~NewestView(t)' /\ ~Older(t)' /\ ~OnCurrent(t)'
      /\ ~Asked(t, Fetched)' /\ ~Brings(t, Fetched)'
  BY <1>2 DEF Newest, NewestView, Older, OnCurrent, Busy, Asked, Brings
<1>7. \A u \in Tasks : u # t => /\ task'[u] = task[u]
                                /\ ~Newest(u)' /\ ~NewestView(u)'
                                /\ Older(u)' <=> Older(u)
                                /\ OnCurrent(u)' <=> OnCurrent(u)
  BY <1>2, <1>5, StaySame DEF SlotKept
<1>8. surface'.version = slot.version \/ Removal
  BY <1>1, <1>5 DEF GridTyped
<1>9. PaintInv'
  BY <1>4, <1>8 DEF PaintInv, SlotKept
<1>10. OlderInv'
  BY <1>5, <1>6, <1>7 DEF OlderInv, Behind, Asked, Brings, SlotKept
<1>11. CountInv'
  <2>1. v = slot.version => task[t].tombstones = slot.tombstones
    BY DEF GInv, HandlerGrid, Brings, Changes
  <2> QED BY <1>4, <1>8, <2>1 DEF CountInv, SlotKept
<1>12. LabelInv'
  <2>1. committed[v].spec = task[t].spec /\ slot.spec = task[t].spec
    BY <1>1, <1>5 DEF GInv, GridInv
  <2>2. task[t].spec = request.spec
    BY <1>3 DEF CalmInv, LabelInv, LabelOK
  <2>3. LabelOK(t)'
    BY <1>6 DEF LabelOK
  <2>4. ASSUME NEW u \in Tasks, u # t PROVE LabelOK(u)'
    <3>1. task'[u] = task[u] /\ LabelOK(u) /\ ~Newest(u)'
      BY <1>7, <2>4 DEF CalmInv, LabelInv
    <3> QED BY <3>1 DEF LabelOK, SlotKept, Asked, Brings
  <2> QED BY <1>2, <2>1, <2>2, <2>3, <2>4 DEF LabelInv, SlotKept
<1> QED BY <1>4, <1>9, <1>10, <1>11, <1>12 DEF CalmInv

LEMMA ViewSucceededConverges ==
  ASSUME IInv, GInv, CInv, NEW t \in Tasks, ViewSucceeded(t)
  PROVE  GInv' /\ CInv'
<1>1. GInv'
  BY SucceededKeepsGrid
<1>2. ASSUME raced' = {} PROVE CalmInv'
  <2>1. CalmInv /\ (request.success # None => request.success.version <= task[t].version)
    BY <1>2, SucceededFacts DEF CInv
  <2>2. Answered(t, "view") /\ Brings(t, {"view"}) /\ SlotKept /\ Noted(t) /\ request'.known \in Nat
    BY SucceededFacts
  <2>3. CASE task[t].seq # request.seq /\ Done(t) /\ surface' = surface
    BY <2>1, <2>2, <2>3, OlderSucceeded
  <2>4. CASE /\ task[t].seq = request.seq /\ task[t].version < request.known
             /\ Sent(t, "repaint", request'.known) /\ surface' = surface
             /\ task'[t].seq = task[t].seq /\ task'[t].spec = task[t].spec
    BY <2>1, <2>2, <2>4, LatestRepaints
  <2>5. CASE /\ task[t].seq = request.seq /\ task[t].version >= request.known
             /\ Done(t) /\ surface'.version = task[t].version
             /\ surface'.spec = task[t].spec
             /\ surface'.live = Rows \ task[t].tombstones
    BY <2>1, <2>2, <2>5, LatestPaints
  <2> QED BY <2>3, <2>4, <2>5, SucceededFacts
<1> QED BY <1>1, <1>2 DEF CInv

----------
(* settleFailedView. *)

\* The last success is newer than what is painted: it is painted.
PaintsSuccess(t, known) ==
    /\ Done(t) /\ request.success # None /\ request.success.version >= known
    /\ surface'.version = request.success.version /\ surface'.spec = request.success.spec
    /\ surface'.live = request.success.live
    /\ request'.spec = request.success.spec

\* The grid is behind the backend: the known version is fetched.
Refetches(t, known) ==
    /\ Sent(t, "settle", known) /\ task'[t].seq = task[t].seq
    /\ task'[t].spec = request'.spec
    /\ request.success # None => request.success.version < known
    /\ known > surface.version /\ surface' = surface
    /\ request'.spec = IF request.success # None THEN request.success.spec ELSE surface.spec

\* What is painted is the latest known.
Reverts(t, known) ==
    /\ Done(t) /\ surface' = surface
    /\ request.success # None => request.success.version < known
    /\ known <= surface.version /\ request'.spec = surface.spec

LEMMA SettleFailedFacts ==
  ASSUME IInv, NEW t \in Tasks, NEW known \in Nat, SettleFailed(t, known)
  PROVE  /\ request'.seq = request.seq /\ request'.known = known
         /\ request'.success = request.success /\ request'.outdated = request.outdated
         /\ PaintsSuccess(t, known) \/ Refetches(t, known) \/ Reverts(t, known)
<1> DEFINE reverted == IF request.success # None THEN request.success.spec ELSE surface.spec
           failed   == [request EXCEPT !.known = known, !.retry = request.spec]
<1>1. TaskInv /\ surface.spec \in Specs /\ surface.live \in SUBSET Rows /\ reverted \in Specs
  BY SuccessType DEF IInv, SurfaceInv
<1>2. ASSUME NEW spec, NEW error, request' = [failed EXCEPT !.spec = spec, !.error = error]
      PROVE  /\ request'.seq = request.seq /\ request'.known = known /\ request'.spec = spec
             /\ request'.success = request.success /\ request'.outdated = request.outdated
  BY <1>2 DEF IInv, RequestInv
<1>3. ASSUME NEW spec, request' = [failed EXCEPT !.spec = spec]
      PROVE  /\ request'.seq = request.seq /\ request'.known = known /\ request'.spec = spec
             /\ request'.success = request.success /\ request'.outdated = request.outdated
  BY <1>3 DEF IInv, RequestInv
<1>4. CASE /\ request.success # None /\ request.success.version >= known
           /\ request' = [failed EXCEPT !.spec = request.success.spec, !.error = TRUE]
           /\ Paint(request.success.spec, request.success.version, request.success.view,
                    request.success.live)
           /\ Finish(t)
  <2>1. PICK spec : spec = request.success.spec
    OBVIOUS
  <2>2. request' = [failed EXCEPT !.spec = spec, !.error = TRUE]
    BY <1>4, <2>1
  <2>3. /\ request'.seq = request.seq /\ request'.known = known /\ request'.spec = spec
        /\ request'.success = request.success /\ request'.outdated = request.outdated
    BY <1>2, <2>2
  <2>4. PaintsSuccess(t, known)
    BY <1>1, <1>4, <2>1, <2>3, DoneFacts DEF PaintsSuccess, Paint
  <2> QED BY <2>3, <2>4
<1>5. CASE /\ request.success # None => request.success.version < known
           /\ known > surface.version
           /\ request' = [failed EXCEPT !.spec = reverted]
           /\ Send(t, "settle", known, [task[t] EXCEPT !.spec = reverted,
                                                       !.live = surface.live])
           /\ UNCHANGED surface
  <2>1. PICK spec, locals : spec = reverted /\ locals = [task[t] EXCEPT !.spec = spec,
                                                                        !.live = surface.live]
    OBVIOUS
  <2>2. locals \in Task /\ locals.spec = spec /\ locals.seq = task[t].seq
    BY <1>1, <2>1, TaskTypes DEF Task
  <2>3. request' = [failed EXCEPT !.spec = spec] /\ Send(t, "settle", known, locals)
    BY <1>5, <2>1
  <2>4. /\ request'.seq = request.seq /\ request'.known = known /\ request'.spec = spec
        /\ request'.success = request.success /\ request'.outdated = request.outdated
    BY <1>3, <2>3
  <2>5. Sent(t, "settle", known) /\ task'[t].seq = task[t].seq /\ task'[t].spec = spec
    BY <1>1, <2>2, <2>3, SentFacts
  <2> QED BY <1>5, <2>1, <2>4, <2>5 DEF Refetches
<1>6. CASE /\ request.success # None => request.success.version < known
           /\ known <= surface.version
           /\ request' = [failed EXCEPT !.spec = surface.spec, !.error = TRUE]
           /\ Finish(t)
           /\ UNCHANGED surface
  <2>1. PICK spec : spec = surface.spec
    OBVIOUS
  <2>2. request' = [failed EXCEPT !.spec = spec, !.error = TRUE]
    BY <1>6, <2>1
  <2>3. /\ request'.seq = request.seq /\ request'.known = known /\ request'.spec = spec
        /\ request'.success = request.success /\ request'.outdated = request.outdated
    BY <1>2, <2>2
  <2> QED BY <1>1, <1>6, <2>1, <2>3, DoneFacts DEF Reverts
<1> QED BY <1>4, <1>5, <1>6 DEF SettleFailed

LEMMA SettleFailedKeepsGrid ==
  ASSUME IInv, GInv, NEW t \in Tasks, NEW known \in Nat, SettleFailed(t, known), SlotKept,
         Busy(t, Showing), known >= request.known, known <= slot.version
  PROVE  GInv'
<1>1. /\ request'.seq = request.seq /\ request'.known = known
      /\ request'.success = request.success /\ request'.outdated = request.outdated
      /\ PaintsSuccess(t, known) \/ Refetches(t, known) \/ Reverts(t, known)
  BY SettleFailedFacts
<1>2. GridTyped
  BY GridTypes
<1>3. Others(t) /\ task'[t].pc \in {"idle", "sent"} /\ ~Owes(t)
  BY <1>1 DEF PaintsSuccess, Refetches, Reverts, Done, Sent, Owes, Busy, Showing
<1>4. Busy(t, Showing)' => task'[t].seq = task[t].seq
  BY <1>1 DEF PaintsSuccess, Refetches, Reverts, Done, Busy
<1>5. HandlerGrid(t)'
  BY <1>1, <1>3 DEF PaintsSuccess, Refetches, Reverts, Done, Sent, HandlerGrid, Asked, Brings, SlotKept
<1>6. GridInv'
  BY <1>1, <1>2 DEF GInv, GridInv, SlotKept, PaintsSuccess, Refetches, Reverts, GridTyped
<1> QED BY <1>1, <1>3, <1>4, <1>5, <1>6, ReplyKeepsGrid

\* The latest request failed for good, no older one is left.
LEMMA SettleFailedKeepsCalm ==
  ASSUME IInv, GInv, CalmInv, NEW t \in Tasks, NEW known \in Nat, SettleFailed(t, known),
         SlotKept, Newest(t), task[t].pc = "answered", ~Brings(t, Showing),
         \A u \in Tasks : u # t => ~Busy(u, {"view"}),
         known >= request.known, known <= slot.version
  PROVE  CalmInv'
<1>1. /\ request'.seq = request.seq /\ request'.known = known
      /\ request'.success = request.success /\ request'.outdated = request.outdated
      /\ PaintsSuccess(t, known) \/ Refetches(t, known) \/ Reverts(t, known)
  BY SettleFailedFacts
<1>2. /\ GridTyped /\ request.known <= slot.version /\ surface.version <= request.known
      /\ request.success # None => /\ request.success.version <= request.known
                                   /\ request.success.version \in 1 .. slot.version
                                   /\ committed[request.success.version].spec = request.success.spec
      /\ surface.version \in 1 .. slot.version /\ slot.version \in 1 .. slot.version
      /\ committed[slot.version].spec = slot.spec
  BY GridTypes DEF GridTyped, GInv, GridInv
<1>3. ~Brings(t, {"view"}) /\ ~OnCurrent(t) /\ ~Painter(t)
  BY DEF Brings, OnCurrent, Asked, Showing, Fetched, Painter, Newest, Busy
<1>4. /\ \A i, k \in 1 .. slot.version :
            i <= k /\ (request.success # None => request.success.version <= i) =>
               committed[i].spec = committed[k].spec
      /\ \/ Removal \/ surface.version = slot.version
         \/ request.success # None /\ request.success.version = slot.version
      /\ \A j : ~Unheard(j)
  BY <1>3, LatestFailed
<1>5. Others(t) /\ task'[t].pc \in {"idle", "sent"} /\ (task'[t].pc = "sent" => task'[t].call = "settle")
  BY <1>1 DEF PaintsSuccess, Refetches, Reverts, Done, Sent
<1>6. /\ ~NewestView(t)' /\ ~Open(t)' /\ ~Older(t)' /\ ~Painter(t)' /\ ~Brings(t, {"view"})'
      /\ ~Brings(t, Fetched)'
  BY <1>5 DEF NewestView, Open, Newest, Older, Painter, Busy, Brings
<1>7. \A u \in Tasks : u # t => /\ task'[u] = task[u]
                                /\ ~Newest(u)' /\ ~NewestView(u)' /\ ~Older(u)'
                                /\ OnCurrent(u)' <=> OnCurrent(u)
  <2>1. \A u \in Tasks : u # t => ~Newest(u) /\ ~Older(u) /\ ~NewestView(u)
    BY DEF Newest, GInv, SeqInv, Older, NewestView
  <2> QED BY <1>1, <1>5, <2>1, StaySame DEF SlotKept
<1>8. Removal => Removal'
  BY <1>3, <1>5, StaySame DEF Removal, SlotKept
<1>9. \A j : ~Unheard(j)'
  BY <1>4, <1>5, <1>6, <1>7 DEF Unheard, Brings
<1>10. OlderInv'
  BY <1>6, <1>7 DEF OlderInv
<1>11. SpecsInv'
  BY <1>1, <1>4 DEF CalmInv, SpecsInv, SlotKept
<1>12. ASSUME PaintsSuccess(t, known)
       PROVE  PaintInv' /\ MakerInv' /\ CountInv' /\ LabelInv'
  <2>1. task'[t].pc = "idle"
    BY <1>12 DEF PaintsSuccess, Done
  <2>2. Removal' \/ surface'.version = slot.version
    BY <1>2, <1>4, <1>8, <1>12 DEF PaintsSuccess, GridTyped
  <2>3. ~OnCurrent(t)' /\ ~Newest(t)' /\ LabelOK(t)'
    BY <2>1 DEF OnCurrent, Newest, LabelOK, Asked, Brings, Busy
  <2>4. surface'.version = slot.version => surface'.live = Rows \ slot.tombstones
    BY <1>12 DEF PaintsSuccess, GInv, GridInv
  <2>5. committed[request.success.version].spec = slot.spec
    BY <1>2, <1>4, <1>12 DEF PaintsSuccess, GridTyped
  <2>6. request'.spec = slot.spec /\ surface'.spec = committed[surface'.version].spec
    BY <1>2, <1>12, <2>5 DEF PaintsSuccess
  <2>7. \A u \in Tasks : u # t => LabelOK(u)'
    BY <1>7 DEF CalmInv, LabelInv, LabelOK, SlotKept, Asked, Brings
  <2> QED BY <2>2, <2>3, <2>4, <2>6, <2>7 DEF PaintInv, MakerInv, CountInv, LabelInv, SlotKept
<1>13. ASSUME Refetches(t, known)
       PROVE  PaintInv' /\ MakerInv' /\ CountInv' /\ LabelInv'
  <2>1. /\ surface' = surface /\ task'[t].pc = "sent" /\ task'[t].call = "settle"
        /\ task'[t].base = known /\ task'[t].spec = request'.spec /\ task'[t].seq = task[t].seq
    BY <1>13 DEF Refetches, Sent
  <2>2. \/ Removal \/ surface.version = slot.version \/ known = slot.version
    BY <1>2, <1>4, <1>13 DEF Refetches, GridTyped
  <2>3. Newest(t)' /\ (OnCurrent(t)' <=> known = slot.version)
    BY <1>1, <2>1 DEF Newest, OnCurrent, Busy, Asked, Brings, Showing, Fetched, SlotKept
  <2>4. known = slot.version => Removal \/ surface.version = slot.version
    BY <1>2, <1>4, <1>13 DEF Refetches, GridTyped
  <2>5. known \in 1 .. slot.version
    BY <1>2, <1>13 DEF Refetches, GridTyped
  <2>6. request'.spec = committed[known].spec /\ request'.spec = slot.spec
    <3>1. CASE request.success # None
      <4>1. request.success.version <= known /\ request'.spec = committed[request.success.version].spec
        BY <1>2, <1>13, <3>1 DEF Refetches, GridTyped
      <4> QED BY <1>2, <1>4, <2>5, <3>1, <4>1 DEF GridTyped
    <3>2. CASE request.success = None
      <4>1. surface.version <= known /\ request'.spec = committed[surface.version].spec
        BY <1>2, <1>13, <3>2 DEF Refetches, CalmInv, LabelInv, GridTyped
      <4> QED BY <1>2, <1>4, <2>5, <3>2, <4>1 DEF GridTyped
    <3> QED BY <3>1, <3>2
  <2>7. LabelOK(t)'
    BY <1>6, <2>1, <2>5, <2>6 DEF LabelOK, SlotKept
  <2>8. \A u \in Tasks : u # t => LabelOK(u)'
    BY <1>7 DEF CalmInv, LabelInv, LabelOK, SlotKept, Asked, Brings
  <2>9. PaintInv'
    BY <1>8, <2>1, <2>2, <2>3 DEF PaintInv, SlotKept
  <2>10. MakerInv'
    BY <1>1, <1>4, <1>8, <2>1 DEF MakerInv, SlotKept
  <2>11. CountInv'
    BY <1>7, <1>8, <2>1, <2>3, <2>4 DEF CalmInv, CountInv, SlotKept
  <2>12. LabelInv'
    BY <2>1, <2>3, <2>7, <2>8 DEF CalmInv, LabelInv, SlotKept
  <2> QED BY <2>9, <2>10, <2>11, <2>12
<1>14. ASSUME Reverts(t, known)
       PROVE  PaintInv' /\ MakerInv' /\ CountInv' /\ LabelInv'
  <2>1. surface' = surface /\ task'[t].pc = "idle" /\ request'.spec = surface.spec
    BY <1>14 DEF Reverts, Done
  <2>2. Removal \/ surface.version = slot.version
    BY <1>2, <1>4, <1>14 DEF Reverts, GridTyped
  <2>3. ~OnCurrent(t)' /\ ~Newest(t)' /\ LabelOK(t)'
    BY <2>1 DEF OnCurrent, Newest, LabelOK, Asked, Brings, Busy
  <2>4. request'.spec = slot.spec
    <3>1. request.success # None => request.success.version <= surface.version
      BY <1>2, <1>14 DEF Reverts, GridTyped
    <3>2. committed[surface.version].spec = committed[slot.version].spec
      BY <1>2, <1>4, <3>1 DEF GridTyped
    <3> QED BY <1>2, <2>1, <3>2 DEF CalmInv, LabelInv
  <2>5. \A u \in Tasks : u # t => LabelOK(u)'
    BY <1>7 DEF CalmInv, LabelInv, LabelOK, SlotKept, Asked, Brings
  <2>6. PaintInv' /\ MakerInv'
    BY <1>8, <2>1, <2>2 DEF PaintInv, MakerInv, SlotKept
  <2>7. CountInv'
    BY <1>7, <1>8, <2>1, <2>3 DEF CalmInv, CountInv, SlotKept
  <2>8. LabelInv'
    BY <2>1, <2>3, <2>4, <2>5 DEF CalmInv, LabelInv, SlotKept
  <2> QED BY <2>6, <2>7, <2>8
<1> QED BY <1>1, <1>10, <1>11, <1>12, <1>13, <1>14 DEF CalmInv

----------
(* ViewFailed and RepaintReply. *)

LEMMA ViewFailedConverges ==
  ASSUME IInv, GInv, CInv, NEW t \in Tasks, ViewFailed(t)
  PROVE  GInv' /\ CInv'
<1>1. /\ Answered(t, "view") /\ task[t].reply \in {"superseded", "refused"} /\ SlotKept
      /\ task[t].pc = "answered" /\ task[t].call = "view" /\ ~Brings(t, Showing)
  BY DEF ViewFailed, SlotKept, Answered, Brings
<1>2. /\ GridTyped /\ TaskInv /\ task[t].version <= slot.version
      /\ request.known <= slot.version /\ surface.version <= request.known
  BY <1>1, GridTypes DEF GInv, GridInv, HandlerGrid, IInv
<1>3. PICK known : known = Larger(request.known, task[t].version)
  OBVIOUS
<1>4. known \in Nat /\ known >= request.known /\ known <= slot.version
  BY <1>2, <1>3 DEF Larger, GridTyped
<1>5. ASSUME request' = [request EXCEPT !.known = known]
      PROVE  /\ request'.seq = request.seq /\ request'.known = known
             /\ request'.spec = request.spec /\ request'.success = request.success
             /\ request'.outdated = request.outdated
  BY <1>5 DEF IInv, RequestInv
<1>6. ~Brings(t, {"view"}) /\ ~Owes(t) /\ ~Painter(t) /\ ~OnCurrent(t) /\ Busy(t, Showing)
  BY <1>1 DEF Brings, Owes, Painter, OnCurrent, Asked, Busy, Showing
<1>7. CASE /\ task[t].seq # request.seq /\ request' = [request EXCEPT !.known = known]
           /\ Finish(t) /\ UNCHANGED <<surface, raced>>
  <2>1. Done(t)
    BY <1>2, <1>7, DoneFacts
  <2>2. GInv'
    <3>1. GridInv'
      BY <1>1, <1>2, <1>4, <1>5, <1>7, GridKept DEF GInv
    <3>2. HandlerGrid(t)' /\ Others(t) /\ ~Busy(t, Showing)'
      BY <2>1 DEF Done, HandlerGrid, Asked, Brings, Busy
    <3> QED BY <1>1, <1>5, <1>6, <1>7, <3>1, <3>2, ReplyKeepsGrid
  <2>3. ASSUME raced = {} PROVE CalmInv'
    <3>1. CalmInv /\ Others(t) /\ task'[t].pc = "idle"
      BY <2>1, <2>3 DEF CInv, Done
    <3>2. \A j : Unheard(j) <=> Unheard(j)'
      BY <1>6, <3>1 DEF Unheard, Others, Brings
    <3>3. Removal <=> Removal'
      BY <1>1, <1>6, <3>1, StaySame DEF Removal, Painter, Brings, SlotKept
    <3>4. SpecsInv' /\ MakerInv'
      BY <1>1, <1>5, <1>7, <3>1, <3>2, <3>3 DEF CalmInv, SpecsInv, MakerInv, SlotKept
    <3> QED BY <1>1, <1>5, <1>7, <2>1, <3>1, <3>4, OlderLeaves
  <2> QED BY <1>7, <2>2, <2>3 DEF CInv
<1>8. CASE /\ task[t].seq = request.seq /\ MayRetry(t)
           /\ request' = [request EXCEPT !.known = known]
           /\ Send(t, "view", task[t].version, [task[t] EXCEPT !.attempt = @ + 1])
           /\ UNCHANGED <<surface, raced>>
  <2>1. PICK base, locals : base = task[t].version /\ locals = [task[t] EXCEPT !.attempt = @ + 1]
    OBVIOUS
  <2>2. locals \in Task /\ locals.seq = task[t].seq /\ locals.spec = task[t].spec
    BY <1>2, <1>8, <2>1, TaskTypes DEF MayRetry, Task
  <2>3. Send(t, "view", base, locals)
    BY <1>8, <2>1
  <2>4. Sent(t, "view", base) /\ task'[t].seq = locals.seq /\ task'[t].spec = locals.spec
    BY <1>2, <2>2, <2>3, SentFacts
  <2>5. /\ Others(t) /\ task'[t].pc = "sent" /\ task'[t].call = "view"
        /\ task'[t].base = task[t].version /\ task'[t].seq = task[t].seq
        /\ task'[t].spec = task[t].spec
    BY <2>1, <2>2, <2>4 DEF Sent
  <2>6. GInv'
    <3>1. GridInv'
      BY <1>1, <1>2, <1>4, <1>5, <1>8, GridKept DEF GInv
    <3>2. HandlerGrid(t)'
      BY <1>1, <1>2, <2>5 DEF HandlerGrid, Asked, Brings, SlotKept
    <3> QED BY <1>1, <1>5, <1>6, <1>8, <2>5, <3>1, <3>2, ReplyKeepsGrid
  <2>7. ASSUME raced = {} PROVE CalmInv'
    <3>1. /\ Newest(t)' <=> Newest(t)
          /\ ~Older(t) /\ ~Older(t)' /\ Open(t)'
          /\ NewestView(t)' <=> NewestView(t)
      BY <1>1, <1>5, <1>8, <2>5 DEF Newest, Older, Open, NewestView, Busy, Brings, Showing
    <3>2. ~Painter(t)' /\ ~OnCurrent(t)' /\ ~Brings(t, {"view"})' /\ ~Brings(t, Fetched)'
          /\ ~Asked(t, Fetched)'
      BY <2>5 DEF Painter, OnCurrent, Asked, Brings, Fetched
    <3>3. LabelOK(t)'
      BY <1>1, <1>5, <1>8, <2>5, <2>7, <3>1, <3>2 DEF CInv, CalmInv, LabelInv, LabelOK, Fetched
    <3> QED BY <1>1, <1>2, <1>5, <1>6, <1>8, <2>5, <2>7, <3>1, <3>2, <3>3, MoveKeepsCalm
              DEF CInv, SlotKept
  <2> QED BY <1>8, <2>6, <2>7 DEF CInv
<1>9. CASE /\ task[t].seq = request.seq /\ SettleFailed(t, known)
           /\ Mark("unanswered", OlderPending(t))
  <2>1. GInv'
    BY <1>1, <1>4, <1>6, <1>9, SettleFailedKeepsGrid
  <2>2. ASSUME raced' = {} PROVE CalmInv'
    <3>1. raced = {} /\ ~OlderPending(t)
      BY <1>9, <2>2 DEF Mark
    <3>2. ASSUME NEW u \in Tasks, u # t, Busy(u, {"view"}) PROVE FALSE
      <4>1. task[u].seq <= request.seq /\ task[u].seq # request.seq
        BY <1>6, <1>9, <3>2 DEF GInv, SeqInv, Busy, Showing
      <4>2. task[u].seq < request.seq
        BY <1>2, <4>1 DEF GridTyped
      <4> QED BY <3>1, <3>2, <4>2 DEF OlderPending, Busy
    <3>3. Newest(t)
      BY <1>6, <1>9 DEF Newest
    <3> QED BY <1>1, <1>4, <1>9, <3>1, <3>2, <3>3, SettleFailedKeepsCalm DEF CInv
  <2> QED BY <2>1, <2>2 DEF CInv
<1> QED BY <1>3, <1>7, <1>8, <1>9 DEF ViewFailed

\* A fetched version that is painted is not older than what was painted before, or the
\* grid was overtaken.
LEMMA FetchedIsPainted ==
  ASSUME IInv, GInv, CalmInv, NEW t \in Tasks, Brings(t, Fetched), SlotKept, Done(t),
         surface'.version = task[t].version, surface'.spec = task[t].spec,
         task[t].version >= surface.version, request'.seq = request.seq,
         request'.spec = request.spec, request'.success = request.success,
         surface'.live = surface.live
           \/ (task[t].version = slot.version => Removal)
  PROVE  CalmInv'
<1>1. GridTyped /\ surface.version <= slot.version /\ task[t].version \in 1 .. slot.version
  BY GridTypes DEF GridTyped, GInv, GridInv, Brings
<1>2. Others(t) /\ task'[t].pc = "idle" /\ task[t].pc = "answered" /\ task[t].call \in Fetched
  BY DEF Done, Brings
<1>3. /\ ~NewestView(t) /\ ~Open(t) /\ ~Older(t) /\ ~Painter(t) /\ ~Brings(t, {"view"})
      /\ ~Newest(t)' /\ ~NewestView(t)' /\ ~Open(t)' /\ ~Older(t)' /\ ~Painter(t)'
      /\ ~Brings(t, {"view"})' /\ ~OnCurrent(t)' /\ LabelOK(t)'
      /\ OnCurrent(t) <=> task[t].version = slot.version
  BY <1>2 DEF Newest, NewestView, Open, Older, Painter, OnCurrent, Busy, Asked, Brings, Fetched,
     LabelOK
<1>4. \A u \in Tasks : /\ u # t => task'[u] = task[u]
                       /\ u # t => (Newest(u)' <=> Newest(u))
                       /\ NewestView(u)' <=> NewestView(u)
                       /\ Open(u)' <=> Open(u)
                       /\ Older(u)' <=> Older(u)
                       /\ Painter(u)' <=> Painter(u)
                       /\ u # t => (OnCurrent(u)' <=> OnCurrent(u))
  BY <1>2, <1>3, StaySame DEF SlotKept
<1>5. (Removal' <=> Removal) /\ \A j : Unheard(j)' <=> Unheard(j)
  BY <1>3, <1>4 DEF Removal, Unheard, Brings
<1>6. surface.version = slot.version => task[t].version = slot.version
  BY <1>1 DEF GridTyped
<1>7. PaintInv'
  BY <1>3, <1>4, <1>5, <1>6 DEF CalmInv, PaintInv, SlotKept
<1>8. OlderInv'
  BY <1>3, <1>4 DEF CalmInv, OlderInv, Behind, Asked, Brings, SlotKept
<1>9. SpecsInv'
  BY <1>5 DEF CalmInv, SpecsInv, SlotKept
<1>10. MakerInv'
  BY <1>5, <1>6 DEF CalmInv, MakerInv, SlotKept
<1>11. CountInv'
  <2>1. task[t].version = slot.version => Removal \/ surface.version = slot.version
    BY <1>3 DEF CalmInv, CountInv
  <2> QED BY <1>3, <1>4, <1>5, <1>6, <2>1 DEF CalmInv, CountInv, SlotKept
<1>12. LabelInv'
  <2>1. committed[task[t].version].spec = task[t].spec
    BY DEF CalmInv, LabelInv, LabelOK
  <2>2. ASSUME NEW u \in Tasks, u # t PROVE LabelOK(u)'
    <3>1. task'[u] = task[u] /\ LabelOK(u) /\ (Newest(u)' <=> Newest(u))
      BY <1>4, <2>2 DEF CalmInv, LabelInv
    <3> QED BY <3>1 DEF LabelOK, SlotKept, Asked, Brings
  <2>3. Newest(t) => request.spec = slot.spec
    BY <1>2 DEF CalmInv, LabelInv, LabelOK
  <2>4. (\E u \in Tasks : Newest(u)') \/ request.spec = slot.spec
    BY <1>4, <2>3 DEF CalmInv, LabelInv
  <2> QED BY <1>3, <2>1, <2>2, <2>4 DEF LabelInv, SlotKept
<1> QED BY <1>7, <1>8, <1>9, <1>10, <1>11, <1>12 DEF CalmInv

\* Painting a fetched version keeps what holds always.
LEMMA FetchedKeepsGrid ==
  ASSUME IInv, GInv, NEW t \in Tasks, Brings(t, Fetched), SlotKept, Done(t),
         surface'.version = task[t].version, request'.seq = request.seq,
         request'.known = Larger(request.known, task[t].version),
         request'.success = request.success, request'.outdated = request.outdated
  PROVE  GInv'
<1>1. GridTyped /\ task[t].version \in 1 .. slot.version
  BY GridTypes DEF GridTyped, Brings
<1>2. GridInv'
  BY <1>1 DEF GInv, GridInv, Larger, SlotKept, GridTyped
<1>3. HandlerGrid(t)' /\ Others(t) /\ ~Busy(t, Showing)' /\ ~Owes(t)
  BY DEF Done, HandlerGrid, Asked, Brings, Busy, Owes, Fetched
<1> QED BY <1>2, <1>3, ReplyKeepsGrid

LEMMA RepaintReplyConverges ==
  ASSUME IInv, GInv, CInv, NEW t \in Tasks, RepaintReply(t)
  PROVE  GInv' /\ CInv'
<1>1. Answered(t, "repaint") /\ SlotKept /\ task[t].pc = "answered" /\ task[t].call = "repaint"
  BY DEF RepaintReply, SlotKept, Answered
<1>2. GridTyped /\ TaskInv /\ request.known <= slot.version /\ request.known \in Nat
  BY GridTypes DEF GInv, GridInv, IInv, GridTyped
<1>3. CASE /\ task[t].reply = "ok"
           /\ Paint(task[t].spec, task[t].version, task[t].view, surface.live)
           /\ request' = [request EXCEPT !.known = Larger(@, task[t].version), !.error = FALSE]
           /\ Finish(t)
           /\ Mark("overtaken", task[t].version < surface.version)
  <2>1. PICK known : known = Larger(request.known, task[t].version)
    OBVIOUS
  <2>2. request' = [request EXCEPT !.known = known, !.error = FALSE]
    BY <1>3, <2>1
  <2>3. /\ request'.seq = request.seq /\ request'.known = known
        /\ request'.spec = request.spec /\ request'.success = request.success
        /\ request'.outdated = request.outdated
    BY <2>2 DEF IInv, RequestInv
  <2>4. Brings(t, Fetched) /\ Done(t)
    BY <1>1, <1>2, <1>3, DoneFacts DEF Brings, Fetched
  <2>5. /\ surface'.version = task[t].version /\ surface'.spec = task[t].spec
        /\ surface'.live = surface.live
    BY <1>3 DEF Paint
  <2>6. GInv'
    BY <1>1, <2>1, <2>3, <2>4, <2>5, FetchedKeepsGrid
  <2>7. ASSUME raced' = {} PROVE CalmInv'
    <3>1. raced = {} /\ ~(task[t].version < surface.version)
      BY <1>3, <2>7 DEF Mark
    <3>2. task[t].version >= surface.version
      BY <1>2, <3>1 DEF GridTyped
    <3> QED BY <1>1, <2>3, <2>4, <2>5, <3>1, <3>2, FetchedIsPainted DEF CInv
  <2> QED BY <2>6, <2>7 DEF CInv
<1>4. CASE /\ task[t].reply = "stale" /\ SettleFailed(t, request.known)
           /\ Mark("unanswered", OlderPending(t) \/ task[t].seq # request.seq)
  <2>1. PICK known : known = request.known
    OBVIOUS
  <2>2. /\ SettleFailed(t, known) /\ known \in Nat /\ known >= request.known
        /\ known <= slot.version
    BY <1>2, <1>4, <2>1
  <2>3. Busy(t, Showing) /\ ~Brings(t, Showing)
    BY <1>1, <1>4 DEF Busy, Brings, Showing
  <2>4. GInv'
    BY <1>1, <2>2, <2>3, SettleFailedKeepsGrid
  <2>5. ASSUME raced' = {} PROVE CalmInv'
    <3>1. raced = {} /\ ~OlderPending(t) /\ task[t].seq = request.seq
      BY <1>4, <2>5 DEF Mark
    <3>2. ASSUME NEW u \in Tasks, u # t, Busy(u, {"view"}) PROVE FALSE
      <4>1. task[u].seq <= request.seq /\ task[u].seq # request.seq
        BY <2>3, <3>1, <3>2 DEF GInv, SeqInv, Busy, Showing
      <4>2. task[u].seq < request.seq
        BY <1>2, <4>1 DEF GridTyped
      <4> QED BY <3>1, <3>2, <4>2 DEF OlderPending, Busy
    <3>3. Newest(t)
      BY <2>3, <3>1 DEF Newest
    <3> QED BY <1>1, <2>2, <2>3, <3>1, <3>2, <3>3, SettleFailedKeepsCalm DEF CInv
  <2> QED BY <2>4, <2>5 DEF CInv
<1> QED BY <1>3, <1>4 DEF RepaintReply

----------
(* SettleReply. *)

\* The refetch failed as well: what is painted stays.
LEMMA RefetchFailed ==
  ASSUME CalmInv, NEW t \in Tasks, task[t].pc = "answered", task[t].call = "settle",
         task[t].reply # "ok", SlotKept, Done(t), surface' = surface,
         request'.seq = request.seq, request'.spec = request.spec,
         request'.success = request.success
  PROVE  CalmInv'
<1>1. Others(t) /\ task'[t].pc = "idle"
  BY DEF Done
<1>2. /\ ~NewestView(t) /\ ~Open(t) /\ ~Older(t) /\ ~Painter(t) /\ ~Brings(t, {"view"})
      /\ ~Newest(t)' /\ ~NewestView(t)' /\ ~Open(t)' /\ ~Older(t)' /\ ~Painter(t)'
      /\ ~Brings(t, {"view"})' /\ ~OnCurrent(t)' /\ LabelOK(t)' /\ ~OnCurrent(t)
  BY <1>1 DEF Newest, NewestView, Open, Older, Painter, OnCurrent, Busy, Asked, Brings, LabelOK
<1>3. \A u \in Tasks : /\ u # t => task'[u] = task[u]
                       /\ u # t => (Newest(u)' <=> Newest(u))
                       /\ NewestView(u)' <=> NewestView(u)
                       /\ Open(u)' <=> Open(u)
                       /\ Older(u)' <=> Older(u)
                       /\ Painter(u)' <=> Painter(u)
                       /\ OnCurrent(u)' <=> OnCurrent(u)
  BY <1>1, <1>2, StaySame DEF SlotKept
<1>4. (Removal' <=> Removal) /\ \A j : Unheard(j)' <=> Unheard(j)
  BY <1>2, <1>3 DEF Removal, Unheard, Brings
<1>5. PaintInv'
  BY <1>3, <1>4 DEF CalmInv, PaintInv, SlotKept
<1>6. OlderInv'
  BY <1>2, <1>3 DEF CalmInv, OlderInv, Behind, Asked, Brings, SlotKept
<1>7. SpecsInv' /\ MakerInv'
  BY <1>4 DEF CalmInv, SpecsInv, MakerInv, SlotKept
<1>8. CountInv'
  BY <1>3, <1>4 DEF CalmInv, CountInv, SlotKept
<1>9. LabelInv'
  <2>1. ASSUME NEW u \in Tasks, u # t PROVE LabelOK(u)'
    <3>1. task'[u] = task[u] /\ LabelOK(u) /\ (Newest(u)' <=> Newest(u))
      BY <1>3, <2>1 DEF CalmInv, LabelInv
    <3> QED BY <3>1 DEF LabelOK, SlotKept, Asked, Brings
  <2>2. Newest(t) => request.spec = slot.spec
    BY DEF CalmInv, LabelInv, LabelOK, Fetched
  <2>3. (\E u \in Tasks : Newest(u)') \/ request.spec = slot.spec
    BY <1>3, <2>2 DEF CalmInv, LabelInv
  <2> QED BY <1>2, <2>1, <2>3 DEF CalmInv, LabelInv, SlotKept
<1> QED BY <1>5, <1>6, <1>7, <1>8, <1>9 DEF CalmInv

LEMMA SettleReplyConverges ==
  ASSUME IInv, GInv, CInv, NEW t \in Tasks, SettleReply(t)
  PROVE  GInv' /\ CInv'
<1>1. Answered(t, "settle") /\ SlotKept /\ task[t].pc = "answered" /\ task[t].call = "settle"
  BY DEF SettleReply, SlotKept, Answered
<1>2. GridTyped /\ Done(t)
  BY GridTypes, DoneFacts DEF SettleReply, IInv
<1>3. CASE /\ task[t].reply = "ok"
           /\ Paint(task[t].spec, task[t].version, task[t].view, task[t].live)
           /\ request' = [request EXCEPT !.known = Larger(@, task[t].version), !.error = TRUE]
           /\ Mark("overtaken", task[t].version <= surface.version)
  <2>1. PICK known : known = Larger(request.known, task[t].version)
    OBVIOUS
  <2>2. request' = [request EXCEPT !.known = known, !.error = TRUE]
    BY <1>3, <2>1
  <2>3. /\ request'.seq = request.seq /\ request'.known = known
        /\ request'.spec = request.spec /\ request'.success = request.success
        /\ request'.outdated = request.outdated
    BY <2>2 DEF IInv, RequestInv
  <2>4. Brings(t, Fetched)
    BY <1>1, <1>3 DEF Brings, Fetched
  <2>5. surface'.version = task[t].version /\ surface'.spec = task[t].spec
    BY <1>3 DEF Paint
  <2>6. GInv'
    BY <1>1, <1>2, <2>1, <2>3, <2>4, <2>5, FetchedKeepsGrid
  <2>7. ASSUME raced' = {} PROVE CalmInv'
    <3>1. raced = {} /\ ~(task[t].version <= surface.version)
      BY <1>3, <2>7 DEF Mark
    <3>2. task[t].version >= surface.version /\ task[t].version # surface.version
      BY <1>2, <3>1 DEF GridTyped
    <3>3. task[t].version = slot.version => Removal
      BY <2>4, <3>1, <3>2 DEF CInv, CalmInv, CountInv, OnCurrent
    <3> QED BY <1>1, <1>2, <2>3, <2>4, <2>5, <3>1, <3>2, <3>3, FetchedIsPainted DEF CInv
  <2> QED BY <2>6, <2>7 DEF CInv
<1>4. CASE /\ task[t].reply # "ok" /\ request' = [request EXCEPT !.error = TRUE]
           /\ UNCHANGED <<surface, raced>>
  <2>1. /\ request'.seq = request.seq /\ request'.known = request.known
        /\ request'.spec = request.spec /\ request'.success = request.success
        /\ request'.outdated = request.outdated
    BY <1>4 DEF IInv, RequestInv
  <2>2. GridInv'
    BY <1>1, <1>4, <2>1 DEF GInv, GridInv, SlotKept
  <2>3. HandlerGrid(t)' /\ Others(t) /\ ~Busy(t, Showing)' /\ ~Owes(t)
    BY <1>1, <1>2 DEF Done, HandlerGrid, Asked, Brings, Busy, Owes
  <2>4. GInv'
    BY <1>1, <2>1, <2>2, <2>3, ReplyKeepsGrid
  <2> QED BY <1>1, <1>2, <1>4, <2>1, <2>4, RefetchFailed DEF CInv
<1> QED BY <1>3, <1>4 DEF SettleReply

----------
(* RemoveReply. *)

LEMMA RemovedIsPainted ==
  ASSUME IInv, GInv, CalmInv, NEW t \in Tasks, Brings(t, {"remove"}), SlotKept, Done(t),
         task[t].version >= request.known, task[t].version >= surface.version,
         surface'.version = task[t].version, surface'.spec = surface.spec,
         surface'.live = Rows \ task[t].tombstones, request'.seq = request.seq,
         request'.spec = request.spec, request'.success = request.success,
         committed[task[t].version].spec = surface.spec
  PROVE  CalmInv'
<1>1. GridTyped /\ surface.version <= slot.version /\ task[t].version \in 1 .. slot.version
  BY GridTypes DEF GridTyped, GInv, GridInv, Brings
<1>2. Others(t) /\ task'[t].pc = "idle" /\ task[t].pc = "answered" /\ task[t].call = "remove"
  BY DEF Done, Brings
<1>3. /\ ~Newest(t) /\ ~NewestView(t) /\ ~Open(t) /\ ~Older(t) /\ ~Brings(t, {"view"})
      /\ ~Newest(t)' /\ ~NewestView(t)' /\ ~Open(t)' /\ ~Older(t)' /\ ~Painter(t)'
      /\ ~Brings(t, {"view"})' /\ ~OnCurrent(t)' /\ LabelOK(t)' /\ ~OnCurrent(t)
      /\ Painter(t) <=> task[t].version = slot.version
  BY <1>2 DEF Newest, NewestView, Open, Older, Painter, OnCurrent, Busy, Asked, Brings, Fetched,
     Showing, LabelOK
<1>4. \A u \in Tasks : /\ u # t => task'[u] = task[u]
                       /\ Newest(u)' <=> Newest(u)
                       /\ NewestView(u)' <=> NewestView(u)
                       /\ Open(u)' <=> Open(u)
                       /\ Older(u)' <=> Older(u)
                       /\ u # t => (Painter(u)' <=> Painter(u))
                       /\ OnCurrent(u)' <=> OnCurrent(u)
  BY <1>2, <1>3, StaySame DEF SlotKept
<1>5. \A j : Unheard(j)' <=> Unheard(j)
  BY <1>3, <1>4 DEF Unheard, Brings
<1>6. task[t].version # slot.version => /\ surface.version # slot.version
                                        /\ Removal' <=> Removal
  BY <1>1, <1>3, <1>4 DEF Removal, GridTyped
<1>7. PaintInv'
  BY <1>4, <1>6 DEF CalmInv, PaintInv, SlotKept
<1>8. OlderInv'
  BY <1>3, <1>4 DEF CalmInv, OlderInv, Behind, Asked, Brings, SlotKept
<1>9. SpecsInv'
  BY <1>5 DEF CalmInv, SpecsInv, SlotKept
<1>10. MakerInv'
  BY <1>5, <1>6 DEF CalmInv, MakerInv, SlotKept
<1>11. CountInv'
  <2>1. task[t].version = slot.version => task[t].tombstones = slot.tombstones
    BY DEF GInv, HandlerGrid, Brings, Changes
  <2> QED BY <1>4, <1>6, <2>1 DEF CalmInv, CountInv, SlotKept
<1>12. LabelInv'
  <2>1. ASSUME NEW u \in Tasks, u # t PROVE LabelOK(u)'
    <3>1. task'[u] = task[u] /\ LabelOK(u) /\ (Newest(u)' <=> Newest(u))
      BY <1>4, <2>1 DEF CalmInv, LabelInv
    <3> QED BY <3>1 DEF LabelOK, SlotKept, Asked, Brings
  <2> QED BY <1>3, <1>4, <2>1 DEF CalmInv, LabelInv, SlotKept
<1> QED BY <1>7, <1>8, <1>9, <1>10, <1>11, <1>12 DEF CalmInv

LEMMA RemoveReplyConverges ==
  ASSUME IInv, GInv, CInv, NEW t \in Tasks, RemoveReply(t)
  PROVE  GInv' /\ CInv'
<1>1. Answered(t, "remove") /\ SlotKept /\ task[t].pc = "answered" /\ task[t].call = "remove"
  BY DEF RemoveReply, SlotKept, Answered
<1>2. /\ GridTyped /\ TaskInv /\ HandlerGrid(t)
      /\ request.known <= slot.version /\ surface.version <= request.known
  BY GridTypes DEF GInv, GridInv, IInv
<1>3. CASE /\ task[t].reply = "ok" /\ Finish(t)
           /\ task[t].version < Larger(request.known, surface.version)
           /\ UNCHANGED <<surface, request, raced>>
  <2>1. Done(t) /\ Brings(t, {"remove"})
    BY <1>1, <1>2, <1>3, DoneFacts DEF Brings
  <2>2. Aside(t)
    BY <1>1, <1>2, <1>3 DEF Aside, Busy, Painter, Brings, Larger, Showing, GridTyped
  <2>3. Others(t) /\ Aside(t)' /\ HandlerGrid(t)' /\ ~Owes(t)
    BY <2>1 DEF Done, Aside, Busy, Painter, Brings, HandlerGrid, Asked, Owes
  <2> QED BY <1>1, <1>3, <2>2, <2>3, AsideKeeps DEF Unpainted, Unasked
<1>4. CASE /\ task[t].reply = "ok" /\ Finish(t)
           /\ ~(task[t].version < Larger(request.known, surface.version))
           /\ Paint(surface.spec, task[t].version, IF task[t].view = {} THEN {} ELSE None,
                    Rows \ task[t].tombstones)
           /\ request' = [request EXCEPT !.known = task[t].version, !.error = FALSE]
           /\ Mark("mislabelled", committed[task[t].version].spec # surface.spec)
  <2>1. PICK known : known = task[t].version
    OBVIOUS
  <2>2. request' = [request EXCEPT !.known = known, !.error = FALSE]
    BY <1>4, <2>1
  <2>3. /\ request'.seq = request.seq /\ request'.known = task[t].version
        /\ request'.spec = request.spec /\ request'.success = request.success
        /\ request'.outdated = request.outdated
    BY <2>1, <2>2 DEF IInv, RequestInv
  <2>4. Brings(t, {"remove"}) /\ Done(t)
    BY <1>1, <1>2, <1>4, DoneFacts DEF Brings
  <2>5. /\ surface'.version = task[t].version /\ surface'.spec = surface.spec
        /\ surface'.live = Rows \ task[t].tombstones
    BY <1>4 DEF Paint
  <2>6. /\ task[t].version >= request.known /\ task[t].version >= surface.version
        /\ task[t].version \in 1 .. slot.version
    BY <1>2, <1>4, <2>4 DEF Larger, GridTyped, Brings
  <2>7. GInv'
    <3>1. GridInv'
      BY <1>1, <1>2, <2>3, <2>5, <2>6 DEF GInv, GridInv, SlotKept, GridTyped
    <3>2. HandlerGrid(t)' /\ Others(t) /\ ~Busy(t, Showing)' /\ ~Owes(t)
      BY <2>4 DEF Done, HandlerGrid, Asked, Brings, Busy, Owes
    <3> QED BY <1>1, <2>3, <3>1, <3>2, ReplyKeepsGrid
  <2>8. ASSUME raced' = {} PROVE CalmInv'
    <3>1. raced = {} /\ committed[task[t].version].spec = surface.spec
      BY <1>4, <2>8 DEF Mark
    <3> QED BY <1>1, <2>3, <2>4, <2>5, <2>6, <3>1, RemovedIsPainted DEF CInv
  <2> QED BY <2>7, <2>8 DEF CInv
<1>5. CASE /\ MayRetry(t)
           /\ Send(t, "remove", task[t].version, [task[t] EXCEPT !.attempt = @ + 1])
           /\ UNCHANGED <<surface, request, raced>>
  <2>1. PICK base, locals : base = task[t].version /\ locals = [task[t] EXCEPT !.attempt = @ + 1]
    OBVIOUS
  <2>2. locals \in Task /\ locals.rows = task[t].rows
    BY <1>2, <1>5, <2>1, TaskTypes DEF MayRetry, Task
  <2>3. Send(t, "remove", base, locals)
    BY <1>5, <2>1
  <2>4. Sent(t, "remove", base) /\ task'[t].rows = locals.rows
    BY <1>2, <2>2, <2>3, SentFacts
  <2>5. /\ Others(t) /\ task'[t].pc = "sent" /\ task'[t].call = "remove"
        /\ task'[t].base = task[t].version /\ task'[t].rows = task[t].rows
    BY <2>1, <2>2, <2>4 DEF Sent
  <2>6. Aside(t) /\ Aside(t)' /\ Owes(t)'
    BY <1>1, <1>5, <2>5 DEF Aside, Owes, Busy, Painter, Brings, Showing, MayRetry
  <2>7. HandlerGrid(t)'
    BY <1>1, <1>2, <2>5 DEF HandlerGrid, Asked, Brings, SlotKept
  <2> QED BY <1>1, <1>5, <2>5, <2>6, <2>7, AsideKeeps DEF Unpainted, Unasked
<1>6. CASE /\ task[t].reply = "superseded" /\ Finish(t)
           /\ request' = [request EXCEPT !.outdated = TRUE] /\ UNCHANGED <<surface, raced>>
  <2>1. /\ Unasked /\ request'.outdated = TRUE
    BY <1>6 DEF IInv, RequestInv, Unasked
  <2>2. Done(t)
    BY <1>2, <1>6, DoneFacts
  <2>3. Others(t) /\ Aside(t) /\ Aside(t)' /\ HandlerGrid(t)'
    BY <1>1, <1>6, <2>2 DEF Done, Aside, Busy, Painter, Brings, HandlerGrid, Asked, Showing
  <2>4. DeletedInv'
    BY <2>1 DEF DeletedInv
  <2>5. SeqInv'
    BY <2>1, <2>3, SeqKept DEF GInv, Unasked, Aside
  <2>6. \A u \in Tasks : HandlerGrid(u)'
    BY <1>1, <2>3, HandlersKept DEF GInv
  <2>7. GridInv'
    BY <1>1, <1>6, <2>1 DEF GInv, GridInv, SlotKept, Unasked
  <2>8. CInv'
    BY <1>1, <1>6, <2>1, <2>3, AsideKeepsCalm DEF CInv, Unasked, Unpainted, SlotKept
  <2> QED BY <2>4, <2>5, <2>6, <2>7, <2>8 DEF GInv
<1> QED BY <1>3, <1>4, <1>5, <1>6 DEF RemoveReply

----------
(* The invariant of convergence. *)

LEMMA InitGrid == Init => GInv /\ CInv
<1> SUFFICES ASSUME Init PROVE GInv /\ CInv
  OBVIOUS
<1>1. PICK s \in Specs :
        /\ slot = [version |-> 1, spec |-> s, tombstones |-> {}, view |-> Selected(s)]
        /\ task = [t \in Tasks |-> Idle]
        /\ surface = [version |-> 1, spec |-> s, page |-> Selected(s), live |-> Rows,
                      generation |-> 0]
        /\ request = [seq |-> 0, known |-> 1, spec |-> s, retry |-> None, success |-> None,
                      error |-> FALSE, outdated |-> FALSE]
        /\ deleted = {}
        /\ committed = <<[spec |-> s, view |-> Selected(s)]>>
        /\ raced = {}
  BY DEF Init
<1>2. /\ slot.version = 1 /\ slot.spec = s /\ slot.tombstones = {} /\ deleted = {}
      /\ surface.version = 1 /\ surface.spec = s /\ surface.live = Rows
      /\ request.known = 1 /\ request.spec = s /\ request.success = None
  BY <1>1
<1>3. committed[1].spec = s
  BY <1>1
<1>4. \A t \in Tasks : task[t].pc = "idle"
  BY <1>1 DEF Idle
<1>5. \A t \in Tasks : \A calls : ~Busy(t, calls) /\ ~Asked(t, calls) /\ ~Brings(t, calls)
  BY <1>4 DEF Busy, Asked, Brings
<1>6. GInv
  <2>1. DeletedInv /\ SeqInv
    BY <1>2, <1>5 DEF DeletedInv, SeqInv
  <2>2. GridInv
    BY <1>2, <1>3 DEF GridInv
  <2>3. \A t \in Tasks : HandlerGrid(t)
    BY <1>4, <1>5 DEF HandlerGrid
  <2> QED BY <2>1, <2>2, <2>3 DEF GInv
<1>7. CalmInv
  <2>1. PaintInv /\ MakerInv
    BY <1>2 DEF PaintInv, MakerInv
  <2>2. OlderInv
    BY <1>5 DEF OlderInv, Older
  <2>3. SpecsInv
    BY <1>2 DEF SpecsInv
  <2>4. CountInv
    BY <1>2, <1>5 DEF CountInv, OnCurrent
  <2>5. LabelInv
    BY <1>2, <1>3, <1>5 DEF LabelInv, LabelOK, Newest
  <2> QED BY <2>1, <2>2, <2>3, <2>4, <2>5 DEF CalmInv
<1> QED BY <1>6, <1>7 DEF CInv

LEMMA StutterGrid == GInv /\ CInv /\ UNCHANGED vars => GInv' /\ CInv'
<1> SUFFICES ASSUME GInv, CInv, UNCHANGED vars PROVE GInv' /\ CInv'
  OBVIOUS
<1> USE DEF vars, Busy, Asked, Brings
<1>1. GInv'
  <2>1. DeletedInv'
    BY DEF GInv, DeletedInv, Owes
  <2>2. SeqInv' /\ GridInv'
    BY DEF GInv, SeqInv, GridInv
  <2>3. \A t \in Tasks : HandlerGrid(t)'
    BY DEF GInv, HandlerGrid
  <2> QED BY <2>1, <2>2, <2>3 DEF GInv
<1>2. ASSUME raced = {} PROVE CalmInv'
  <2>1. CalmInv
    BY <1>2 DEF CInv
  <2>2. PaintInv'
    BY <2>1 DEF CalmInv, PaintInv, Removal, Painter, NewestView, Newest, OnCurrent
  <2>3. OlderInv'
    BY <2>1 DEF CalmInv, OlderInv, Open, NewestView, Newest, Older, Behind
  <2>4. SpecsInv' /\ MakerInv'
    BY <2>1 DEF CalmInv, SpecsInv, MakerInv, Removal, Painter, Unheard
  <2>5. CountInv'
    BY <2>1 DEF CalmInv, CountInv, Removal, Painter, OnCurrent
  <2>6. LabelInv'
    BY <2>1 DEF CalmInv, LabelInv, LabelOK, Newest
  <2> QED BY <2>2, <2>3, <2>4, <2>5, <2>6 DEF CalmInv
<1> QED BY <1>1, <1>2 DEF CInv

\* Every action keeps the invariant of convergence.
LEMMA NextInv == Inv /\ [Next]_vars => Inv'
<1> SUFFICES ASSUME IInv, GInv, CInv, [Next]_vars PROVE IInv' /\ GInv' /\ CInv'
  BY DEF Inv
<1>1. IInv'
  BY NextIInv
<1>2. CASE \E t \in Tasks : Backend(t)
  BY <1>1, <1>2, PrepareViewConverges, PrepareRemovalConverges, CommitConverges,
     FetchWindowConverges DEF Backend
<1>3. CASE \E t \in Tasks : Continue(t)
  BY <1>1, <1>3, PageReplyConverges, ViewSucceededConverges, ViewFailedConverges,
     RepaintReplyConverges, SettleReplyConverges, RangeReplyConverges, RowsDeletedConverges,
     RemoveReplyConverges DEF Continue
<1>4. CASE \E t \in Tasks : User(t) \/ RequestPage(t)
  BY <1>1, <1>4, UserRequestConverges, BeginDeleteConverges, RequestPageConverges DEF User
<1>5. CASE UNCHANGED vars
  BY <1>1, <1>5, StutterGrid
<1> QED BY <1>1, <1>2, <1>3, <1>4, <1>5 DEF Next

\* Nothing is left to be painted, removed or reverted once every handler is done.
LEMMA SettledIsConverged ==
  ASSUME Inv
  PROVE  GridConverges
<1>1. ASSUME Settled
      PROVE  /\ \A t \in Tasks : ~Busy(t, Showing) /\ ~Busy(t, {"remove"})
             /\ ~Removal /\ \A t \in Tasks : ~Newest(t) /\ ~OnCurrent(t) /\ ~Owes(t)
  <2>1. \A t \in Tasks : ~Busy(t, Showing) /\ ~Busy(t, {"remove"})
    BY <1>1 DEF Settled, Busy, Showing
  <2> QED BY <2>1 DEF Removal, Painter, Newest, OnCurrent, Owes, Busy, Asked, Brings,
                      Showing, Fetched
<1>2. DeletedRowsLeave
  <2>1. ASSUME Settled, ~request.outdated PROVE deleted = slot.tombstones
    BY <1>1, <2>1 DEF Inv, GInv, DeletedInv, IInv, SlotInv
  <2> QED BY <2>1 DEF DeletedRowsLeave
<1>3. ASSUME raced = {}, Settled
      PROVE  /\ surface.version = slot.version /\ surface.spec = slot.spec
             /\ surface.live = Rows \ slot.tombstones /\ request.spec = surface.spec
  <2>1. CalmInv /\ GridInv
    BY <1>3 DEF Inv, CInv, GInv
  <2>2. surface.version = slot.version
    BY <1>1, <1>3, <2>1 DEF CalmInv, PaintInv, NewestView
  <2>3. surface.spec = slot.spec
    BY <2>1, <2>2 DEF CalmInv, LabelInv, GridInv
  <2>4. surface.live = Rows \ slot.tombstones
    BY <1>1, <1>3, <2>1, <2>2 DEF CalmInv, CountInv
  <2>5. request.spec = slot.spec
    BY <1>1, <1>3, <2>1 DEF CalmInv, LabelInv
  <2> QED BY <2>2, <2>3, <2>4, <2>5
<1> QED BY <1>2, <1>3 DEF GridConverges, SettledGridIsCurrent, SettledSpecIsShown,
                          SettledCountIsRight, SettledRequestIsShown

\* However sorts, filters, their retries, deletes and the refetches after them overtake
\* each other: once all are answered, the rows MySQL deleted have left or the user was
\* told, and without one of the named gaps the grid shows the backend's version with its
\* sort, filter and row count (issueViewRequest, settleFailedView and deleteResultRows).
THEOREM GridAlwaysConverges == Spec => []GridConverges
<1>1. Init => Inv
  BY InitIInv, InitGrid DEF Inv
<1>2. Inv => GridConverges
  BY SettledIsConverged
<1>3. QED BY <1>1, <1>2, NextInv, PTL DEF Spec

=============================================================================
