------------------------------ MODULE ResultView ------------------------------
(***************************************************************************)
(* The view of one cached result: the slot in the backend (result_view.rs) *)
(* with its version, and the grid in the front end (query-store.ts,        *)
(* result-window-cache.ts) that changes and paints it.                     *)
(*                                                                         *)
(* The front end is one thread.  Between an await and its continuation any *)
(* other handler may run; requests and replies overtake each other.  The   *)
(* backend runs each request on a thread of its own; changing a view reads *)
(* the slot and writes it back by compare-and-swap on its version.         *)
(*                                                                         *)
(* The result stays the same: once it is replaced, or expires, every       *)
(* handler drops its reply.  A view is the set of its rows, their order is *)
(* part of the spec; the page stands for the windows the grid loaded.      *)
(***************************************************************************)
EXTENDS Naturals, FiniteSets, Sequences

CONSTANTS Tasks,        \* front-end handlers that may be waiting at once
          Rows,         \* base indices of the result's rows
          Sorts, Filters,
          Matching,     \* rows each filter lets through
          Ahead,        \* pairs of rows, the first ahead of the second, under each sort
          Refused,      \* filters the backend refuses (LIKE pattern too large)
          MaxRequests,  \* bound: view requests
          None

Specs       == [sort : Sorts, filter : Filters]
Selected(s) == Matching[s.filter]

ASSUME MatchingAssumption == Matching \in [Filters -> SUBSET Rows]
ASSUME AheadAssumption    == Ahead \in [Sorts -> SUBSET (Rows \X Rows)]
ASSUME RefusedAssumption  == Refused \subseteq Filters
ASSUME BoundAssumption    == MaxRequests \in Nat

VARIABLES
    slot,      \* the StoredResult: version, spec, tombstones, view
    task,      \* per handler: what it waits for, its locals, the reply
    surface,   \* what is painted: version, spec, page, row count, generation
    request,   \* latest sequence number and known version, ViewTracker, notices
    deleted,   \* rows deleted from the MySQL table
    committed, \* every version's spec and view: history, and the order of its rows
    raced      \* history: gaps in which a handler acted on what had changed

vars == <<slot, task, surface, request, deleted, committed, raced>>

Versions == Nat \ {0}
Replies  == {"none", "ok", "superseded", "stale", "refused"}
Calls    == {"view", "remove", "repaint", "settle", "page", "range"}
Labels   == {"idle", "deleting", "sent", "checked", "answered"}

\* base: the version it names; checked, from: the rows the user checked and in which
\* version; rows, rest: those read so far, those still to be read; live, generation:
\* what it captured before waiting; view, tombstones: what the backend prepared, then
\* what the reply carries.
Task == [pc : Labels, call : Calls, seq : Nat, base : Nat, spec : Specs,
         attempt : 0 .. 1, checked : SUBSET Rows, from : Nat, rows : SUBSET Rows,
         rest : SUBSET Rows, live : SUBSET Rows, generation : Nat, reply : Replies,
         version : Nat, view : SUBSET Rows, tombstones : SUBSET Rows]

Success == [version : Versions, spec : Specs, view : SUBSET Rows, live : SUBSET Rows]

ASSUME NoneAssumption == None \notin Success

Plain == CHOOSE s \in Specs : TRUE

Idle == [pc |-> "idle", call |-> "page", seq |-> 0, base |-> 0, spec |-> Plain,
         attempt |-> 0, checked |-> {}, from |-> 0, rows |-> {}, rest |-> {},
         live |-> {}, generation |-> 0, reply |-> "none", version |-> 0, view |-> {},
         tombstones |-> {}]

\* A fresh execute, or a re-run that kept the user's spec.
Init ==
    \E s \in Specs :
        /\ s.filter \notin Refused
        /\ slot = [version |-> 1, spec |-> s, tombstones |-> {}, view |-> Selected(s)]
        /\ task = [t \in Tasks |-> Idle]
        /\ surface = [version |-> 1, spec |-> s, page |-> Selected(s), live |-> Rows,
                      generation |-> 0]
        /\ request = [seq |-> 0, known |-> 1, spec |-> s, retry |-> None, success |-> None,
                      error |-> FALSE, outdated |-> FALSE]
        /\ deleted = {}
        /\ committed = <<[spec |-> s, view |-> Selected(s)]>>
        /\ raced = {}

Larger(a, b) == IF a > b THEN a ELSE b
Mark(gap, wrong) == raced' = IF wrong THEN raced \cup {gap} ELSE raced

IsIdle(t)      == task[t].pc = "idle"
Answered(t, c) == task[t].pc = "answered" /\ task[t].call = c
Finish(t)      == task' = [task EXCEPT ![t] = Idle]

\* A request on its way; its reply fields are empty again.
Send(t, c, base, locals) ==
    task' = [task EXCEPT ![t] =
        [locals EXCEPT !.pc = "sent", !.call = c, !.base = base, !.reply = "none",
                       !.version = 0, !.view = {}, !.tombstones = {}]]

Answer(t, reply, version, view, tombstones) ==
    task' = [task EXCEPT ![t].pc = "answered", ![t].reply = reply, ![t].version = version,
                         ![t].view = view, ![t].tombstones = tombstones]

(***************************************************************************)
(* The backend.                                                            *)
(***************************************************************************)
Superseded(t) == Answer(t, "superseded", slot.version, {}, {})

Prepared(t, view, tombstones) ==
    task' = [task EXCEPT ![t].pc = "checked", ![t].view = view, ![t].tombstones = tombstones]

\* prepare_result_view: the view is built from the slot as it is now.
PrepareView(t) ==
    /\ task[t].pc = "sent" /\ task[t].call = "view"
    /\ IF slot.version # task[t].base THEN Superseded(t)
       ELSE IF task[t].spec.filter \in Refused THEN Answer(t, "refused", 0, {}, {})
       ELSE Prepared(t, Selected(task[t].spec) \ slot.tombstones, slot.tombstones)
    /\ UNCHANGED <<slot, surface, request, deleted, committed, raced>>

\* Faulty variant: rows deleted before come back.
ForgetsTombstones(t) ==
    /\ task[t].pc = "sent" /\ task[t].call = "remove"
    /\ IF slot.version # task[t].base THEN Superseded(t)
       ELSE Prepared(t, slot.view \ task[t].rows, task[t].rows)
    /\ UNCHANGED <<slot, surface, request, deleted, committed, raced>>

\* The first half of remove_result_rows_impl.
PrepareRemoval(t) ==
    /\ task[t].pc = "sent" /\ task[t].call = "remove"
    /\ IF slot.version # task[t].base THEN Superseded(t)
       ELSE LET gone == slot.tombstones \cup task[t].rows
            IN  Prepared(t, slot.view \ gone, gone)
    /\ UNCHANGED <<slot, surface, request, deleted, committed, raced>>

Write(t, spec, tombstones) ==
    /\ slot' = [version |-> slot.version + 1, spec |-> spec, tombstones |-> tombstones,
                view |-> task[t].view]
    /\ committed' = Append(committed, [spec |-> spec, view |-> task[t].view])
    /\ Answer(t, "ok", slot.version + 1, task[t].view, tombstones)

\* Faulty variant: the version is not compared again.
CommitsUnchecked(t) ==
    /\ task[t].pc = "checked"
    /\ IF task[t].call = "view" THEN Write(t, task[t].spec, slot.tombstones)
                                ELSE Write(t, slot.spec, task[t].tombstones)
    /\ UNCHANGED <<surface, request, deleted, raced>>

\* commit_result_view, or the second half of remove_result_rows_impl.
Commit(t) ==
    /\ task[t].pc = "checked"
    /\ IF slot.version # task[t].base
       THEN Superseded(t) /\ UNCHANGED <<slot, committed>>
       ELSE IF task[t].call = "view" THEN Write(t, task[t].spec, slot.tombstones)
                                     ELSE Write(t, slot.spec, task[t].tombstones)
    /\ UNCHANGED <<surface, request, deleted, raced>>

\* fetch_result_window_impl.
FetchWindow(t) ==
    /\ task[t].pc = "sent" /\ task[t].call \in {"repaint", "settle", "page", "range"}
    /\ IF slot.version # task[t].base THEN Answer(t, "stale", 0, {}, {})
                                      ELSE Answer(t, "ok", slot.version, slot.view, {})
    /\ UNCHANGED <<slot, surface, request, deleted, committed, raced>>

(***************************************************************************)
(* The front end: painting.                                                *)
(***************************************************************************)
\* page is None when the reply had no window and the view has rows to fetch.
Paint(spec, version, page, live) ==
    surface' = [version |-> version, spec |-> spec, page |-> page, live |-> live,
                generation |-> surface.generation + 1]

\* requestPages: the grid asks for rows it does not have.
RequestPage(t) ==
    /\ IsIdle(t) /\ surface.page = None
    /\ \A u \in Tasks : task[u].pc # "idle" /\ task[u].call = "page" =>
          task[u].generation # surface.generation
    /\ Send(t, "page", surface.version, [Idle EXCEPT !.generation = surface.generation])
    /\ UNCHANGED <<slot, surface, request, deleted, committed, raced>>

\* Faulty variant: any rows that arrive are stored.
AnyPageFits(t) == task[t].reply = "ok"

\* fetchPage, continued: the reply of an earlier surface is dropped.
PageFits(t) ==
    /\ task[t].reply = "ok"
    /\ task[t].generation = surface.generation /\ task[t].version = surface.version

PageReply(t) ==
    /\ Answered(t, "page")
    /\ surface' = IF PageFits(t) THEN [surface EXCEPT !.page = task[t].view] ELSE surface
    /\ Finish(t)
    /\ UNCHANGED <<slot, request, deleted, committed, raced>>

(***************************************************************************)
(* The front end: view requests.                                           *)
(***************************************************************************)
RequestView(t, spec) ==
    /\ IsIdle(t) /\ request.seq < MaxRequests
    /\ request' = [request EXCEPT !.seq = @ + 1, !.spec = spec, !.retry = None,
                                  !.error = FALSE]
    /\ Send(t, "view", request.known, [Idle EXCEPT !.seq = request.seq + 1, !.spec = spec])
    /\ UNCHANGED <<slot, surface, deleted, committed, raced>>

SortResults(t)     == \E s \in Sorts : RequestView(t, [request.spec EXCEPT !.sort = s])
ApplyFilters(t)    == \E f \in Filters : RequestView(t, [request.spec EXCEPT !.filter = f])
RetryViewChange(t) == /\ request.error
                      /\ RequestView(t, IF request.retry = None THEN request.spec
                                                                ELSE request.retry)

\* Faulty variant: it is tried until it succeeds.
AlwaysRetries(t) == task[t].reply = "superseded"

\* A refused compare-and-swap is tried once more.
MayRetry(t) == task[t].reply = "superseded" /\ task[t].attempt = 0

\* An older request of the view is still on its way.
OlderPending(t) ==
    \E u \in Tasks \ {t} :
        /\ task[u].pc # "idle" /\ task[u].call = "view"
        /\ task[u].seq < request.seq

\* settleFailedView, given the known version raised by the failure.
SettleFailed(t, known) ==
    LET success == request.success
        reverted == IF success # None THEN success.spec ELSE surface.spec
        failed   == [request EXCEPT !.known = known, !.retry = request.spec]
    IN  \/ /\ success # None /\ success.version >= known
           /\ request' = [failed EXCEPT !.spec = success.spec, !.error = TRUE]
           /\ Paint(success.spec, success.version, success.view, success.live)
           /\ Finish(t)
        \/ /\ success # None => success.version < known
           /\ known > surface.version
           /\ request' = [failed EXCEPT !.spec = reverted]
           /\ Send(t, "settle", known, [task[t] EXCEPT !.spec = reverted,
                                                       !.live = surface.live])
           /\ UNCHANGED surface
        \/ /\ success # None => success.version < known
           /\ known <= surface.version
           /\ request' = [failed EXCEPT !.spec = surface.spec, !.error = TRUE]
           /\ Finish(t)
           /\ UNCHANGED surface

\* Faulty variant: what arrives last is painted.
NeverOutdated(t) == FALSE

\* The server moved past this version: paint the known one instead.
Outdated(t) == task[t].version < request.known

\* issueViewRequest, continued with a success.
ViewSucceeded(t) ==
    /\ Answered(t, "view") /\ task[t].reply = "ok"
    /\ LET known   == Larger(request.known, task[t].version)
           live    == Rows \ task[t].tombstones
           success == [version |-> task[t].version, spec |-> task[t].spec,
                       view |-> task[t].view, live |-> live]
           kept    == [request EXCEPT !.success = success, !.known = known]
       IN  \/ /\ task[t].seq # request.seq
              /\ request' = kept /\ Finish(t) /\ UNCHANGED surface
           \/ /\ task[t].seq = request.seq /\ Outdated(t)
              /\ request' = kept
              /\ Send(t, "repaint", known, task[t]) /\ UNCHANGED surface
           \/ /\ task[t].seq = request.seq /\ ~Outdated(t)
              /\ request' = [kept EXCEPT !.error = FALSE]
              /\ Paint(task[t].spec, task[t].version, task[t].view, live)
              /\ Finish(t)
    /\ Mark("reordered", request.success # None /\ request.success.version > task[t].version)
    /\ UNCHANGED <<slot, deleted, committed>>

\* issueViewRequest, continued with a refusal: one new attempt, then the terminal rule.
ViewFailed(t) ==
    /\ Answered(t, "view") /\ task[t].reply \in {"superseded", "refused"}
    /\ LET known == Larger(request.known, task[t].version)
       IN  \/ /\ task[t].seq # request.seq
              /\ request' = [request EXCEPT !.known = known]
              /\ Finish(t) /\ UNCHANGED <<surface, raced>>
           \/ /\ task[t].seq = request.seq /\ MayRetry(t)
              /\ request' = [request EXCEPT !.known = known]
              /\ Send(t, "view", task[t].version, [task[t] EXCEPT !.attempt = @ + 1])
              /\ UNCHANGED <<surface, raced>>
           \/ /\ task[t].seq = request.seq /\ ~MayRetry(t)
              /\ SettleFailed(t, known)
              /\ Mark("unanswered", OlderPending(t))
    /\ UNCHANGED <<slot, deleted, committed>>

\* repaintLatestKnownView, continued.
RepaintReply(t) ==
    /\ Answered(t, "repaint")
    /\ \/ /\ task[t].reply = "ok"
          /\ Paint(task[t].spec, task[t].version, task[t].view, surface.live)
          /\ request' = [request EXCEPT !.known = Larger(@, task[t].version), !.error = FALSE]
          /\ Finish(t)
          /\ Mark("overtaken", task[t].version < surface.version)
       \/ /\ task[t].reply = "stale"
          /\ SettleFailed(t, request.known)
          /\ Mark("unanswered", OlderPending(t) \/ task[t].seq # request.seq)
    /\ UNCHANGED <<slot, deleted, committed>>

\* Faulty variant: a failed refetch is repeated.
RefetchesUntilItWorks(t) ==
    /\ Answered(t, "settle")
    /\ IF task[t].reply = "ok"
       THEN /\ Paint(task[t].spec, task[t].version, task[t].view, task[t].live)
            /\ request' = [request EXCEPT !.known = Larger(@, task[t].version),
                                          !.error = TRUE]
            /\ Finish(t)
       ELSE Send(t, "settle", task[t].base, task[t]) /\ UNCHANGED <<surface, request>>
    /\ UNCHANGED <<slot, deleted, committed, raced>>

\* settleFailedView, continued after its refetch.
SettleReply(t) ==
    /\ Answered(t, "settle")
    /\ IF task[t].reply = "ok"
       THEN /\ Paint(task[t].spec, task[t].version, task[t].view, task[t].live)
            /\ request' = [request EXCEPT !.known = Larger(@, task[t].version),
                                          !.error = TRUE]
            /\ Mark("overtaken", task[t].version <= surface.version)
       ELSE request' = [request EXCEPT !.error = TRUE] /\ UNCHANGED <<surface, raced>>
    /\ Finish(t)
    /\ UNCHANGED <<slot, deleted, committed>>

(***************************************************************************)
(* The front end: deleting rows.                                           *)
(***************************************************************************)
\* The rows a delete will send to MySQL are known.
Resolved(t, checked, rows) ==
    task' = [task EXCEPT ![t] = [Idle EXCEPT !.pc = "deleting", !.call = "remove",
                                             !.checked = checked, !.rows = rows]]

\* deleteResultRows: the checked rows are loaded, or a window of them is fetched.
BeginDelete(t) ==
    /\ IsIdle(t) /\ surface.page # None
    /\ \E rows \in (SUBSET surface.page) \ {{}} :
          \/ Resolved(t, rows, rows)
          \/ Send(t, "range", surface.version,
                  [Idle EXCEPT !.checked = rows, !.rest = rows, !.from = surface.version])
    /\ UNCHANGED <<slot, surface, request, deleted, committed, raced>>

Position(version, r) ==
    LET made == committed[version]
    IN  Cardinality({q \in made.view : <<q, r>> \in Ahead[made.spec.sort]})

\* What version holds at the positions rows have in the version they were checked in.
RowsAt(rows, from, version) ==
    {r \in committed[version].view : \E q \in rows : Position(version, r) = Position(from, q)}

\* readViewRange, continued: the next range is read from the surface as it is now.
RangeReply(t) ==
    /\ Answered(t, "range")
    /\ \/ task[t].reply = "stale" /\ Finish(t)
       \/ /\ task[t].reply = "ok"
          /\ \E range \in (SUBSET task[t].rest) \ {{}} :
                LET rows == task[t].rows \cup RowsAt(range, task[t].from, task[t].version)
                    rest == task[t].rest \ range
                IN  \/ rest = {} /\ Resolved(t, task[t].checked, rows)
                    \/ /\ rest # {} /\ surface.page # None
                       /\ Resolved(t, task[t].checked,
                                   rows \cup RowsAt(rest, task[t].from, surface.version))
                    \/ /\ rest # {}
                       /\ Send(t, "range", surface.version,
                               [task[t] EXCEPT !.rows = rows, !.rest = rest])
    /\ UNCHANGED <<slot, surface, request, deleted, committed, raced>>

\* Faulty variant: every checked row leaves the result.
RemovesEveryTarget(t) ==
    /\ task[t].pc = "deleting"
    /\ \E rows \in SUBSET (task[t].rows \ deleted) :
          /\ deleted' = deleted \cup rows
          /\ IF rows = {} THEN Finish(t)
             ELSE Send(t, "remove", request.known, [Idle EXCEPT !.rows = task[t].rows])
    /\ UNCHANGED <<slot, surface, request, committed, raced>>

\* MySQL deleted some of them; a row that is gone stops the rest.
RowsDeleted(t) ==
    /\ task[t].pc = "deleting"
    /\ \E rows \in SUBSET (task[t].rows \ deleted) :
          /\ deleted' = deleted \cup rows
          /\ IF rows = {} THEN Finish(t)
             ELSE Send(t, "remove", request.known, [Idle EXCEPT !.rows = rows])
    /\ UNCHANGED <<slot, surface, request, committed, raced>>

RemoveReply(t) ==
    /\ Answered(t, "remove")
    /\ \/ /\ task[t].reply = "ok" /\ Finish(t)
          /\ IF task[t].version < Larger(request.known, surface.version)
             THEN UNCHANGED <<surface, request, raced>>
             ELSE /\ Paint(surface.spec, task[t].version,
                           IF task[t].view = {} THEN {} ELSE None,
                           Rows \ task[t].tombstones)
                  /\ request' = [request EXCEPT !.known = task[t].version, !.error = FALSE]
                  /\ Mark("mislabelled", committed[task[t].version].spec # surface.spec)
       \/ /\ MayRetry(t)
          /\ Send(t, "remove", task[t].version, [task[t] EXCEPT !.attempt = @ + 1])
          /\ UNCHANGED <<surface, request, raced>>
       \/ /\ task[t].reply = "superseded" /\ ~MayRetry(t) /\ Finish(t)
          /\ request' = [request EXCEPT !.outdated = TRUE]
          /\ UNCHANGED <<surface, raced>>
    /\ UNCHANGED <<slot, deleted, committed>>

-----------------------------------------------------------------------------
Backend(t)  == PrepareView(t) \/ PrepareRemoval(t) \/ Commit(t) \/ FetchWindow(t)
Continue(t) == \/ PageReply(t) \/ ViewSucceeded(t) \/ ViewFailed(t) \/ RepaintReply(t)
               \/ SettleReply(t) \/ RangeReply(t) \/ RowsDeleted(t) \/ RemoveReply(t)
User(t)     == SortResults(t) \/ ApplyFilters(t) \/ RetryViewChange(t) \/ BeginDelete(t)

Next == \E t \in Tasks : Backend(t) \/ Continue(t) \/ User(t) \/ RequestPage(t)

Spec == Init /\ [][Next]_vars

\* Started calls run to an end; users owe nothing.
FairSpec == Spec /\ \A t \in Tasks : WF_vars(Backend(t) \/ Continue(t))

(***************************************************************************)
(* Safety.                                                                 *)
(***************************************************************************)
TypeOK ==
    /\ slot \in [version : Versions, spec : Specs, tombstones : SUBSET Rows,
                 view : SUBSET Rows]
    /\ task \in [Tasks -> Task]
    /\ surface \in [version : Versions, spec : Specs, page : {None} \cup SUBSET Rows,
                    live : SUBSET Rows, generation : Nat]
    /\ request \in [seq : 0 .. MaxRequests, known : Versions, spec : Specs,
                    retry : {None} \cup Specs, success : {None} \cup Success,
                    error : BOOLEAN, outdated : BOOLEAN]
    /\ deleted \subseteq Rows
    /\ committed \in Seq([spec : Specs, view : SUBSET Rows])
    /\ raced \subseteq {"unanswered", "overtaken", "mislabelled", "reordered"}

\* Only rows MySQL deleted leave the result (deleteResultRows, query-store.ts:2720).
OnlyDeletedRowsLeave == slot.tombstones \subseteq deleted

\* The rows on screen belong to the painted version, whatever replies were late
\* (fetchPage, result-window-cache.ts:422).
PageIsOfItsVersion ==
    surface.page # None => surface.page = committed[surface.version].view

\* No view change or delete is waiting for an answer.
Settled == \A t \in Tasks : task[t].pc = "idle" \/ task[t].call = "page"

\* Once settled the grid shows the version the backend has, after a delete that could not
\* be applied too.
SettledGridIsCurrent == Settled => surface.version = slot.version

\* Once settled the sort and filter the grid shows are those of its version.
SettledSpecIsShown ==
    Settled /\ surface.version = slot.version => surface.spec = slot.spec

\* Once settled the row count of the current version leaves the deleted rows out.
SettledCountIsRight ==
    Settled /\ surface.version = slot.version => surface.live = Rows \ slot.tombstones

\* Once settled the next change starts from the sort and filter that is shown.
SettledRequestIsShown == Settled => request.spec = surface.spec

\* Rows MySQL deleted leave the result, or the user is told to run the query again.
DeletedRowsLeave == Settled /\ ~request.outdated => deleted = slot.tombstones

\* The deleted rows leave and, without one of the named gaps, the grid converges to
\* the backend's view (issueViewRequest, settleFailedView and deleteResultRows together).
GridConverges ==
    /\ DeletedRowsLeave
    /\ raced = {} => /\ SettledGridIsCurrent /\ SettledSpecIsShown
                  /\ SettledCountIsRight /\ SettledRequestIsShown

\* Only rows the user checked are sent to MySQL (deleteResultRows).
OnlyCheckedRowsAreDeleted ==
    \A t \in Tasks : task[t].pc = "deleting" => task[t].rows \subseteq task[t].checked

(***************************************************************************)
(* The slot as an atomic register.                                         *)
(***************************************************************************)
Register == INSTANCE ViewRegister
              WITH version <- slot.version, spec <- slot.spec,
                   removed <- slot.tombstones, view <- slot.view

ImplementsRegister == Register!Spec

(***************************************************************************)
(* Liveness, under FairSpec.                                               *)
(***************************************************************************)
\* Every view change and delete ends, however often its version was overtaken.
RequestsEnd == \A t \in Tasks : task[t].pc # "idle" ~> task[t].pc = "idle"
=============================================================================
