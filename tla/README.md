# SqlLumen: models, checks and proofs

SqlLumen is a desktop MySQL client: a Rust backend (`src/src-tauri/src`) with a
TypeScript front end (`src/src`). The front end calls backend commands; the
backend keeps MySQL connections, cached results and jobs per open connection.
This directory holds TLA+ models of the parts of it where steps of several
actors interleave, the TLC runs that check them and the TLAPS proofs about them.

## 1. Inventory

Each part: its *state*, its *operations*, what makes it *hard*, what makes it
*correct*.

**Editor session and query runs** (`mysql/session.rs`, `mysql/multi_result.rs`,
`mysql/query_executor.rs`).
*State*: per open connection one slot `Arc<Mutex<Option<EditorSession>>>` in
`editor_sessions`; `running_queries` maps a tab to the MySQL thread its run uses.
*Operations*: `acquire` (lock, ping, reconnect), runs of several statements,
the row ceiling (KILL QUERY, drain, `DO 0`), `capture_session_database`,
`cancel_query`, `use_database`, `close`.
*Hard*: all tabs and exports share one MySQL session; KILL QUERY travels on
another connection and may be late; the slot is removed while tasks wait on it.
*Correct*: a KILL only interrupts what it was meant for; statements of two tasks
never overlap; the queue is first come, first served; every run ends; nothing
survives the close.

**Streaming full export** (`export/result_export.rs`, `export/stream_writer.rs`).
*State*: a job per export (`status`, `cancel_requested`, `mysql_thread_id`,
`kills_in_flight`, `kill_sent`), a file written under a temporary name.
*Operations*: start, re-run on the editor session, stop at a write failure or a
full sheet, cancel, `wait_for_cancel_kills`, absorb, restore the database,
finish and rename, cancel on close.
*Hard*: a cancel at any of these points, twice, or with a KILL that hangs.
*Correct*: no truncated file is published as complete; a finished job is final;
a cancelled job ends; its KILLs hit nobody else.

**Result cache** (`mysql/result_cache.rs`).
*State*: a moka cache per (connection, tab), generations, invalidation versions,
spill markers, spill files, a spill worker thread.
*Operations*: `get` with re-warm, `insert_if_current`, in-place slot writes,
`remove_with_spill_cleanup`, eviction by age, size and memory pressure.
*Hard*: nearly every step is taken under its own lock; eviction and the worker
interleave with readers and writers.
*Correct*: a reader never gets an older result than one it could already see; a
closed tab leaves no file behind; an edit never brings an old result back.

**Result view** (`mysql/result_view.rs`, `stores/query-store.ts`,
`lib/result-window-cache.ts`).
*State*: per result slot a view (sort, filter) with a version and tombstones;
in the front end the version it shows and the windows it fetched.
*Operations*: prepare and commit a view, fetch a window, remove rows, replace a
re-executed slot.
*Hard*: replies arrive out of order and after re-runs.
*Correct*: a window shown belongs to the version shown; a removal is never lost.

**Query tabs** (`stores/query-store.ts`, `lib/frontend-cache-lifecycle.ts`).
*State*: per tab a status shared by runs, the AI lock and restores; results whose
rows are resident, evicted or being restored; one inactive timer per result index.
*Operations*: run, batch, re-run, cancel, switch result, hide, evict, restore,
validate, lock for the AI, close.
*Hard*: every operation awaits a reply and the tab may be re-run or closed meanwhile.
*Correct*: a reply changes only what it was for; no tab stays busy; a closed tab is
brought back by nothing but the one reply that does not look for it.

**Row editing** (`stores/query-store.ts`, `mysql/query_executor.rs`).
*State*: the form of one row and three copies of the rows: the table, the
backend's cached result, the loaded page.
*Operations*: analyse, type, clone, save (UPDATE, then the cached row, then the
page), insert and refresh, discard, a dialog that defers a navigation.
*Hard*: the three copies are written in three steps, two of them by a base index.
*Correct*: they agree afterwards; an edit is never lost by a navigation.

**Table data** (`stores/table-data-store.ts`, `mysql/table_data*.rs`): the same for
a table's page, with sorts, filters, retries, bulk deletes, eviction and restore.

**AI chat** (`stores/ai-store.ts`, `ai/*`, `commands/ai*.rs`).
*State*: a conversation with injected context, a deduplication index and a budget,
a response chain, a stream with its listener, the lock of the editor.
*Operations*: send (retrieve, listen, request), chunks, end, cancel, retry, clear,
attach, close; the runs, validations and reviews of the same tab write its status too.
*Hard*: three awaits before the first chunk, late events after a cancel, and two
stores that write one status.
*Correct*: the prompt is complete, context is given once and within the budget, the
editor is locked while an answer is due and unlocked in the end.

**Workspace** (`stores/workspace-store.ts`, `lib/workspace-tab-stacks.ts`).
*State*: tabs per connection, which is active, bottom panels, dialogs, and which
rows are marked active or evicted.
*Operations*: open, activate, close with dialogs, cascade, move, the tab limit, the
bottom-panel setting, switching connections.
*Hard*: the marks are kept by whoever changes what is visible.
*Correct*: what is on screen is not evicted; no tab is lost, doubled or orphaned;
unsaved changes leave only when the user says so.

**Connection registry, health, open and close** (`mysql/registry.rs`,
`mysql/health.rs`, `commands/mysql.rs`, `stores/connection-store.ts`).
*State*: registry entries (pool, parameters, default database, status, token).
*Operations*: open, ping loop, reconnect loop, `replace_pool`, close, status
events to the front end.
*Hard*: a reconnect or a database switch racing a close; events before it is attached.
*Correct*: nothing is resurrected after close; the shown status converges.

**Connection-wide database selection** (`commands/session.rs`): three separate
writes (session, pool, default database) that must not diverge.

**Jobs: SQL dump, import, copy to another host** (`commands/sql_dump.rs`,
`export/sql_dump.rs`, `export/sql_import.rs`, `commands/copy_to_host.rs`,
`export/copy_to_host.rs`, three dialogs).
*State*: a job with progress and a cancel flag, a partial file or target, and the
session state they leave on connections of a shared pool.
*Operations*: start, poll, cancel, KILL, end, clean-up.
*Hard*: cancel against completion, failure half way, statements on different sessions.
*Correct*: what is reported complete is whole; borrowed connections are given back
as they were; a dialog that cannot be dismissed ends.

**Schema index** (`schema_index/*`, `commands/schema_index.rs`,
`stores/schema-index-store.ts`).
*State*: sessions per profile counted by reference, a build task and its token,
persistent metadata, the status shown per session.
*Operations*: register, build, force, partial rebuild, status, model change, close.
*Hard*: count, token and metadata are under different locks; events against replies.
*Correct*: one live build per profile; none after the last close; 'ready' is true.

**The rest** (query guards and SQL text analysis, metadata caches, designers,
session restore and snapshots, process list, history, favourites, saved connections,
settings, credentials, logging, the shell and the views) is sequential, text or
layout; PROJECT.json lists each part with the reason it is left out.

How the parts interact: query runs, exports and the health monitor meet in the
registry (pool, parameters) and in the editor-session slot; dumps, imports, copies
and row edits share the pool; runs, cell edits, views and exports meet in the result
cache; closing a connection goes through all of them, one after the other and without
a common lock; the workspace decides which tab's rows may be evicted, and the query
and table stores evict and restore them; the front end sees replies and events in any
order.

## 2. Modules

| module | models | kind |
|---|---|---|
| `EditorSession` | the session slot, runs of several statements, cancel, row ceiling, full export jobs, `close_connection` | code model |
| `FifoSession` | what the slot promises: one user at a time, first come, first served | abstract specification |
| `EditorSessionProofs` | invariants of `EditorSession`; KILLs, job outcomes and the refinement | proofs |
| `MCEditorSession` | model values, symmetry, the refinement for TLC | TLC instance |
| `ResultCache` | `GenericCache` for one tab, the moka cache, the spill worker and their users | code model |
| `MCResultCache` | model values, symmetry and the exploration constraint | TLC instance |
| `ResultCacheProofs` | its safety invariant | proofs |
| `ResultView` | one result's view: compare-and-swap in the backend, the grid's requests, windows and deletes in the front end | code model |
| `ViewRegister` | what the slot promises: one atomic register of spec and removed rows | abstract specification |
| `ResultViewProofs` | the inductive invariants of `ResultView`, the refinement, convergence | proofs |
| `MCResultView` | rows, filters and symmetry | TLC instance |
| `QueryTab` | one query tab: runs, cancels, timers, eviction, restore, validation, AI lock | code model |
| `RowEdit` | editing, saving and inserting the rows of a query result | code model |
| `RowEditProofs` | its safety and action properties | proofs |
| `TableData` | one table-data tab | code model |
| `TableDataProofs` | its safety properties | proofs |
| `AiChat` | one tab of the AI store, with what writes the status of its query tab | code model |
| `TabProofs` | safety and action properties of `QueryTab` and of `AiChat`, the two components of one query tab | proofs |
| `Workspace` | the tabs of several connections and which rows are on screen | code model |
| `SchemaIndex` | sessions of a profile, index builds and their status | code model |
| `Connection` | registry entry, health monitor, database selection, the front end's entry | code model |
| `ConnectionProofs` | safety and action properties of `Connection` and of `Workspace`, the front end and back end of open connections | proofs |
| `TransferJobs` | dump, import and copy jobs, their dialogs, the pool they share | code model |
| `JobProofs` | safety of `TransferJobs` and that an outcome is final; `BuildsInv` and `ShownIsTrue` of `SchemaIndex` | proofs |

Definitions whose comment starts with "Faulty variant" are not part of a
specification. Each is a plausible mistake in one operation; putting it in the
operation's place must break the property it was written for.

### EditorSession

| code | model |
|---|---|
| `editor_sessions` map and `Arc<Mutex<Option<EditorSession>>>` | `slot` (the slot the map holds: 0 none, 1 before and 2 after the close), `queue` (waiters; the head holds the lock), `session` (thread id in the slot, 0 for `None`) |
| a run or an export task | an actor with `pc`, `at` (its slot), `run`, `idx` (statement), `reply` (what the server answered), `kill_sent` |
| `running_queries`, `mysql_thread_id` | the same names; 0 for absent |
| `ResultExportCancel` and the job map | `status`, `cancel_requested`, `asked`, `kills` with kind "export" (`kills_in_flight` counts them), `interrupted`, `stopping`, `outcome` |
| KILL QUERY on a pool connection | a member of `kills`, from the moment the thread id was read; `KillArrives` sets a flag on the thread |
| MySQL server (external) | `stmt` per thread, `flags` (KILLs not yet served); a flag ends the running statement (1317) or, set while none runs, the next one |
| `close_connection_impl` | `CloseBegin`, `CloseCancelExport`, `CloseRemove`, `CloseRunningQueries`, `CloseSession` |

One action is what the code does between two points where another task can get
in: an `.await`, a lock, or a reply of the server. `Register`, for instance, is
everything between the granted lock and the first statement. What a statement
returns, its text, its rows and its windows are left out, apart from what the
control depends on: success, error, interrupted, above the ceiling.

### ResultCache

| code | model |
|---|---|
| moka entry, generation and expiry | `entry`, with `expired` for an entry that moka no longer shows but has not dropped |
| `known_keys`, `generations`, `invalidation_versions`, `cleaned_keys`, `spillable_removals` | `known`, `generation`, `invalidation`, `cleaned`, `spillable`, for the one key that is modelled |
| spill file, worker channel, job between its checks and the write | `spill_file`, `jobs`, `writing` |
| `run_maintenance` between mark and drop | `pressure` |
| a backend task inside `insert_if_current`, `get`, `modify_slot_in_place_if_current`, `remove_with_spill_cleanup` | `client[c]`: its step `pc` and its local variables |

A value is a pair of numbers: the run that produced it and the edits made to it.
Three history variables state what should be true: `newest` is the value a
reader should get; `raced` collects the *gaps* that were hit; `timely` and a
client's `fresh` remember that what an actor relied on was true when it looked.
The six gaps are:

- `late`: a store or its bookkeeping meets a close;
- `spill`: the worker writes, or is about to write, rows replaced after its check;
- `rewarm`: the spill file a reader brings back is replaced, taken by another
  reader, or its tab closed, after it was read;
- `edit`: the entry changes between the read and the write-back of a cell edit;
- `overlap`: an entry is gone before the generation of its operation is recorded;
- `pressure`: the entry that RAM pressure drops is not the one it marked.

A gap counts only if the actor's own check was right, so a faulty check is not
excused by it. The code's comments admit one of the gaps (`result_cache.rs:973`).
The runs show that these six are the only ways to lose or to outdate a result.

### ResultView

| code | model |
|---|---|
| `StoredResult` (view, spec, tombstones, version) | `slot`; `committed` remembers spec and rows of every version |
| an async handler of the store and the backend thread that serves its call | `task[t]`: `pc`, the `call` it waits for, its local variables, the reply |
| the painted result and the page cache | `surface`; `page` is `None` while the view's windows are not loaded |
| `viewRequestSeq`, `latestKnownViewVersion`, `ViewTracker`, `viewError`, `isStale` | `request` (`seq`, `known`, `spec`, `retry`, `success`, `error`, `outdated`) |
| rows of the MySQL table that were deleted (external) | `deleted` |

A call is sent, prepared (`PrepareView`, `PrepareRemoval`), committed or refused
(`Commit`), or answered at once (`FetchWindow`); what the store does with the
reply is one action (`ViewSucceeded`, `ViewFailed`, `RepaintReply`,
`SettleReply`, `PageReply`, `RangeReply`, `RemoveReply`), since nothing runs
between two awaits of the single front-end thread. Views are sets of rows; where
order matters, for checked rows, it follows from the version's sort (`Position`).
`raced` collects four gaps, without which the grid always converges:

- `unanswered`: a change settles while an older one, or a newer one, is on its way;
- `overtaken`: a repaint or refetch paints over a version that is newer, or as new;
- `mislabelled`: a delete's reply is painted with the painted spec, although the
  version it brings was made from another one whose reply is still to come;
- `reordered`: an older success arrives after a newer one and is kept as the last.

Leaving any of the four out of the guard makes `GridConverges` fail. A *gap* in
the modules below is the same thing: a ghost that records that a named race of the
code was met, so that a property can say what holds without it.

### QueryTab

| code | model |
|---|---|
| `TabQueryState` and its results | `tab`, `results` (`rows` is the residency) |
| `aiPending`, the AI store's lock | `tab.status` (`ai-pending`, `ai-reviewing`), `ai` |
| inactive timers of `frontend-cache-lifecycle.ts`, keyed by index | `timers` |
| an awaited call and what its closure captured | a member of `calls`; its reply is an action |

Results are identified by the call that produced them. A run cancels the timers of
the results it replaces (`DOMAIN results`); a timer of a higher index, left over from a
longer batch, goes on. `tab.shut` marks a tab that a late reply made again after its
close (`patchTab` creates the tab it does not find): only the `.catch` of
`validateActiveTabResults` (`query-store.ts:3861`) does so. Left out: SQL text,
parameters, favourites, EXPLAIN and stored-procedure calls.

### RowEdit

| code | model |
|---|---|
| `SingleResultState`, `editState`, `pendingNavigationAction` | `res`, `form`, `pending` |
| loaded pages, cached result of the backend, the MySQL table (external) | `shown`, `cache`, `db` |
| `saveCurrentRow`, `insert_and_refresh`, runs, `analyzeResultForEdit` | calls in two or three steps: sent, done, stored |

Gaps: `reread` (a run read the table before the save it overtook wrote it),
`resaved` (two saves of a row in flight), `warned` (the store shows the warning to
run again), `dropped` (a refresh was dropped after the backend stored its rows),
`overtaken` (the answer to a run came after the answer to a later refresh),
`misplaced` (below).

The table, the page and the cache are indexed by row, and the form remembers the
result it was opened on (`form.of`). A save writes the table by primary key, but cache
and page by the base index the form got when it was opened. A refresh after an insert
keeps the form and installs the new query id (`freshResultFields` touches no edit
state), so that index may mean any row of the new result, or none: `Addressed` leaves
open which one (`c.at`), and `Patched` writes there. A row opened before a refresh and
saved after it can so put its values over another row on screen and in the cache, while
the table is right; this is the gap `misplaced`.

### TableData

| code | model |
|---|---|
| `TableDataTabState`, its rows, its `RowEditState` | `tab`, `page`, `edit` |
| sort, filter and page size together | a *view*, a number |
| `table_data_cache.rs` | `cache`, the page kept for a restore |
| the MySQL table (external) | `db` |

The table starts with any number of rows. Gaps: `overlap` (two calls under way, whose
replies undo one another), `phantom` (a draft row without its edit or the reverse),
`dropped` (an edit ended by a call it was not of), `evicted` (rows evicted under a call),
`typed` (a delete's rows hold what is typed in another row and not saved; `deleteRow`
sends them to the backend's page and shows them), `failed` (a load that failed under a
sort or filter the rows are not in). The sixth, `typed`, came out of the proof: with
four calls and one row to start with, TLC could not reach it.

### AiChat

| code | model |
|---|---|
| `TabAiState` | `chat`, `messages`; `chat.chain` and `chat.prompt` are the messages they hold |
| the awaits of `sendMessage` | a member of `flows`: index, memories, search, listen, send |
| `ai/client.rs` streams and their events | `live`, `listeners`; events arrive in any order with cancels and sends |
| `tabStatus`, `prevTabStatus` of the query tab | `query.status`, `query.prev`; `idle`, `success`, `error` and `restoring` lock nothing and are "free" |
| a run, a validation, a review under way | `query.run`, `query.saved` (the status the validation captured), `query.review` |

Two stores write one status. `sendMessage` locks the editor with `ai-pending`; a run
that was under way then patches `success` or `error` when it ends (`query-store.ts:1766`,
`:1816`, `:2116`), a validation puts back what it captured, a review ends with
`restoreTabStatus`. Gaps: `unlocked` (one of these took the lock away while an answer
was due), `relocked` (a validation put a lock back that was over), and `stray`, `swap`,
`kill`, defined with them above the properties in the module.

### Workspace

Handlers run to their end between two events and call one another, so they are
operators from a workspace record to a workspace record (`w`), composed as the
code composes them. `stray` is a ghost that is set in the three cases `Gap` names and
cleared when an activation corrects the marks. One result per query tab; designers
and object editors are "object" tabs. `RenameObject` takes a name that no open tab has,
since the server refuses one that is taken; `updateTabObject` itself does not look
(`workspace-store.ts:1632`), so a tab whose table another program dropped could end up
beside a second one of its name, and that is not modelled.

### SchemaIndex

| code | model |
|---|---|
| `session_profile_map`, `session_ref_counts`, `index_build_tokens` | `mapped`, `count`, `token` |
| `schema_index_meta` | `meta` |
| a command between two locks | a member of `calls` |
| the build task | `builds` |
| the store's sessions and statuses, Tauri events | `sessions`, `connections`, `events` |

One action is one lock region of the code: a command that builds or forces a rebuild
looks its session up, maps it and counts it in three (`LookUp`, `MapSession`,
`CountSession`), a close looks it up, uncounts it and unmaps it in three
(`LookUpClosing`, `Uncount`, `Unmap`), and the last close takes the token and the count
in two more (`StopBuild`, `ForgetCount`). `CountedSessions` are the mapped sessions but
for those a command or a close is half way through. Ten races, named in the module at
`Races`; among them `double`: two commands of one session both find it unregistered and
count it twice, so that no close brings the count to zero and none stops the build.

### Connection

| code | model |
|---|---|
| `RegistryEntry` | `entry` |
| the editor session's database | `editor` |
| ping and reconnect loops, cancellation token | `monitor` |
| `select_database` between its steps, with the optimistic write of the store | `selects` |
| `connection-status-changed` events, `attach`, a restart of the front end | `events`, `listed`, `store` |

Gaps: `crossed`, `rebuilt`, `opened`, `early`, `password`, named at `Gaps`.

### TransferJobs

| code | model |
|---|---|
| `DumpJobProgress`, `ImportJobProgress`, `CopyJobProgress` and the task | `job` |
| the file, the target's tables | `output` |
| sqlx pool (external): first-in first-out idle queue, ping on acquire, return by a spawned task | `idle`, `free`, `conns` |
| a MySQL session (external): autocommit, FOREIGN_KEY_CHECKS, LOCK TABLES, KILL, uncommitted rows | `conns[c]` |
| `cancel_dump` between its two looks at the thread id and the KILL | `cancel` |
| the three dialogs and their polls | `dialog`, `poll` |
| a saved row edit on the same pool | `edit`, `saved` |

Gaps: `scattered`, `leftover`, `panicked`, `slept`, `unrestored`, named at `Gaps`. The
last: at the end of a copy the server refuses `SET FOREIGN_KEY_CHECKS=1` on a connection
that lives; the job has failed then, and the connection goes back to the pool with the
checks off (`copy_to_host.rs:1330`).

## 3. Runs

Every run is a passing one. A property that is a conjunction names its parts, so that
one run asks one question of one component.

| run | instance | properties |
|---|---|---|
| `editor_export` | 1 tab, 1 export, 1 cancel each, close, broken connections, lost replies | a cancel reads only the session its tab holds (`CancelTargetsOwnSession`); statements never overlap (`StatementsOfOwner`); nothing survives the close (`ClosedSessionIsDropped`); a KILL hits what it was for (`KillsLandOnTarget`); the session is released after the KILLs (`ExportWaitsForItsKills`); no truncated file is published (`NoSilentTruncation`); an ended job is final (`EndedJobIsFinal`); the slot is a fair queue (`ImplementsFifo`) |
| `editor_liveness` | 1 tab, 1 export, fair tasks and server | `WaitersEnd`: a queued run ends, and a cancelled export ends although its KILL may hang |
| `cache_results` | 2 tasks, every operation, 2 runs, 1 edit, 4 generation tokens | `CacheInv`: only the newest result is kept, it is not lost, a closed tab leaves nothing, unless a gap was hit |
| `result_view` | 2 handlers, 2 rows, 2 sorts, a refused filter, 2 requests, deletes, windows | the slot is an atomic register (`ImplementsRegister`); exactly the deleted rows leave (`OnlyDeletedRowsLeave`); rows belong to the painted version (`PageIsOfItsVersion`); a settled grid shows the backend's version, spec and count (`GridConverges`); every request ends (`RequestsEnd`) |
| `query_tabs` | 3 calls, 2 results per batch | `TabInv`: a result reads "cancelled" only if its run was in flight when Cancel was pressed; `OnlyFailedTouchRevives`: a closed tab comes back by a failed validation only, empty and unseen; `TimerSparesTheScreen`; `TabSettles`: restores and cancels end |
| `row_edits` | 1 row, 6 calls, the first of them the run that made the result, 2 typed values | `EditInv`: edit mode fits the result, a clone is inserted once; `CopiesAgree`: table, cache and screen; `DeferredRunKeepsEdit`; `AnalysisEnds`: an analysis that was overtaken ends, and its indicator goes |
| `ai_chat` | 2 schema chunks, 1 memory, budget 1, 2 sends, 1 attachment, runs, reviews and a validation of the same tab | `ConversationInv`: index matches context, no chunk twice or above the budget, listeners are owned, answers follow their question, the editor is locked while one is due and no longer; `PromptIsComplete`; `TurnEnds`: every turn ends, however it goes |
| `table_data` | up to 2 rows, 1 typed value, 1 change of view, 4 calls, 1 race | `CopiesAgree`: screen, table, view and cache agree once settled; `LoadSettles` |
| `workspace` | 2 connections, 2 names, 3 tabs, limit 1 | `TabsInv`: no tab lost, doubled, orphaned or misplaced; `ScreenIsActive`: rows on screen are marked active and not evicted; `LimitSparesDirty` |
| `schema_index` | 2 sessions, 1 model, 2 builds and calls at once, 1 request besides the closes | `BuildsInv`: the count is exact, one live build, none after the last close; `ShownIsTrue`: a settled status is the backend's |
| `connection` | 2 databases, 2 selections, 1 outage, 1 restart of the front end | `DatabasesAgree`: session, pool, default and store; `FrontEndFollows`: the settled status is the registry's and a closed connection is gone; `Recovers`: a lost connection reconnects or closes |
| `transfer_jobs` | 2 tables of up to 3 rows, batches of 2, 3 connections, 1 edit, 1 fault | `TransferInv`: complete means whole, the file is well-formed, a KILL aims at the dump, foreign-key checks come back or the copy has failed; `TransferSettles`: the outcome is final, jobs and dialogs end |

`EditorTabs.cfg` is a larger instance of `editor_export`'s first three properties (two
tabs with two runs of two statements on two threads).

**Demonstrations.** These configurations check a statement that the code, one of its
comments or a test makes and that does not hold without the exceptions above; TLC
shows the interleaving. `tlc -config X.cfg M`:

| configuration | module | violated | what happens |
|---|---|---|---|
| `EditorCancelStray` | `MCEditorSession` | `CancelKillsOnlyItsTab` | up to five seconds pass between reading the thread and the KILL (`query_executor.rs:924`), which kills another tab's query |
| `EditorCloseBusy` | `MCEditorSession` | `BusySessionEndsWithItsQuery` | a waiting run still gets the closed session (`session.rs:142` says it ends with its query) |
| `CacheReexecute` | `MCResultCache` | `ReexecutionKeepsNewerRun` | the id is compared in one step and the result inserted in another (`query_executor.rs:1707`) |
| `ViewStale` | `MCResultView` | `SettledGridIsCurrent` | a request refused while an older one is on its way leaves the grid on a version the backend left |
| `ViewChecked` | `MCResultView` | `OnlyCheckedRowsAreDeleted` | rows nobody checked are deleted when a view is painted while checked ranges are read (`query-store.ts:2669`) |
| `QueryDouble` | `QueryTab` | `NoDoubleExecution` | the guard at `query-store.ts:2051` reads a status that a validation or a late restore has put back |
| `RowReread` | `RowEdit` | `RefreshedResultIsCurrent` | a run reads the table before a save writes it and replaces the result before the cached row is patched |
| `AiContext` | `AiChat` | `PromptIsOfAttached` | a cancelled turn's retrieval replaces the next turn's attached statement |
| `WorkspaceActive` | `Workspace` | `OnlyVisibleIsActive` | a run that ends under a bottom panel leaves the hidden table marked active (`query-store.ts:1750`, and `src/README.md:104`) |
| `SchemaModel` | `SchemaIndex` | `ReadyIsCurrent` | with two ready sessions a model change builds nothing (`schema-index-store.ts:299`; the comment at `:177` promises a rebuild) |
| `TransferStray` | `TransferJobs` | `KillSparesOthers` | the KILL of a dump's cancel meets a row edit on the connection the dump gave back |
| `TransferEdit` | `TransferJobs` | `EditIsCommitted` | a dump written with a transaction sets autocommit to 0 and never back (`export/sql_dump.rs:325`): after importing it, an edit on that session succeeds and is not committed |
| `TransferLock` | `TransferJobs` | `NeverLockedOut` | the import's INSERT waits for its own LOCK TABLES in an idle session; cancel is looked at between statements only |

**Bounds.** A hazard needs the actor inside its window, one that passes, and a third
party where a message (a KILL, an event) is late: two tabs or a tab and an export, two
handlers, two calls plus one that starts them. Two runs tell old from new, one edit
edited from unedited. The counters `Max...` only bound how often users act; each is
named in the module that has it. In particular:

- `cache_results` stops exploring once a gap was hit (`NoRaceYet`): its property says
  nothing there and `raced` never shrinks, so nothing is lost. `schema_index` does so
  with `MaxRaces = 0`, for the same reason.
- `query_tabs` has three calls: the run that is overtaken, the one that overtakes and a
  cancel, restore or validation between them.
- `row_edits` has six calls: the run that made the result and five that may be an
  insert with its refresh and the analysis it starts, a save, or runs that race them.
  With one row, a misplaced save goes to that row, to the row of the clone or to none;
  for more rows there is the proof. Its `MaxGaps = 0` stops the user, not the calls under
  way, once a gap was hit: those still end, and `AnalysisEnds` is about them too.
- `ai_chat` has `MaxGaps = 0` in the same sense, so `TurnEnds` covers the turns a gap
  finds under way. A validation captures one status at a time. `ConversationInv` and
  `PromptIsComplete` are proved for every bound.
- `table_data` has four calls: a load, and a delete, save or restore with two that race
  it; the user goes on after one race (`MaxRaces`), so that what follows it is seen too.
  Its safety property is proved for every bound.
- `workspace` opens three tabs with a limit of one: the query tab, the table under its
  panel and the tab that exceeds the limit.
- `transfer_jobs` has tables that are empty, smaller than a batch, a batch and more;
  a second table for what happens between two; three connections so that an import's
  statements can scatter and an edit can run beside them.

Deadlock is not checked: when the bounded work is done the system stops.

**Exceptions.** Dropping any gap from a guard lets TLC show the race. Beside the
demonstrations:

- `KillsLandOnTarget` excuses a second KILL of the same export (the first ended the
  re-run with 1317, so `absorb` is skipped, `result_export.rs:702`) and a ceiling
  KILL whose 1317 came from a user's cancel (`multi_result.rs:635`);
- the cache: an edit writes back over a new run (`result_cache.rs:1047`), a store that
  passed its check puts its entry after the close (`:657`), the worker writes rows
  replaced after its check (`:399`);
- the view: a failed request paints one version's rows under another's spec
  (`query-store.ts:1488`) or puts a count back that a delete changed (`:1492`);
- query tabs: a failed `touch_results` brings a closed tab back (`query-store.ts:3861`);
- row edits: a row opened before a refresh and saved after it is written over another one
  on screen and in the cache (`query-store.ts:3659`); a second Save inserts a clone twice;
  a dialog cancelled during its save lets the save run the next navigation; a refresh that
  was dropped, or whose answer overtook that of a run, leaves the backend with rows of
  another query id;
- table data: continuations write rows captured before their awaits over a newer page;
  deleting another row drops a dirty edit whose value stays on screen and goes into the
  backend's page (`table-data-store.ts:1395`); Discard after a racing load pops a real
  row; a bulk delete ending after the eviction patches no cache;
- AI chat: a late failure of an earlier turn resets a newer one; attaching while an
  answer streams re-arms the chain; a run that ends while an answer is due unlocks the
  editor, and a validation that ends after it may lock it again;
- the workspace: turning the bottom-panel setting off leaves dangling panels;
  normalisation removes a dirty duplicate without asking;
- the schema index: two commands of one session count it twice, a command counts a
  session whose close is under way; a cancelled build's end drops a newer build's token; two checks
  pass together; a session mirroring a sibling's 'building' may keep it for good;
- the connection: overlapping selections, a reconnect between them, events before the
  attach, a failed password look-up that ends the monitor;
- transfers: a refused `SET FOREIGN_KEY_CHECKS=1`, statements of an import on different
  connections, a first fetch that
  failed and leaves the thread id, a preview cut inside a character
  (`&sql[..80]`) that panics, five minutes between a job's end and the next poll.

**Fairness.** Weak fairness of what the runtime does by itself, never of users, of a
server coming back, or of a KILL in flight:

- `EditorSession`: each task (Tokio polls a ready task, the mutex hands over in order)
  and the server ending a statement. A KILL for an export has no timeout on the sending
  side; `wait_for_cancel_kills` gives up after two seconds (`WaitTimeout`).
- `ResultView`, `QueryTab`, `RowEdit`, `TableData`: calls are served and continuations
  run (Tokio and the event loop do that for every command and promise).
- `AiChat`: each continuation goes on, and a stream ends or fails.
- `Connection`: the monitor's timers fire and events are delivered.
- `TransferJobs`: the job runs, connections go back, the dialog's interval fires.

## 4. Proofs

TLAPS checks each proof for every value of the constants, from the ASSUMEs of the
modules only. TLC evaluates those assumptions in the runs.

`EditorSessionProofs`, for every number of tabs, exports, runs, threads and cancels:

- `TypeCorrect`: `Spec => []TypeOK`;
- `CancelTargetsOwn`: `Spec => []CancelTargetsOwnSession`, the property
  `multi_result.rs:923` is about: what `cancel_query` or `request_cancel` reads
  is the session the registered task holds at that moment;
- `StatementsOwned`: `Spec => []StatementsOfOwner`, mutual exclusion on the
  session, not on the mutex: no statement outlives its task's turn.

All follow from `InductiveInvariant`. `IInv` has five parts because none is
inductive alone. `CancelTargetsOwnSession` is kept by handing over the lock only
if the thread was deregistered before (`Deregistered`) and by a reconnect only
if no registered task is using the slot (`LockHeld`: a task past its acquire
heads its queue and has a session). `StatementsOfOwner` is kept by the same
hand-over only if the task awaited its statement first (`StatementAwaited`: a
running statement's task is at a step where it waits for the answer). Each
action has a lemma "... Preserves"; frame lemmas say what moving one actor or
sending one statement does not disturb.

A second part builds on that invariant and proves `KillsLand`, `ExportWaits`,
`NeverTruncated`, `ClosedIsDropped` and `EndedIsFinal`, the rest of `editor_export`'s
safety properties. Its `KInv` adds who owns a thread and why:

- `SlotInv`: where the close stands fixes which slot the map holds; the slot made after
  a close never gets a session, and the forgotten one loses its own with its last user;
- `FreshInv`, `DeadInv`: threads not yet opened, and broken ones, carry no KILL;
- `RunInv`: the server's statement is the one its task is at;
- `RegisteredInv`: while a KILL of an export is on its way the export owns that thread
  and has not released it, or it gave up waiting;
- `PendingInv`: a KILL that has landed is one the owner of the thread knows of and will
  absorb, or one of those the properties except;
- `OutcomeInv`: an export's outcome, file and status agree with how its re-run ended.

A KILL is harmless because its addressee keeps the thread until it has landed, which
holds only because the thread was the addressee's when it was read
(`CancelTargetsOwnSession`).

It also proves `SessionIsFifo`, the refinement of `FifoSession`. Waiting for
the mutex is asking (`Enqueue` is `Ask`), an acquire that yields a session begins a turn
(`AcquireAlive`, `Connect`: `Begin`), one that fails gives up (`AcquireFail`: `GiveUp`),
releasing the lock ends the turn (`Unlock`: `End`); everything else stutters,
`close_connection` too. `QueueInv` says who stands in
the queues of the slots before and after a close: each task once, on the slot it asked,
between asking and dropping the guard.

`ResultViewProofs` proves, for any number of handlers, rows, sorts, filters and
requests, from the assumptions on the constants of `ResultView`:

- `SlotImplementsRegister`: `Spec => ImplementsRegister`, the refinement of
  `ViewRegister`: no committed change is lost and deleted rows never come back;
- `GridAlwaysConverges`: `Spec => []GridConverges`: once every change is answered, the
  deleted rows have left, and outside the four gaps the grid shows the backend's version;
- `PageOfItsVersion`, `OnlyDeletedLeave` and `TypeCorrect`: the invariants
  `PageIsOfItsVersion`, `OnlyDeletedRowsLeave` and `TypeOK`.

The inductive invariant `IInv` says of the slot that its view is what its spec
selects among the rows left, and that `committed` ends with it (`SlotInv`); of
each handler that a prepared change is right *if the version is still the one
read* (`Snapshot`), that a removal names deleted rows only (`Targets`) and that
an answer names a version with its rows (`Carries`); of the grid that it paints
and keeps nothing else (`SurfaceInv`, `RequestInv`). `Snapshot` is what the
compare-and-swap turns into the refinement: a write that passes it is a change of
the current version (`WriteFacts`, `WriteIsChange`), and one that does not leaves
the slot alone (`CommitCases`). A write only appends to the history
(`HistoryGrows`), so what others hold stays true.

`GridConverges` speaks of settled states only, so its invariant has to say, before the
grid settles, who will bring it there. `GInv` holds whatever overtakes what: deleted rows
are in the slot or with a delete that brings them (`DeletedInv`), a request has one handler
(`SeqInv`), and no handler and no variable of the grid names a version that was not made
(`HandlerGrid`, `GridInv`). `CInv` is `raced = {} => CalmInv`: the current version is
painted, or the latest request, a delete or a refetch of that very version will paint it
(`PaintInv`); who made it is still to be heard of, unless it was painted or noted
(`MakerInv`); requests that are not the latest change nothing behind its back (`OlderInv`),
which is how the rule of a refused request, to settle for the last success, is right; two
versions of different specs have a view request between them, a known or an unheard one
(`SpecsInv`), so a delete's version carries the painted spec; and count and spec of what is
painted, or is about to be, are those of its version (`CountInv`, `LabelInv`). Each gap is
the one step that breaks one of these parts. TLC checked the invariant on 2 handlers with 2
requests and on 3 with 3 before it was proved.

`TabProofs`, about `QueryTab`, for any number of calls and results: `TabInvAlways`,
`TimerSparesAlways`, `ClosedForGood`. `CallsInv` says that calls
carry numbers issued before; `CancelInv` that while the cancel flag is set every run in
flight is one it was pressed for, and that one of them, or the reply that found none,
will reset it; `BlameInv` that a result reads "cancelled" only if its run was in flight
then; `ScreenInv` that the result on screen is marked active, so that a timer spares it,
also one left over from a longer batch; `GoneInv` that a closed tab has no
results, and that one made again after its close is not on screen. `ClosedForGood` says
which reply can bring a closed tab back, and what it leaves. Each handler of the store has
one lemma; several are composed of the store's helpers, with a lemma per helper.

Its second half is about `AiChat`, for any finite set of chunks, any memories, any budget
and any number of messages and statements: `ConversationSafe` (`ChatSpec =>
[]ConversationInv`) and `PromptComplete` (`ChatSpec => PromptIsComplete`). `ChatIInv` is
inductive. `OwnerInv`: each question has one flow or one stream, and a tab that was closed
has nothing. `MessagesInv`: every answer stands right behind its own question, and the
message at the end is the active stream's; so the context that a late flow puts in before
its question parts no answer from the question it follows. `KeysInv`, through every race:
a chunk in the conversation is in the index and was paid for, and no two messages carry
it, which is why overlapping retrievals stay within the budget. `MemoriesInv`, while no
race was met: index and conversation hold the same keys, and what the active flow is about
to insert is not among them. `ChainInv`, likewise: the response chain stands for what was
asked up to the last answer, but for a statement that was taken out to be put in again;
the statement in the conversation is the attached one; and the prompt is the conversation.
`LockInv` stands beside them: whoever writes the status, it is locked while an answer is
due, and not after it unless for a review, up to the two gaps that name the writers of the
query store. Inserting, removing and cutting are lemmas about sequences (`InsertContext`,
`Removed`, `Retried`, `AskedAtEnd`): each says what a change of the conversation does to
order, keys, questions and chain. `Filter` is a function defined by recursion on the
position; what it keeps is shown with a least counterexample (`LeastNat`), so no induction
theorem of the library is needed.

`ConnectionProofs`, for every set of databases and every bound: `TypeCorrect`,
`DatabasesAgreeAlways`, `FrontEndFollowsAlways`. `DatabasesInv` says, for a selection
at each of its steps, which of session, pool, default and store already have the new
database; `MonitorInv` that a reconnect under way has said so; `AttachedInv` who is
attached while a listing or a close is under way; `StatusInv` that the last event that
waits names the registry's status, and the front end shows it when none waits; `IdsInv`
that selections carry numbers issued before.

The rest of the module is about `Workspace`, for any connections and names, any number of
tabs and any limit: `MarksAreRight` (`WorkSpec => []ScreenIsActive`) and `TabsStay`
(`WorkSpec => []TabsInv`). `UnsavedStay` (`WorkSpec => LimitSparesDirty`) is an action
property that each step has beside the invariant. `WorkIInv` is inductive. Its `Shape`
says how the stores fit together: tabs belong to one connection, in the order they were
opened, last used at different times (`OrderInv`); every open tab has its information, and
a scoped one is a table under a query tab of its connection (`InfoInv`); a table is open
once (`OnceInv`); a bottom panel shows a table of its own connection, or what was one
(`BottomInv`); rows, marks and edits belong to open tabs (`RowsInv`). `DialogInv` adds
that what a dialog is about to close has no tab under it but those that go too, `PanelInv`
that without the setting no tab is scoped. The handlers are compositions of helpers, so
the proof is too: each helper has a lemma that it keeps `Shape`, and right marks right
(`Marks`). Any close of some tabs is a workspace `Pruned` of them, and to prune twice is
to prune once; so a cascade, which closes one tab after the other, is followed by the
least counterexample over the positions of its list. `BecomeIs` and `NoteIs` turn what a
handler does to the record into a step of the specification, ghost included.
`ReorderLands` follows from `Shape`: `MoveTo` places the others below or above the tab
moved (`Moved`); a scoped table comes after its query tab, so `GroupsBefore` counts a
prefix of the groups' heads; and `FlattenSeq`, a fold over the groups, keeps their order
and loses nothing (`FlattenIs`, by a least counterexample over the number of groups). For
`UnsavedStay` every step lemma also says that the step is `Sparing`: it takes no tab with
unsaved changes but those a dialog, a drop, a close of the connection or a merge names
(`Spared`), and leaves a group over its limit only if all its other tabs have them
(`Limited`). Both rest on `OverflowAll`: the older clean tabs of a group stand in `ByAge`
once each, so the prefix of them that is closed has as many members as the group has too
many, or all of them.

`JobProofs` is about both kinds of background jobs. Of the transfers, for every number of
tables, rows, edits and faults, every size of batches and every pool of three connections
or more: `TransferSafe` (`Spec => []TransferInv`) and `EndedIsFinal`. `PoolInv` says that
a connection is idle, on its way back, held by the job or the edit, or closed, and that
threads are told apart; `TakeFacts`, `ReleaseFacts` and `DiscardFacts` carry it over what
a step may do to the pool, named once as `Moves`. `ThreadInv` ties the registered thread
to the step that streams from it; `ChecksInv` names the steps of a copy at which the
checks may be off, and in which session, and `RefusedInv` what is left of a copy whose
last statement the server refused: an error, and its end; `FileInv` and `PartInv` say what
of the file and of the tables is written at each step, so that a job whose steps met no
error has written all of it; `FinalInv` that only a cancelled copy still works after its
outcome is known. `ImportInv` follows an import's row: until it is committed it is pending
in the one session that ran every statement so far, and a COMMIT comes after the INSERT in
each of the scripts (`ScriptFacts`). Each kind of job has a frame lemma (`DumpPreserves`,
`CopyPreserves`, `ImportPreserves`) for what its steps leave alone.

Of the schema index, for every finite set of sessions and every number of calls, build
tasks, events and races: `BuildsSafe` (`IndexSpec => []BuildsInv`) and `ShownStaysTrue`
(`IndexSpec => []ShownIsTrue`). The invariant `IndexIInv` runs along a session's life.
`CloseInv`: a session is closed by one call, and the store knows it until that call is
answered. `MappedInv`: unless a call came late, a session is mapped until its close unmaps
it, and a call past its registration was made for such a session. `RegisterInv`: unless
two calls register one session together, one call maps it, and the same counts it before a
close looks it up; so the count is that of `CountedSessions` between any two lock regions.
`TokenInv`: the token is that of the one build that goes on, it belongs to a build that
runs or to the call about to start it, and while there is one a session stays mapped or
the last close is about to take the token (`SessionStays`). So when every session is
closed nothing is mapped, no token is left and no build lives. `SpawnInv` gives each call
about to start a build an id of its own, and `ModelInv` says that builds and events are of
the saved model. For the statuses, `EventsInv` says that the last event is an end, unless
its build is still to tell of its own, and that it is right at rest (`RightAtRest`) once
no build is at work; `ShownInv` that with no end to come a session shows what is right at
rest, or what a call of its own will correct. Each part that the races can break names
those it is stated up to, and `MoreRaces` carries that over a step. One lemma per action;
what a round of `triggerBuild` over the sessions does is stated by a relation
(`TriggeredIs`), shown for the recursive function by the least position that would
contradict it.

`RowEditProofs` proves every safety property of `RowEdit`, for any set of rows and any
number of calls and typed values: `EditIsSafe` (`Spec => []EditInv`),
`CopiesAlwaysAgree` and `DeferredRunAlwaysKeepsEdit`. `IInv` is what an edit needs:
`ModeInv` says when the form, the page and the edit columns go together, `DraftInv` that
the form holds what was typed, `IdsInv` that calls and results carry numbers handed out
before. `CInv` is what the copies need: `NavInv` that the deferred action stays while a
save of the dialog is under way and the form is what is saved; `SavesInv` that two saves
in flight are of different rows, or `resaved`, and that what a save wrote is still in the
table; `ReadersInv` that runs and refreshes store in the order they were issued; `CopyInv`
that the cache holds rows of the result on screen or of one whose answer is due, and that
page, cache and table differ only in a row some call is about to patch, and, until one is
misplaced, that every save patches the row it wrote. Two guards of the
model came out of this proof: the dialog's saves lose their dialog when the deferred action
goes, and a refresh may overtake a run.

`ResultCacheProofs` proves `NewestResultIsKept` (`Spec => []CacheInv`) for any number of
backend tasks, runs, edits and generation tokens. Two invariants carry it, because the
first holds whatever happens in the unlocked gaps and the second only while `raced` is
empty; `TokensInvariant` and `OneCopyInvariant` state them. `IInv`: every token in use was
handed out (`IssuedInv`); a generation that is not recorded yet is nobody else's, so no
marker, job or RAM-pressure mark can name it and its entry has not expired (`PendingInv`);
the run about to be stored is nowhere else (`RunsInv`); one in-place edit is written back
at a time, over the entry it cloned (`LockInv`). `CInv`: a generation belongs to one
entry, in the cache, in one job, or being written (`MovesInv`), and there is one copy of
the newest result unless the tab is being closed (`OneCopy`). That is what the
spill worker's two look-ups rely on: a job that passes them still holds the newest rows
(`SpillInv`), and a drop for RAM pressure finds the marker of the very entry it takes
(`EntryInv`). `KeptInv` and `ClosedInv` follow the newest rows from place to place and the
keys of a closed tab. An action has one lemma for each invariant; what it does to the
state is stated once, as its `...Effect`.

`TableDataProofs` proves `CopiesAlwaysAgree` (`Spec => []CopiesAgree`) for any number of
rows, values, views, calls and races. Outside the gaps one call is at work at most
(`OneCall`), and the invariant says for each kind what it carries and what its reply will
find: a load finds nothing typed and has read the table, not an older one (`LoadInv`); a
save carries the table with its edit (`SaveInv`) and its patch the table itself
(`SyncInv`), a delete the table but for the row that goes (`DeleteInv`), a restore
finds a cache that is the table (`RestoreInv`). With none, the screen is the table with
the one value being typed, or it is blank (`Usual`). `ScreenInv` ties the draft row to its
edit and the dialog to rows that stay. Each gap is used where a step would break a part: `NoGap`
lists what a step that met none of them has done. Types hold through every
race (`NextTInv`).

Only model-checked is what is temporal (`WaitersEnd`, `RequestsEnd`, `TabSettles`,
`AnalysisEnds`, `TurnEnds`, `LoadSettles`, `Recovers` and the second part of
`TransferSettles`), since liveness under fairness is out of the prover's reach. Every
safety and action property that a run checks is proved.

## 5. Not modelled, and what is next

In the modelled parts:

- editor session: the session's current database (`capture` and `sync_to_default`
  appear as statements, their values do not), stored-procedure calls, the bytes an
  export writes, the removal of ended jobs from the map; the slot a late acquire
  creates anew after a close (`session.rs:30`), an empty mutex nobody reads;
- cache: the capacity of 10 000 entries, file errors, the order of victims, the removal
  of the directory at exit, a run that stores its result after its tab was closed under
  a key that may be opened again (`query_executor.rs:1922`);
- view: replacement and expiry of the result (handlers drop their replies), the page
  cache's eviction;
- row edits: several results, blobs; table data: blobs, foreign-key look-ups, SQL text;
- AI: the HTTP client, tool calls, memory storage and re-embedding;
- workspace: closing ranges of tabs, stack recency, restoring a table tab, the steps of
  `closeConnection`; gestures happen in the visible connection, dialogs are modal;
- schema index: what an index contains, search and graph; progress events after the
  first, database errors, updates of the settings store;
- connection: creation of the entry, `USE` typed in the editor, `updateDefaultDatabase`,
  a keepalive of 0 (no monitor), a ping that fails while the server is up;
- transfers: views, routines, `USE`, file errors, text, a copy's pool of its own,
  history entries, closing the connection during a job (the dialog is modal).

Whole parts: session restore and snapshots, query guards, metadata and schema caches,
the designers, process list, history, favourites, saved connections, settings,
credentials, logging, the shell and the views. Most are forms, SQL text or one-row
SQLite reads, without interleaving; so is most of the code of the modelled front-end
files (rendering, text, types), and this is why the map covers about a tenth of the
implementation's lines. The project keeps one run per question about one component; a
component gets a module when it has control that tests hardly reach.

Next, in order:

1. session restore: its steps against a connection that fails half way;
2. `Connection` composed with `EditorSession`: `sync_to_default` against a selection;
3. the row-limit and back-off arithmetic as functions against reference definitions.
