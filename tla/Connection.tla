---------------------------- MODULE Connection ----------------------------
(***************************************************************************)
(* One open connection: its registry entry, its health monitor, the        *)
(* database the user selects for it and the entry the front end shows.     *)
(*                                                                         *)
(* A step is one region under the registry's lock or one answer of the     *)
(* MySQL server. A pool is the database it was made for: it reconnects on  *)
(* its own, so that it answers while the server is up. The module starts   *)
(* when the entry is in the registry and open_connection has answered.     *)
(***************************************************************************)
EXTENDS Integers, Sequences

CONSTANTS Databases,
          MaxSelects,  \* bound on the databases selected
          MaxOutages,  \* bound on the times the server goes down
          MaxReloads,  \* bound on the restarts of the front end
          MaxEvents    \* bound on the events emitted and not yet handled

ASSUME DatabasesAssumption == Databases # {}
ASSUME BoundsAssumption == {MaxSelects, MaxOutages, MaxReloads, MaxEvents} \subseteq Nat

VARIABLES server,   \* "up" or "down", and how often it went down
          entry,    \* RegistryEntry: whether it exists, status, pool, default_database
          editor,   \* the slot of the editor session and its database
          monitor,  \* the health monitor's step, and the database it reconnects to
          selects,  \* select_database calls in flight
          issued,   \* select_database calls issued
          closing,  \* a close_connection call is in flight
          store,    \* ActiveConnection, or not attached
          listed,   \* the session to attach: as opened, as listed, or none
          reloads,  \* restarts of the front end
          events,   \* connection-status-changed, emitted and not yet handled
          gaps      \* ghost: the races, named at Gaps, met so far

backend  == <<entry, editor, monitor>>
frontend == <<store, listed, reloads>>
vars     == <<server, backend, selects, issued, closing, frontend, events, gaps>>

Statuses == {"connected", "disconnected", "reconnecting"}
Listing  == [on : BOOLEAN, status : Statuses, database : Databases]

Steps    == {"begin", "building", "use", "pool", "default", "done", "failed"}
Calls    == [id : 1 .. MaxSelects, database : Databases, from : Databases, step : Steps,
             heard : BOOLEAN]

(* The database of the profile, and of whatever has none just now.         *)
Start    == CHOOSE d \in Databases : TRUE
Unlisted == [on |-> FALSE, status |-> "disconnected", database |-> Start]
Detached == [attached |-> FALSE, status |-> "disconnected", database |-> Start]
NoEditor == [slot |-> "none", database |-> Start]

(* crossed:  a database is selected while another selection is in flight;  *)
(* rebuilt:  a reconnect puts a pool of the database selected before;      *)
(* opened:   the editor session is opened on the database selected before, *)
(*           after the selection had found none;                           *)
(* early:    a status or a database changes that no attached front end is  *)
(*           told of;                                                      *)
(* password: the keychain refused a reconnect.                             *)
Gaps == {"crossed", "rebuilt", "opened", "early", "password"}

TypeOK ==
  /\ server \in [up : BOOLEAN, outages : 0 .. MaxOutages]
  /\ entry \in [open : BOOLEAN, status : Statuses, pool : Databases, default : Databases]
  /\ editor \in [slot : {"none", "opening", "open", "dead"}, database : Databases]
  /\ monitor \in [step : {"off", "sleep", "lost", "retry", "backoff", "building", "built"},
                  database : Databases]
  /\ selects \subseteq Calls
  /\ \A c1, c2 \in selects : c1.id = c2.id => c1 = c2
  /\ issued \in 0 .. MaxSelects /\ closing \in BOOLEAN
  /\ store \in [attached : BOOLEAN, status : Statuses, database : Databases]
  /\ listed \in Listing /\ reloads \in 0 .. MaxReloads
  /\ events \in Seq(Statuses) /\ Len(events) <= MaxEvents
  /\ gaps \subseteq Gaps

Init ==
  /\ server = [up |-> TRUE, outages |-> 0]
  /\ entry = [open |-> TRUE, status |-> "connected", pool |-> Start, default |-> Start]
  /\ editor = NoEditor
  /\ monitor = [step |-> "sleep", database |-> Start]
  /\ selects = {} /\ issued = 0 /\ closing = FALSE
  /\ store = Detached
  /\ listed = [on |-> TRUE, status |-> "connected", database |-> Start]
  /\ reloads = 0 /\ events = <<>> /\ gaps = {}

Met(names) == gaps' = gaps \cup names

-----------------------------------------------------------------------------
(* The server. *)

GoesDown ==
  /\ server.up /\ server.outages < MaxOutages
  /\ server' = [up |-> FALSE, outages |-> server.outages + 1]
  /\ editor' = IF editor.slot = "open" THEN [NoEditor EXCEPT !.slot = "dead"] ELSE editor
  /\ UNCHANGED <<entry, monitor, selects, issued, closing, frontend, events, gaps>>

ComesBack ==
  /\ ~server.up /\ server' = [server EXCEPT !.up = TRUE]
  /\ UNCHANGED <<backend, selects, issued, closing, frontend, events, gaps>>

-----------------------------------------------------------------------------
(* Registry. *)

replace_pool(e, d)         == IF e.open THEN [e EXCEPT !.pool = d] ELSE e
update_status(e, s)        == IF e.open THEN [e EXCEPT !.status = s] ELSE e
set_default_database(e, d) == IF e.open THEN [e EXCEPT !.default = d] ELSE e

Unheard == IF store.attached THEN {} ELSE {"early"}

Emit(s) == Len(events) < MaxEvents /\ events' = Append(events, s)

update_and_emit(s) == entry' = update_status(entry, s) /\ Emit(s)

-----------------------------------------------------------------------------
(* health_loop and reconnect_loop. Closing the connection cancels them     *)
(* wherever they wait or look at the token.                                *)

MonitorGoes(step) == monitor' = [step |-> step, database |-> Start]

MonitorStops ==
  /\ monitor.step \in {"sleep", "retry", "backoff"} /\ ~entry.open
  /\ MonitorGoes("off")
  /\ UNCHANGED <<entry, editor, events, gaps>>

PingFails ==
  /\ monitor.step = "sleep" /\ entry.open /\ ~server.up
  /\ MonitorGoes("lost")
  /\ UNCHANGED <<entry, editor, events, gaps>>

TellLost ==
  /\ monitor.step = "lost"
  /\ update_and_emit("disconnected") /\ MonitorGoes("retry") /\ Met(Unheard)
  /\ UNCHANGED editor

TellRetry ==
  /\ monitor.step = "retry" /\ entry.open
  /\ update_and_emit("reconnecting") /\ MonitorGoes("backoff") /\ Met(Unheard)
  /\ UNCHANGED editor

(* The parameters are read, the password is looked up: without it the      *)
(* monitor ends.                                                           *)
Reconnect ==
  /\ monitor.step = "backoff" /\ entry.open
  /\ monitor' = [step |-> "building", database |-> entry.default]
  /\ UNCHANGED <<entry, editor, events, gaps>>

ReconnectRefused ==
  /\ monitor.step = "backoff" /\ entry.open
  /\ update_and_emit("disconnected") /\ MonitorGoes("off") /\ Met({"password"} \cup Unheard)
  /\ UNCHANGED editor

BuildFailsForGood ==
  /\ monitor.step = "building" /\ ~server.up
  /\ Emit("reconnecting") /\ MonitorGoes("off")
  /\ UNCHANGED <<entry, editor, gaps>>

BuildFails ==
  /\ monitor.step = "building" /\ ~server.up
  /\ Emit("reconnecting") /\ MonitorGoes("retry")
  /\ UNCHANGED <<entry, editor, gaps>>

ReplacePool ==
  /\ monitor.step = "building" /\ server.up
  /\ entry' = replace_pool(entry, monitor.database) /\ MonitorGoes("built")
  /\ Met(IF {entry.pool, entry.default} = {monitor.database} THEN {} ELSE {"rebuilt"})
  /\ UNCHANGED <<editor, events>>

TellConnectedQuietly ==
  /\ monitor.step = "built"
  /\ entry' = update_status(entry, "connected") /\ MonitorGoes("sleep") /\ Met(Unheard)
  /\ UNCHANGED <<editor, events>>

TellConnected ==
  /\ monitor.step = "built"
  /\ update_and_emit("connected") /\ MonitorGoes("sleep") /\ Met(Unheard)
  /\ UNCHANGED editor

MonitorStep ==
  /\ \/ MonitorStops \/ PingFails \/ TellLost \/ TellRetry \/ Reconnect
     \/ ReconnectRefused \/ BuildFails \/ ReplacePool \/ TellConnected
  /\ UNCHANGED <<server, selects, issued, closing, frontend>>

-----------------------------------------------------------------------------
(* The editor session, as far as its database goes: session::acquire holds *)
(* the slot while it connects. Runs that say USE are left out.             *)

Acquire ==
  /\ editor.slot \in {"none", "dead"} /\ entry.open
  /\ editor' = [slot |-> "opening", database |-> entry.default]
  /\ UNCHANGED <<entry, monitor, gaps>>

Acquired ==
  /\ editor.slot = "opening"
  /\ \/ server.up /\ entry.open /\ editor' = [editor EXCEPT !.slot = "open"]
     \/ editor' = NoEditor
  /\ UNCHANGED <<entry, monitor, gaps>>

EditorStep ==
  /\ Acquire \/ Acquired
  /\ UNCHANGED <<server, selects, issued, closing, frontend, events>>

-----------------------------------------------------------------------------
(* setActiveDatabase and select_database. *)

SetActiveDatabase(d) ==
  /\ store.attached /\ store.database # d /\ issued < MaxSelects
  /\ issued' = issued + 1
  /\ selects' = selects \cup {[id |-> issued', database |-> d, from |-> store.database,
                               step |-> "begin", heard |-> TRUE]}
  /\ store' = [store EXCEPT !.database = d]
  /\ Met(IF selects = {} THEN {} ELSE {"crossed"})
  /\ UNCHANGED <<server, backend, closing, listed, reloads, events>>

SelectGoesTwice(c, step) == selects' = selects \cup {[c EXCEPT !.step = step]}

SelectGoes(c, step) == selects' = (selects \ {c}) \cup {[c EXCEPT !.step = step]}

(* A closed connection, the keychain or the server refuses.                *)
SelectBegins(c) ==
  /\ c.step = "begin"
  /\ \/ entry.open /\ SelectGoes(c, "building")
     \/ SelectGoes(c, "failed")
  /\ UNCHANGED <<entry, editor, gaps>>

SelectBuildsCommitted(c) ==
  /\ c.step = "building"
  /\ \/ server.up /\ SelectGoes(c, "use") /\ entry' = replace_pool(entry, c.database)
     \/ SelectGoes(c, "failed") /\ UNCHANGED entry
  /\ UNCHANGED <<editor, gaps>>

SelectBuilds(c) ==
  /\ c.step = "building"
  /\ \/ server.up /\ SelectGoes(c, "use")
     \/ SelectGoes(c, "failed")
  /\ UNCHANGED <<entry, editor, gaps>>

(* use_database: without a session there is nothing to switch, a dead one  *)
(* is dropped.                                                             *)
UseDatabase(c) ==
  /\ c.step = "use"
  /\ \/ editor.slot = "none" /\ SelectGoes(c, "pool") /\ UNCHANGED editor
     \/ /\ editor.slot = "dead" /\ SelectGoes(c, "pool")
        /\ editor' = NoEditor
     \/ /\ editor.slot = "open" /\ SelectGoes(c, "pool")
        /\ editor' = [editor EXCEPT !.database = c.database]
     \/ editor.slot = "open" /\ SelectGoes(c, "failed") /\ UNCHANGED editor
  /\ UNCHANGED <<entry, gaps>>

CommitPool(c) ==
  /\ c.step = "pool" /\ SelectGoes(c, "default")
  /\ entry' = replace_pool(entry, c.database)
  /\ UNCHANGED <<editor, gaps>>

CommitDefault(c) ==
  /\ c.step = "default" /\ SelectGoes(c, "done")
  /\ entry' = set_default_database(entry, c.database)
  /\ Met((IF editor.slot \in {"opening", "open"} /\ editor.database # c.database
          THEN {"opened"} ELSE {})
         \cup (IF c.heard THEN {} ELSE {"early"}))
  /\ UNCHANGED editor

SelectStep ==
  /\ \E c \in selects : SelectBegins(c) \/ SelectBuilds(c) \/ UseDatabase(c)
                        \/ CommitPool(c) \/ CommitDefault(c)
  /\ UNCHANGED <<server, monitor, issued, closing, frontend, events>>

(* A failed selection puts back the database shown when it was asked for.  *)
SelectReply(c) ==
  /\ c.step \in {"done", "failed"}
  /\ selects' = selects \ {c}
  /\ store' = IF c.step = "failed" /\ c.heard /\ store.attached
              THEN [store EXCEPT !.database = c.from] ELSE store
  /\ UNCHANGED <<server, backend, issued, closing, listed, reloads, events, gaps>>

-----------------------------------------------------------------------------
(* Attaching, the status events, closing, and a front end that restarts    *)
(* while the native side lives on.                                         *)

Attach ==
  /\ listed.on /\ ~store.attached
  /\ store' = [attached |-> TRUE, status |-> listed.status, database |-> listed.database]
  /\ listed' = Unlisted
  /\ UNCHANGED <<server, backend, selects, issued, closing, reloads, events, gaps>>

HandleEventAlways ==
  /\ events # <<>> /\ events' = Tail(events)
  /\ store' = [store EXCEPT !.status = Head(events), !.attached = TRUE]
  /\ UNCHANGED <<server, backend, selects, issued, closing, listed, reloads, gaps>>

HandleEvent ==
  /\ events # <<>> /\ events' = Tail(events)
  /\ store' = IF store.attached THEN [store EXCEPT !.status = Head(events)] ELSE store
  /\ UNCHANGED <<server, backend, selects, issued, closing, listed, reloads, gaps>>

CloseConnection ==
  /\ store.attached /\ ~closing /\ closing' = TRUE
  /\ UNCHANGED <<server, backend, selects, issued, frontend, events, gaps>>

(* The registry entry goes, and with it the editor session unless a run    *)
(* holds the slot.                                                         *)
CloseBackend ==
  /\ closing /\ entry.open
  /\ entry' = [open |-> FALSE, status |-> entry.status, pool |-> Start, default |-> Start]
  /\ editor' = IF editor.slot = "opening" THEN editor ELSE NoEditor
  /\ UNCHANGED <<server, monitor, selects, issued, closing, frontend, events, gaps>>

CloseReply ==
  /\ closing /\ ~entry.open /\ closing' = FALSE
  /\ store' = Detached
  /\ UNCHANGED <<server, backend, selects, issued, listed, reloads, events, gaps>>

(* Not while a close is in flight: its reply would be lost.                *)
Reload ==
  /\ reloads < MaxReloads /\ reloads' = reloads + 1 /\ ~closing
  /\ store' = Detached /\ listed' = Unlisted
  /\ selects' = {[c EXCEPT !.heard = FALSE] : c \in selects}
  /\ events' = <<>>
  /\ UNCHANGED <<server, backend, issued, closing, gaps>>

ListSessions ==
  /\ ~store.attached /\ ~listed.on /\ entry.open /\ reloads > 0
  /\ listed' = [on |-> TRUE, status |-> entry.status, database |-> entry.default]
  /\ UNCHANGED <<server, backend, selects, issued, closing, store, reloads, events, gaps>>

-----------------------------------------------------------------------------

Reply == (\E c \in selects : SelectReply(c)) \/ Attach \/ HandleEvent \/ CloseReply

Next ==
  \/ GoesDown \/ ComesBack \/ MonitorStep \/ EditorStep \/ SelectStep \/ Reply
  \/ \E d \in Databases : SetActiveDatabase(d)
  \/ CloseConnection \/ CloseBackend \/ Reload \/ ListSessions

Fairness == WF_vars(MonitorStep) /\ WF_vars(HandleEvent)

Spec == Init /\ [][Next]_vars /\ Fairness

-----------------------------------------------------------------------------
(* Properties. *)

(* With no selection in flight, the pool, the editor session, the default  *)
(* a reconnect uses and the front end are on one database, also after a    *)
(* selection that failed half way, an outage or a restart of the front end *)
(* (unless one of the races came in between).                              *)
DatabasesAgree ==
  entry.open /\ selects = {} /\ gaps \subseteq {"password"} =>
    /\ entry.pool = entry.default
    /\ editor.slot \in {"opening", "open"} => editor.database = entry.default
    /\ store.attached => store.database = entry.default

(* Once the events are handled the front end shows the registry's status.  *)
StatusShown ==
  store.attached /\ entry.open /\ events = <<>> /\ "early" \notin gaps => store.status = entry.status

(* A closed connection stays away from the front end: the events of its    *)
(* monitor, which may be connecting still, do not bring it back.           *)
ClosedIsForgotten == ~entry.open /\ ~closing => ~store.attached

(* What the front end shows of a connection is what the registry has.       *)
FrontEndFollows == TypeOK /\ StatusShown /\ ClosedIsForgotten

(* When the server is back for good an open connection is connected again, *)
(* however many attempts failed, unless the keychain refused its password. *)
Recovers ==
  <>[](server.up /\ entry.open) => <>[](entry.status = "connected" \/ "password" \in gaps)
=============================================================================
