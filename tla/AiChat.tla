------------------------------- MODULE AiChat -------------------------------
(***************************************************************************)
(* One tab of the AI store: a message is sent in three awaits (context     *)
(* retrieval, listener, request), its stream is answered by events, and    *)
(* cancel, retry, clear, attach and close may come between any two steps.  *)
(* A stream id stands for the message that started it. The tab's status is *)
(* shared with the query store, whose runs and validations write it too.   *)
(***************************************************************************)
EXTENDS Integers, FiniteSets, Sequences, SequencesExt

CONSTANTS Chunks,      \* schema chunks the semantic search can find
          Memories,    \* memories the memory search can find
          Budget,      \* cumulative schema budget, in chunks
          MaxSends,    \* bound on the messages sent
          MaxContexts, \* bound on the statements attached
          MaxGaps      \* bound on the gaps after which the user goes on

ASSUME ChatAssumption ==
  /\ IsFiniteSet(Chunks) /\ Chunks \cap Memories = {}
  /\ {Budget, MaxSends, MaxContexts, MaxGaps} \subseteq Nat

VARIABLES chat,      \* TabAiState of the tab, with whether it exists and is on screen
          messages,  \* its conversation
          flows,     \* sendMessage continuations awaiting a reply
          listeners, \* streams whose events have a registered listener
          live,      \* streams the backend is producing
          query,     \* the query tab: its status, what the query store has under way
          sent,      \* messages sent so far
          gaps       \* ghost: the races named below that were met so far

chatVars == <<chat, messages, flows, listeners, live, query, sent, gaps>>

Streams == 1 .. MaxSends
Keys    == Chunks \cup Memories
NoChain == {}                  \* a chain holds at least the question it answers

Message(kind, id, keys) == [kind |-> kind, id |-> id, keys |-> keys]
ContextKinds == {"schema-context", "memory-context"}
MessageType ==
  [kind : {"user", "assistant", "attached-context"} \cup ContextKinds,
   id : 0 .. MaxSends + MaxContexts, keys : SUBSET Keys]

NewTab == [open |-> TRUE, shown |-> TRUE, stream |-> 0, error |-> FALSE, output |-> FALSE, attached |-> 0,
           chain |-> NoChain, prompt |-> {}, keys |-> {}, cost |-> 0, listener |-> 0]

ChatType ==
  [open : BOOLEAN, shown : BOOLEAN, stream : 0 .. MaxSends, error : BOOLEAN, output : BOOLEAN,
   attached : 0 .. MaxContexts, chain : SUBSET MessageType, prompt : SUBSET MessageType,
   keys : SUBSET Keys, cost : 0 .. Budget, listener : 0 .. MaxSends]

(* 'idle', 'success', 'error' and 'restoring' lock nothing: all are "free". *)
AiStatus    == {"ai-pending", "ai-reviewing"}
QueryStatus == {"free", "running"} \cup AiStatus

NewQuery == [status |-> "free", prev |-> "free", review |-> FALSE, run |-> FALSE, saved |-> "none"]

QueryType ==
  [status : QueryStatus, prev : {"free", "running"}, review : BOOLEAN, run : BOOLEAN,
   saved : QueryStatus \cup {"none"}]

ChatTypeOK ==
  /\ chat \in ChatType
  /\ messages \in Seq(MessageType)
  /\ flows \subseteq [id : Streams, stage : {"index", "memories", "search", "listen", "send"},
                      attached : 0 .. MaxContexts, memories : SUBSET Memories]
  /\ listeners \subseteq Streams /\ live \subseteq Streams
  /\ query \in QueryType
  /\ sent \in 0 .. MaxSends
  /\ gaps \subseteq {"stray", "swap", "kill", "unlocked", "relocked"}

ChatInit ==
  /\ chat = NewTab
  /\ messages = <<>>
  /\ flows = {} /\ listeners = {} /\ live = {}
  /\ query = NewQuery
  /\ sent = 0
  /\ gaps = {}

-----------------------------------------------------------------------------
(* Helpers on the tab and its messages. *)

ActiveRequestReset(t) == [t EXCEPT !.stream = 0, !.output = FALSE, !.prompt = {}]
ChainKept(t) == t

ResponseChainReset(t) == [t EXCEPT !.chain = NoChain]

KeysIn(ms)     == UNION {ms[i].keys : i \in DOMAIN ms}
IsAttached(m)  == m.kind = "attached-context"
Asked(m)       == m.kind # "assistant"
IndexOfUser(ms, id) == SelectInSeq(ms, LAMBDA m : m.kind = "user" /\ m.id = id)

AppendBehind(ms, user, m) ==
  LET i == IndexOfUser(ms, user)
  IN IF i = 0 \/ m.keys = {} THEN ms ELSE InsertAt(ms, i + 1, m)

AppendContextMessage(ms, user, m) ==
  LET i == IndexOfUser(ms, user)
  IN IF i = 0 \/ m.keys = {} THEN ms ELSE InsertAt(ms, i, m)

(* The messages of ms that are in S, in their order.                        *)
Filter(ms, S) ==
  LET f[i \in 0 .. Len(ms)] ==
        IF i = 0 THEN <<>> ELSE IF ms[i] \in S THEN Append(f[i - 1], ms[i]) ELSE f[i - 1]
  IN  f[Len(ms)]

Attachments == {m \in MessageType : IsAttached(m)}

RemovePromptOnly(ms) == Filter(ms, MessageType \ Attachments)

(* An attached statement already in the conversation is replaced where it   *)
(* stands; a new one goes before the user's message.                        *)
UpsertPromptOnly(ms, user, version) ==
  LET new == Message("attached-context", version, {})
      at  == SelectInSeq(ms, IsAttached)
      i   == IndexOfUser(ms, user)
  IN CASE version = 0 -> RemovePromptOnly(ms)
       [] version # 0 /\ i = 0 -> ms
       [] version # 0 /\ i # 0 /\ at # 0 -> [ms EXCEPT ![at] = new]
       [] OTHER -> InsertAt(ms, i, new)

LastAssistant(ms) == SelectLastInSeq(ms, LAMBDA m : m.kind = "assistant")
LastUser(ms)      == SelectLastInSeq(ms, LAMBDA m : m.kind = "user")

(* With a response to build on, only what follows the last answer is sent. *)
ResponsesInputItems ==
  IF chat.chain = NoChain THEN messages
  ELSE SubSeq(messages, LastAssistant(messages) + 1, Len(messages))

AsksOf(ms) == {ms[i] : i \in {j \in DOMAIN ms : Asked(ms[j])}}

(* removing a listener that is set, then the query tab's lock if it is the AI's *)
UnlistenKeeps(t) == listeners' = listeners

CallUnlistenSafely(t) == listeners' = listeners \ {t.listener}

Locked(q) == q.status \in AiStatus

(* setTabStatus keeps the status the lock replaces, restoreTabStatus brings *)
(* it back if the tab is still locked.                                      *)
SetTabStatus(q, status) ==
  [q EXCEPT !.status = status, !.prev = IF Locked(q) THEN @ ELSE q.status]

Restored(q) == IF Locked(q) THEN [q EXCEPT !.status = q.prev] ELSE q

LockStays == query' = query

RestoreQueryTabStatus == query' = Restored(query)

(* ai_cancel finds the stream's token, or nothing when it comes too early;  *)
(* events already under way still arrive.                                   *)
Cancel(s) == \E stops \in BOOLEAN : live' = IF stops THEN live \ {s} ELSE live

-----------------------------------------------------------------------------
(* sendMessage: the user's message, then the three awaits. *)

StartStream(t, ms) ==
  LET s == sent + 1
  IN /\ sent < MaxSends
     /\ sent' = s
     /\ chat' = [t EXCEPT !.stream = s, !.error = FALSE, !.output = FALSE, !.prompt = {}]
     /\ messages' = Append(ms, Message("user", s, {}))
     /\ query' = SetTabStatus(query, "ai-pending")
     /\ \E stage \in {"index", "memories"} :
          flows' = flows \cup
            {[id |-> s, stage |-> stage, attached |-> t.attached, memories |-> {}]}

(* A failed message typed again replaces itself. *)
SendMessage ==
  /\ chat.shown /\ chat.stream = 0
  /\ \E same \in IF chat.error /\ messages # <<>> /\ Last(messages).kind = "user"
                 THEN BOOLEAN ELSE {FALSE} :
       StartStream(chat, IF same THEN Front(messages) ELSE messages)
  /\ UNCHANGED <<listeners, live, gaps>>

Stage(f, stage) == flows' = (flows \ {f}) \cup {[f EXCEPT !.stage = stage]}
EndFlow(f)      == flows' = flows \ {f}

(* The wait for the index ends with a patch that makes a closed tab again. *)
IndexWaitEnds(f) ==
  /\ f.stage = "index"
  /\ chat' = IF chat.open THEN chat ELSE [NewTab EXCEPT !.shown = FALSE]
  /\ Stage(f, "memories")
  /\ UNCHANGED <<messages, listeners, live, query, sent, gaps>>

(* New memories are told apart here, two awaits before they are recorded. *)
MemoriesReply(f) ==
  /\ f.stage = "memories"
  /\ \E found \in SUBSET Memories :
       flows' = (flows \ {f}) \cup
         {[f EXCEPT !.stage = "search", !.memories = found \ chat.keys]}
  /\ UNCHANGED <<chat, messages, listeners, live, query, sent, gaps>>

NovelUnchecked(found) == SUBSET found

NovelPerTurn(found) == {c \in SUBSET (found \ chat.keys) : Cardinality(c) <= Budget}

(* Found chunks the conversation does not have yet, within the budget. *)
Novel(found) == {c \in SUBSET (found \ chat.keys) : chat.cost + Cardinality(c) <= Budget}

ApplyWithoutIndex(f, chunks, ms) ==
  chat' = [chat EXCEPT !.cost = @ + Cardinality(chunks)]

UpdateIndices(f, chunks, ms) ==
  chat' = [chat EXCEPT !.keys = @ \cup chunks \cup f.memories,
                     !.cost = @ + Cardinality(chunks)]

ApplyCurrentTurnContext(f, chunks) ==
  /\ \E schema \in {AppendContextMessage(messages, f.id, Message("schema-context", f.id, chunks))} :
     \E memory \in {AppendContextMessage(schema, f.id, Message("memory-context", f.id, f.memories))} :
        messages' = UpsertPromptOnly(memory, f.id, f.attached)
  /\ UpdateIndices(f, chunks, messages)
  /\ gaps' = IF chat.stream # f.id THEN gaps \cup {"stray"} ELSE gaps

(* The search ends, or fails and brings nothing; the context is put in the  *)
(* conversation even if the stream was cancelled meanwhile.                 *)
SearchReply(f) ==
  /\ f.stage = "search"
  /\ IF chat.open /\ chat.stream = f.id THEN Stage(f, "listen") ELSE EndFlow(f)
  /\ UNCHANGED <<listeners, live, query, sent>>
  /\ IF chat.open
     THEN \/ \E found \in SUBSET Chunks : \E chunks \in Novel(found) :
               ApplyCurrentTurnContext(f, chunks)
          \/ ApplyCurrentTurnContext([f EXCEPT !.memories = {}], {})
     ELSE UNCHANGED <<chat, messages, gaps>>

ListenReply(f) ==
  /\ f.stage = "listen"
  /\ IF chat.open /\ chat.stream = f.id
     THEN /\ Stage(f, "send")
          /\ chat' = [chat EXCEPT !.listener = f.id,
                                !.prompt = AsksOf(ResponsesInputItems) \cup chat.chain]
          /\ listeners' = listeners \cup {f.id}
     ELSE EndFlow(f) /\ UNCHANGED <<chat, listeners>>
  /\ UNCHANGED <<messages, live, query, sent, gaps>>

SendReply(f) ==
  /\ f.stage = "send"
  /\ EndFlow(f)
  /\ live' = live \cup {f.id}
  /\ UNCHANGED <<chat, messages, listeners, query, sent, gaps>>

(* A failure does not ask whether its stream is still the active one. *)
FlowFails(f) ==
  /\ f.stage \in {"listen", "send"}
  /\ EndFlow(f)
  /\ IF chat.open
     THEN /\ CallUnlistenSafely(chat)
          /\ chat' = [ActiveRequestReset(chat) EXCEPT !.listener = 0, !.error = TRUE]
          /\ RestoreQueryTabStatus
          /\ gaps' = IF chat.stream \notin {0, f.id} THEN gaps \cup {"kill"} ELSE gaps
     ELSE UNCHANGED <<chat, listeners, query, gaps>>
  /\ UNCHANGED <<messages, live, sent>>

-----------------------------------------------------------------------------
(* The stream's events, each behind the stale-stream guard. *)

Heard(s) == s \in live /\ s \in listeners /\ chat.open /\ chat.stream = s

OnStreamChunk(s) ==
  /\ Heard(s)
  /\ \E answers \in BOOLEAN : chat' = [chat EXCEPT !.output = @ \/ answers]
  /\ messages' = IF Last(messages).kind = "assistant" THEN messages
                 ELSE Append(messages, Message("assistant", s, {}))
  /\ UNCHANGED <<flows, listeners, live, query, sent, gaps>>

Finish(s, t) ==
  /\ live' = live \ {s}
  /\ IF Heard(s)
     THEN /\ chat' = [ActiveRequestReset(t) EXCEPT !.listener = 0]
          /\ CallUnlistenSafely(chat)
          /\ RestoreQueryTabStatus
     ELSE UNCHANGED <<chat, listeners, query>>
  /\ UNCHANGED <<messages, flows, sent, gaps>>

(* The answer's id is kept to build on when it came over the responses API. *)
OnStreamDone(s) ==
  /\ s \in live
  /\ \E responses \in BOOLEAN :
       Finish(s, [chat EXCEPT !.chain = IF responses /\ chat.output THEN chat.prompt ELSE NoChain])

ErrorUnheard(s) ==
  /\ s \in live /\ live' = live \ {s}
  /\ UNCHANGED <<chat, messages, flows, listeners, query, sent, gaps>>

OnStreamError(s) ==
  s \in live /\ Finish(s, [ResponseChainReset(chat) EXCEPT !.error = TRUE])

-----------------------------------------------------------------------------
(* The panel's other operations. *)

CancelStream ==
  /\ chat.shown /\ chat.stream # 0
  /\ chat' = [ResponseChainReset(ActiveRequestReset(chat)) EXCEPT !.listener = 0]
  /\ CallUnlistenSafely(chat)
  /\ RestoreQueryTabStatus
  /\ Cancel(chat.stream)
  /\ UNCHANGED <<messages, flows, sent, gaps>>

(* The turn of a question begins with the context right before it.          *)
TurnStart(ms, user) ==
  1 + SelectLastInSubSeq(ms, 1, user - 1, LAMBDA m : m.kind \notin ContextKinds \cup {"attached-context"})

(* The turn's own context goes with the last question; an attached          *)
(* statement stays.                                                         *)
RetryLastMessage ==
  /\ chat.shown /\ chat.error
  /\ LET user  == LastUser(messages)
         start == TurnStart(messages, user)
         turn  == SubSeq(messages, start, user - 1)
         rest  == SubSeq(messages, 1, start - 1) \o Filter(turn, Attachments)
     IN /\ user # 0
        /\ StartStream([ResponseChainReset(ActiveRequestReset(chat)) EXCEPT
                          !.keys = @ \ KeysIn(turn),
                          !.cost = Cardinality(KeysIn(rest) \cap Chunks)], rest)
  /\ UNCHANGED <<listeners, live, gaps>>

Swap == IF chat.stream # 0 THEN {"swap"} ELSE {}

(* The query tab's status is written by another than the AI store: while an *)
(* answer is due that unlocks the editor, after it that locks it again.     *)
Overwrites(q) ==
  (IF Locked(query) /\ ~Locked(q) /\ chat.stream # 0 THEN {"unlocked"} ELSE {}) \cup
  (IF Locked(q) /\ chat.stream = 0 /\ ~q.review THEN {"relocked"} ELSE {})

Reviewed == Restored([query EXCEPT !.review = FALSE])

(* The editor's text changed, or a diff was accepted: that closes the       *)
(* review.                                                                  *)
SetAttachedContext ==
  /\ chat.shown
  /\ \E v \in {chat.attached, chat.attached + 1} \cap (1 .. MaxContexts) :
       /\ chat' = [(IF \E i \in DOMAIN messages :
                         messages[i] = Message("attached-context", v, {})
                   THEN chat ELSE ResponseChainReset(chat)) EXCEPT !.attached = v]
       /\ messages' = RemovePromptOnly(messages)
  /\ \/ query' = query /\ gaps' = gaps \cup Swap
     \/ /\ query.review /\ chat.attached # 0
        /\ query' = Reviewed
        /\ gaps' = gaps \cup Swap \cup Overwrites(Reviewed)
  /\ UNCHANGED <<flows, listeners, live, sent>>

ClearAttachedContext ==
  /\ chat.shown /\ chat.attached # 0
  /\ chat' = [ResponseChainReset(chat) EXCEPT !.attached = 0]
  /\ messages' = RemovePromptOnly(messages)
  /\ gaps' = gaps \cup Swap
  /\ UNCHANGED <<flows, listeners, live, query, sent>>

ClearConversation ==
  /\ chat.shown /\ messages # <<>>
  /\ CallUnlistenSafely(chat)
  /\ Cancel(chat.stream)
  /\ chat' = [ResponseChainReset(ActiveRequestReset(chat)) EXCEPT
               !.listener = 0, !.error = FALSE, !.keys = {}, !.cost = 0]
  /\ messages' = <<>>
  /\ query' = IF chat.stream # 0 THEN Restored(query) ELSE query
  /\ UNCHANGED <<flows, sent, gaps>>

(* The workspace closes the tab; its query tab goes with it, a validation   *)
(* under way does not.                                                      *)
CleanupTab ==
  /\ chat.shown
  /\ CallUnlistenSafely(chat)
  /\ Cancel(chat.stream)
  /\ chat' = [NewTab EXCEPT !.open = FALSE, !.shown = FALSE]
  /\ messages' = <<>>
  /\ query' = [NewQuery EXCEPT !.saved = query.saved]
  /\ UNCHANGED <<flows, sent, gaps>>

-----------------------------------------------------------------------------
(* The query tab: reviews of a proposed statement, runs and validations.    *)

Writes(q) ==
  /\ query' = q
  /\ gaps' = gaps \cup Overwrites(q)
  /\ UNCHANGED <<chat, messages, flows, listeners, live, sent>>

OpenReview ==
  /\ chat.shown /\ chat.attached # 0 /\ ~query.review
  /\ \E i \in DOMAIN messages : messages[i].kind = "assistant"
  /\ Writes([SetTabStatus(query, "ai-reviewing") EXCEPT !.review = TRUE])

RejectReview ==
  /\ chat.shown /\ query.review
  /\ Writes(Reviewed)

(* executeQuery refuses a locked tab; the retry of one result of several    *)
(* does not ask.                                                            *)
RunStarts ==
  /\ chat.shown /\ ~query.run
  /\ Writes([query EXCEPT !.run = TRUE, !.status = "running"])

RunEnds ==
  /\ query.run
  /\ Writes([query EXCEPT !.run = FALSE, !.status = "free"])

(* Shown again, the tab is validated: 'restoring', then what was captured.  *)
(* A failed validation puts it back even in a tab that was closed.          *)
Validates ==
  /\ chat.shown /\ query.saved = "none"
  /\ Writes([query EXCEPT !.saved = query.status, !.status = "free"])

Validated ==
  /\ query.saved # "none"
  /\ \E failed \in BOOLEAN :
       Writes([query EXCEPT !.saved = "none",
                            !.status = IF chat.shown \/ failed THEN query.saved ELSE @])

QueryReply == RunEnds \/ Validated

-----------------------------------------------------------------------------
FlowStep(f) ==
  IndexWaitEnds(f) \/ MemoriesReply(f) \/ SearchReply(f) \/ ListenReply(f) \/ SendReply(f)

StreamEnds(s) == OnStreamDone(s) \/ OnStreamError(s)

ChatUser ==
  /\ Cardinality(gaps) <= MaxGaps
  /\ \/ SendMessage \/ CancelStream \/ RetryLastMessage
     \/ SetAttachedContext \/ ClearAttachedContext \/ ClearConversation \/ CleanupTab
     \/ OpenReview \/ RejectReview \/ RunStarts \/ Validates

ChatNext ==
  \/ ChatUser \/ QueryReply
  \/ \E f \in flows : FlowStep(f) \/ FlowFails(f)
  \/ \E s \in live : OnStreamChunk(s) \/ StreamEnds(s)

(* Every call of a turn is answered, and a stream ends: the HTTP client     *)
(* times out a read that stalls.                                            *)
ChatFairness ==
  /\ WF_chatVars(\E f \in flows : FlowStep(f))
  /\ WF_chatVars(\E s \in live : StreamEnds(s))

ChatSpec == ChatInit /\ [][ChatNext]_chatVars /\ ChatFairness

-----------------------------------------------------------------------------
(***************************************************************************)
(* Properties. A race the code does not close is a gap:                    *)
(*   stray  the context of a turn that was cancelled, retried or cleared   *)
(*          meanwhile is still recorded as provided, though its question   *)
(*          may be gone and the newer request sent;                        *)
(*   swap   the attached statement was changed while an answer was due;    *)
(*   kill   a call of an earlier turn failed late and reset a newer one;   *)
(*   unlocked  a run that was under way, a validation or the end of a      *)
(*          review wrote the tab's status while an answer was due;         *)
(*   relocked  a validation put back a lock that was over.                 *)
(***************************************************************************)

Late == gaps \cap {"stray", "swap", "kill"}

(* The dedup index holds exactly the keys the context messages carry        *)
(* (applyCurrentTurnContext, retryLastMessage, clearConversation): a key    *)
(* without a message would keep its table from the model for good.          *)
IndexMatchesConversation ==
  chat.open /\ Late = {} => chat.keys = KeysIn(messages)

(* However retrievals overlap, no chunk is in two context messages and the  *)
(* chunks together keep the cumulative budget (retrieveSchemaContext).      *)
ChunksOnceWithinBudget ==
  /\ \A i, j \in DOMAIN messages :
       messages[i].keys \cap messages[j].keys \cap Chunks # {} => i = j
  /\ Cardinality(KeysIn(messages) \cap Chunks) <= Budget

(* A registered listener is the tab's, of the stream that is active: none   *)
(* is leaked by a cancel, retry, failure or close in between the awaits.    *)
ListenersAreOwned ==
  /\ listeners = {chat.listener} \ {0}
  /\ chat.listener \in {0, chat.stream}

(* An answer stands right behind the question it answers, whatever late     *)
(* events of other streams there were.                                      *)
AnswersFollowTheirQuestion ==
  \A i \in DOMAIN messages :
    messages[i].kind = "assistant" =>
      /\ i > 1
      /\ messages[i - 1] = Message("user", messages[i].id, {})

(* The editor is locked while an answer is due, unless the query store      *)
(* wrote over the lock, and no longer than that or a review lasts, unless a *)
(* validation brought the lock back: whichever path ends the turn, and      *)
(* whatever ran when it began.                                              *)
LockedWhileGenerating ==
  /\ chat.stream # 0 => Locked(query) \/ "unlocked" \in gaps
  /\ Locked(query) => chat.stream # 0 \/ query.review \/ "relocked" \in gaps

(* The conversation, what it has spent, who listens and who is locked out   *)
(* fit together between any two steps of overlapping turns.                 *)
ConversationInv ==
  /\ ChatTypeOK /\ IndexMatchesConversation /\ ChunksOnceWithinBudget
  /\ AnswersFollowTheirQuestion /\ ListenersAreOwned /\ LockedWhileGenerating

Requests == chat'.prompt \notin {{}, chat.prompt}

(* When only what is new is sent, it and the chain it builds on are the     *)
(* conversation: nothing is left out and nothing removed is still in it.    *)
PromptIsComplete ==
  [][Requests /\ Late = {} => chat'.prompt = AsksOf(messages)]_chatVars

(* What the editor's wrapper promises: a prompt sent after the statement    *)
(* was attached speaks of that statement and of no other.                   *)
PromptIsOfAttached ==
  [][\A f \in flows :
       Requests /\ f.id = chat.stream /\ f.attached = chat.attached =>
         \A m \in chat'.prompt : m.kind = "attached-context" => m.id = chat.attached]_chatVars

(* Every turn ends, with an answer, an error or its own failure: the panel  *)
(* does not wait for good.                                                  *)
TurnEnds == chat.stream # 0 ~> chat.stream = 0

=============================================================================
