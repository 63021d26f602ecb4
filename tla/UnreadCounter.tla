--------------------------- MODULE UnreadCounter ---------------------------
(***************************************************************************)
(* The unread counter of one chat: the column chat.unreadCount beside the  *)
(* customer's messages that nobody has read (message.readAt is null), and  *)
(* the pool of database connections all of it goes through.                *)
(*                                                                         *)
(* The counter is incremented in the database, but every handler that      *)
(* saves a Chat entity saves all its columns that differ from the row: the *)
(* count it read earlier is put back (mem).  markMessagesAsRead runs in a  *)
(* transaction (READ COMMITTED): it loads the messages, marks the unread   *)
(* ones, sets the counter to 0, which locks the row until the commit, and  *)
(* before it commits asks for the chat through a second connection.        *)
(*                                                                         *)
(* A task is a handler in flight; each step is one query, with the code up *)
(* to the next.  Which way a message goes once it is stored (no WhatsApp,  *)
(* reopened chat, bot, hand-over) is left open here: ChatAssignment says.  *)
(* A chat that has no row yet is one whose counter is 0.                   *)
(***************************************************************************)
EXTENDS Integers, FiniteSets

CONSTANTS Tasks,        \* handlers in flight at once
          MessageBound, \* bound on stored messages, guards new ones
          PoolSize,     \* connections of the pool (max in app.module.ts)
          Faults        \* what may go wrong, see FaultsAssumption

ASSUME TasksAssumption == IsFiniteSet(Tasks)
ASSUME BoundAssumption == MessageBound \in Nat
ASSUME PoolAssumption == PoolSize \in Nat \ {0}
ASSUME FaultsAssumption ==
    Faults \subseteq {"crash",  \* the process restarts
                      "error",  \* a query or a call throws
                      "lapse"}  \* the lock of incoming messages expires

VARIABLES unreadCount, \* the column
          stored,      \* customer messages stored so far, numbered from 1
          unread,      \* those whose readAt is null
          task,        \* the handlers in flight
          drifted      \* ghost: the counter may be wrong, for a known reason

vars == <<unreadCount, stored, unread, task, drifted>>

(***************************************************************************)
(*   at, then  the next step, and the one after a save                     *)
(*   frame     "message" for a message handler, "try" for one inside the   *)
(*             try block of handleAutoResponderFlow, "none" for the others *)
(*   mem       the count in the entity that is saved next                  *)
(*   own       the count in the message handler's own entity               *)
(*   msg       the message it stored, 0 before                             *)
(*   seen      the unread messages a transaction has loaded                *)
(*   conn      whether the next query has its connection                   *)
(***************************************************************************)
Queries == {"find", "save", "insert", "increment", "touch", "read", "begin",
            "answer"}
Labels == Queries \union {"idle", "route", "flow", "place", "reply", "mark"}
AfterSave == {"idle", "insert", "flow", "place", "reply"}

Idle == [at |-> "idle", then |-> "idle", frame |-> "none", mem |-> 0,
         own |-> 0, msg |-> 0, seen |-> {}, conn |-> FALSE]
Task == [at : Labels, then : AfterSave, frame : {"none", "message", "try"},
         mem : Nat, own : Nat, msg : Nat, seen : SUBSET Nat, conn : BOOLEAN]

Become(t, r) == task' = [task EXCEPT ![t] = r]
Goto(t, label) ==
    Become(t, [task[t] EXCEPT !.at = label, !.mem = 0, !.msg = 0,
                              !.conn = FALSE])
End(t) == Become(t, Idle)
Start(t, label, frame) ==
    /\ task[t] = Idle
    /\ Become(t, [Idle EXCEPT !.at = label, !.frame = frame])

\* The task whose query is at the given label and has its connection.
Runs(t, label) == task[t].at = label /\ task[t].conn

\* Tasks that stored a message they have not counted yet.
Pending == {t \in Tasks : task[t].at = "increment"}
PendingMessages == {task[t].msg : t \in Pending}

-----------------------------------------------------------------------------
(***************************************************************************)
(* The connection pool.                                                    *)
(***************************************************************************)
InTransaction == {t \in Tasks : task[t].at \in {"mark", "answer"}}
InUse == Cardinality({t \in Tasks : task[t].conn}) + Cardinality(InTransaction)

Waits(t) == task[t].at \in Queries /\ ~task[t].conn

Borrow(t) ==
    /\ Waits(t)
    /\ InUse < PoolSize
    /\ Become(t, [task[t] EXCEPT !.conn = TRUE])
    /\ UNCHANGED <<unreadCount, stored, unread, drifted>>

\* The row of the chat is locked by a transaction that has written it.
Locked == \E t \in Tasks : task[t].at = "answer" /\ task[t].seen # {}

(***************************************************************************)
(* Saving a chat.                                                          *)
(***************************************************************************)
SaveNext(t, count, then) ==
    Become(t, [task[t] EXCEPT !.at = "save", !.then = then, !.mem = count,
                              !.conn = FALSE])

\* The message handler's own entity: its count was read before the message
\* was stored.
SaveOwn(t, then) == SaveNext(t, task[t].own, then)

\* An exception.  Inside the try block of the bot's flow the chat is handed
\* over, with a save of the handler's own entity; a transaction is rolled
\* back; a message that was stored stays uncounted.
Fail(t) ==
    /\ IF task[t].frame = "try"
       THEN Become(t, [task[t] EXCEPT !.at = "save", !.then = "place",
                                      !.mem = task[t].own, !.conn = FALSE,
                                      !.frame = "message"])
       ELSE End(t)
    /\ drifted' = (drifted \/ task[t].at = "increment")
    /\ UNCHANGED <<unreadCount, stored, unread>>

Throws(t) ==
    /\ "error" \in Faults
    /\ task[t].at \notin {"idle", "route", "flow", "place"}
    /\ Fail(t)

\* Mutant of PoolTimesOut: no connectionTimeoutMillis.
PoolWaits(t) == task[t].at = "answer" /\ Fail(t) /\ FALSE

\* No connection within connectionTimeoutMillis.
PoolTimesOut(t) == Waits(t) /\ InUse >= PoolSize /\ Fail(t)

\* Every column of the entity that differs from the row is written.
Save(t) ==
    LET r == task[t]
    IN /\ Runs(t, "save") /\ ~Locked
       /\ unreadCount' = r.mem
       /\ drifted' = (drifted \/ r.mem # unreadCount)
       /\ IF r.then = "idle" THEN End(t) ELSE Goto(t, r.then)
       /\ UNCHANGED <<stored, unread>>

-----------------------------------------------------------------------------
(***************************************************************************)
(* A customer's message: processIncomingMessage and saveCustomerMessage.   *)
(***************************************************************************)
Receive(t) ==
    /\ stored + Cardinality({s \in Tasks : task[s] # Idle}) < MessageBound
    /\ "lapse" \in Faults \/ \A s \in Tasks : task[s].frame = "none"
    /\ Start(t, "find", "message")
    /\ UNCHANGED <<unreadCount, stored, unread, drifted>>

\* Mutant of FindChat: the message is counted in the entity as well.
FindChatCounting(t) ==
    /\ Runs(t, "find")
    /\ Become(t, [task[t] EXCEPT !.at = "save", !.then = "insert",
                                 !.mem = unreadCount + 1,
                                 !.own = unreadCount + 1, !.conn = FALSE])
    /\ UNCHANGED <<unreadCount, stored, unread, drifted>>

\* findOne; updateOrCreateChat saves what it returned.
FindChat(t) ==
    /\ Runs(t, "find")
    /\ Become(t, [task[t] EXCEPT !.at = "save", !.then = "insert",
                                 !.mem = unreadCount, !.own = unreadCount,
                                 !.conn = FALSE])
    /\ UNCHANGED <<unreadCount, stored, unread, drifted>>

InsertMessage(t) ==
    /\ Runs(t, "insert")
    /\ stored' = stored + 1
    /\ unread' = unread \union {stored'}
    /\ Become(t, [task[t] EXCEPT !.at = "increment", !.msg = stored',
                                 !.conn = FALSE])
    /\ UNCHANGED <<unreadCount, drifted>>

\* incrementUnreadCount: SET "unreadCount" = "unreadCount" + 1.
IncrementUnreadCount(t) ==
    /\ Runs(t, "increment") /\ ~Locked
    /\ unreadCount' = unreadCount + 1
    /\ Goto(t, "touch")
    /\ UNCHANGED <<stored, unread, drifted>>

\* saveCustomerMessage sets updatedAt.
Touch(t) ==
    /\ Runs(t, "touch") /\ ~Locked
    /\ Goto(t, "route")
    /\ UNCHANGED <<unreadCount, stored, unread, drifted>>

\* Without WhatsApp the chat is saved for the agents, a closed one is saved
\* and goes to the bot, one of the bot goes there as it is, and nothing
\* more is done for the others.
Route(t) ==
    /\ task[t].at = "route"
    /\ SaveOwn(t, "place") \/ SaveOwn(t, "flow") \/ Goto(t, "flow") \/ End(t)
    /\ UNCHANGED <<unreadCount, stored, unread, drifted>>

\* The bot: an answer, an answer after a fresh copy of the chat was saved (a
\* name, or the end of a survey), the hand-over, or nothing.
Flow(t) ==
    LET r == [task[t] EXCEPT !.frame = "try"]
    IN /\ task[t].at = "flow"
       /\ \/ End(t)
          \/ Become(t, [r EXCEPT !.at = "reply"])
          \/ Become(t, [r EXCEPT !.at = "read", !.then = "reply"])
          \/ Become(t, [r EXCEPT !.at = "save", !.then = "place",
                                 !.mem = r.own])
       /\ UNCHANGED <<unreadCount, stored, unread, drifted>>

Reply(t) ==
    /\ task[t].at = "reply"
    /\ End(t)
    /\ UNCHANGED <<unreadCount, stored, unread, drifted>>

\* autoAssignChat: saved for the queue, assigned on a fresh copy (by
\* assignChat), or left alone when no agent is found.
Place(t) ==
    /\ task[t].at = "place"
    /\ \/ SaveOwn(t, "idle")
       \/ Become(t, [task[t] EXCEPT !.at = "read", !.then = "idle"])
       \/ End(t)
    /\ UNCHANGED <<unreadCount, stored, unread, drifted>>

-----------------------------------------------------------------------------
(***************************************************************************)
(* The panel: requests that change the chat, and the read mark.            *)
(***************************************************************************)
\* assignChat, releaseChat, finalizeChat, unassignChat.
ChangeChat(t) ==
    /\ Start(t, "read", "none")
    /\ UNCHANGED <<unreadCount, stored, unread, drifted>>

\* They load the chat, and then save it.
ReadChat(t) ==
    /\ Runs(t, "read")
    /\ SaveNext(t, unreadCount, task[t].then)
    /\ UNCHANGED <<unreadCount, stored, unread, drifted>>

MarkMessagesAsRead(t) ==
    /\ Start(t, "begin", "none")
    /\ UNCHANGED <<unreadCount, stored, unread, drifted>>

\* The transaction begins and loads the messages.  When none is unread the
\* counter is not touched.
LoadMessages(t) ==
    /\ Runs(t, "begin")
    /\ Become(t, [task[t] EXCEPT !.at = IF unread = {} THEN "answer" ELSE "mark",
                                 !.seen = unread, !.conn = FALSE])
    /\ UNCHANGED <<unreadCount, stored, unread, drifted>>

\* The messages and the counter are written, not yet committed.
WriteMarks(t) ==
    /\ task[t].at = "mark" /\ ~Locked
    /\ Goto(t, "answer")
    /\ UNCHANGED <<unreadCount, stored, unread, drifted>>

\* Mutant of Commit: the counter is not reset.
CommitMarksOnly(t) ==
    /\ Runs(t, "answer")
    /\ unread' = unread \ task[t].seen
    /\ End(t)
    /\ UNCHANGED <<unreadCount, stored, drifted>>

\* Mutant of Commit: the messages marked are taken off the counter.
CommitDecrement(t) ==
    /\ Runs(t, "answer")
    /\ unread' = unread \ task[t].seen
    /\ unreadCount' = unreadCount - Cardinality(task[t].seen)
    /\ drifted' = TRUE
    /\ End(t)
    /\ UNCHANGED stored

\* findOne on its own connection, then the commit.  A message stored and
\* counted since the transaction loaded the messages loses its count, and
\* one marked before it was counted is counted afterwards.
Commit(t) ==
    LET seen == task[t].seen
    IN /\ Runs(t, "answer")
       /\ unread' = unread \ seen
       /\ unreadCount' = IF seen = {} THEN unreadCount ELSE 0
       /\ drifted' = IF seen = {} THEN drifted
                     ELSE unread \ seen # PendingMessages
       /\ End(t)
       /\ UNCHANGED stored

-----------------------------------------------------------------------------
\* A restart: transactions are rolled back, the rest of the handlers is lost.
Crash ==
    /\ "crash" \in Faults
    /\ task' = [t \in Tasks |-> Idle]
    /\ drifted' = (drifted \/ Pending # {})
    /\ UNCHANGED <<unreadCount, stored, unread>>

Init ==
    /\ unreadCount = 0
    /\ stored = 0
    /\ unread = {}
    /\ task = [t \in Tasks |-> Idle]
    /\ drifted = FALSE

Run(t) ==
    \/ FindChat(t) \/ Save(t) \/ InsertMessage(t) \/ IncrementUnreadCount(t)
    \/ Touch(t) \/ Route(t) \/ Flow(t) \/ Reply(t) \/ Place(t) \/ ReadChat(t)
    \/ LoadMessages(t) \/ WriteMarks(t) \/ Commit(t)

Requests(t) == Receive(t) \/ ChangeChat(t) \/ MarkMessagesAsRead(t)

Next ==
    \/ \E t \in Tasks : \/ Requests(t) \/ Borrow(t) \/ Run(t)
                        \/ Throws(t) \/ PoolTimesOut(t)
    \/ Crash

Spec == Init /\ [][Next]_vars

\* Whoever waits for a connection gets one or the timeout of the pool, and
\* whoever waits for the lock of the row gets it in turn.
FairSpec ==
    /\ Spec
    /\ \A t \in Tasks : WF_vars(Borrow(t) \/ PoolTimesOut(t)) /\ SF_vars(Run(t))

-----------------------------------------------------------------------------
\* The variables keep their types.
TypeOK ==
    /\ unreadCount \in Nat
    /\ stored \in Nat
    /\ unread \subseteq 1 .. stored
    /\ task \in [Tasks -> Task]
    /\ drifted \in BOOLEAN

\* The counter and the increments still to come are the unread messages,
\* save after one of three things (chat.service.ts:96-106, 184, 204, 492-551,
\* 636-667): an entity with another count was saved, a handler ended between
\* the message and its increment, or a read mark crossed a new message.  A
\* read mark that crosses none puts it right again.
CounterIsExact ==
    ~drifted => unreadCount + Cardinality(Pending) = Cardinality(unread)

\* The counter never runs ahead of the messages there have ever been, not
\* even when old counts are put back (chat.service.ts:492, 551).
NeverMoreThanStored == unreadCount + Cardinality(Pending) <= stored

\* Requests come to their end although a transaction waits for a second
\* connection while it holds one, and the row's lock (chat.service.ts:638,
\* 665): the timeout of the pool (app.module.ts:86) breaks the circle.
RequestsEnd == \A t \in Tasks : task[t] # Idle ~> task[t] = Idle
=============================================================================
