# A verification project for the WhatsApp panel

The program (`src/`) is a NestJS backend that puts a bot and a team of agents
behind one WhatsApp number. This directory holds TLA+ models of its behaviour,
the TLC runs that check them and the theorems TLAPS proves about them.

| file | what it is |
|---|---|
| `MessageLock.tla`, `MessageLock.cfg`, `MessageLockIgnored.cfg` | the Redis lock around an incoming message |
| `MessageDuty.tla` | what the lock promises the rest, an abstract specification |
| `MessageLockProofs.tla` | four theorems about it |
| `ChatAssignment.tla` | the assignment desk: who attends a chat |
| `DeskRaces.tla`, `MCDeskRaces.tla` | what it keeps to when handlers overlap, and where that ends |
| `ChatLifecycle.tla` | the life of a chat that `DeskRaces` implements, an abstract specification |
| `MCChatAssignment.tla`, `Desk*.cfg` | instances of the desk for TLC |
| `ChatAssignmentProofs.tla` | three theorems about it, that it keeps to `MessageDuty` among them |
| `ChatAssignmentPlacingProofs.tla` | two theorems: no chat is orphaned |
| `DeskRacesProofs.tla` | two theorems about handlers that overlap: response timers and `ChatLifecycle` |
| `ConversationFlow.tla`, `Conversation*.cfg` | the bot's conversation with a customer |
| `ConversationFlowProofs.tla` | four theorems about it |
| `WhatsappLink.tla`, `WhatsappLink.cfg` | the connection to WhatsApp and its circuit breaker |
| `WhatsappLinkProofs.tla` | five theorems about it |
| `UnreadCounter.tla`, `UnreadCounter.cfg` | the unread counter, its read marks and the connection pool |
| `UnreadCounterProofs.tla` | three theorems about it |
| `PanelViews.tla`, `MCPanelViews.tla`, `PanelViews.cfg` | survey statistics, trend, the bot's profile and their cache |
| `PanelViewsProofs.tla` | four theorems about them |
| `PROJECT.json` | components, runs, mutants, source map, findings, hazards, theorems |

## 1. Inventory

### Components

**ChatService** (`chat/chat.service.ts`) is the core. State: the `chat` rows
(status, assigned agent, unread counter), the `message` rows, and in memory one
response timer per chat (`agentResponseTimeouts`) and one inactivity timer per
chat (`autoResponderTimeouts`). Operations: handle an incoming message (find or
create the chat, store the message, then bot, agents or nothing), hand a chat
over to an agent, assign, release, unassign and finalize it, send an agent's
message, reassign an unanswered chat, release chats active for more than 24 h
(cron). Correct when: one row per contact; a waiting chat is in the queue; an
active chat has an agent or is on its way to one; a chat at rest has none; an
agent who does not answer is watched.

**ChatGateway and PresenceService** hold the map of sockets to people. A socket
that connects for an agent takes one chat off the waiting queue.

**RedisStateStore** keeps the waiting queue, the per-contact lock and the state
of each conversation with the bot (24 h expiry). Shared by all instances of the
backend. Correct when: a lock excludes and is freed; the queue starves nobody.

**UserService** keeps accounts (soft delete) and picks the connected agent with
the fewest active chats.

**ConversationFlowService** is the bot: start, name, menu, disclaimer, cedula,
survey; exit commands from anywhere. Correct when: debts are shown only after
the terms were accepted, a survey is recorded once and closes the chat, and the
conversation is never stuck.

**WhatsappService** owns the one socket to WhatsApp: connection events,
reconnection with back-off and at most ten attempts, logout, circuit breaker.
Correct when: one live socket, a lost connection comes back, the breaker opens
and closes.

**DashboardService** counts survey answers, with a cached summary that a new
answer invalidates. **AdminService** changes the bot's profile and caches it.
**ChatController**, **ContactsController**, **AdminController**,
**DashboardController**, **UserController** translate requests. **Auth** checks
credentials, tokens and roles, statelessly. **AppModule** and **main** wire it.

### Interactions

WhatsappService emits `whatsapp.message`; ChatService handles it under the lock
of the contact and calls ConversationFlowService, which calls ChatService back
(`finalizeChat`) and invalidates the dashboard's cache. ChatService asks
PresenceService who is connected and UserService who has fewest chats, pushes on
RedisStateStore's queue, and sends through WhatsappService. A connection to
ChatGateway pops the queue and calls ChatService. Timers and the cron job call
ChatService. All of these are asynchronous handlers on one event loop: between
two `await`s of one, any other may run.

### What is hard here

* Handlers read an entity, await several calls and save the whole entity.
* Chat row, waiting queue, presence map and timers are four stores that no
  transaction ties together; each operation updates them one after another.
* The lock expires, carries no owner, and is deleted by whoever finishes.
* WhatsApp goes down in the middle of handlers, and their error paths start
  further work.
* Timers fire while answers, releases and reassignments are under way; timers
  and presence are lost in a restart, the queue and the rows are not.

The list of hazards, each at its line, is in `PROJECT.json`.

## 2. Plan

1. `MessageLock`, then `ChatAssignment` with runs and first theorems: **done**.
2. `ConversationFlow`: the bot's steps, the inactivity timer, the survey and
   consent, with runs and four theorems: **done**.
3. `WhatsappLink`: sockets, reconnection timer, attempts, logout, breaker, with
   a run and five theorems: **done**.
4. `PanelViews`: the cached survey view and the bot's profile against changes and
   their invalidation, live statistics, the trend, with a run and four theorems:
   **done**.
5. `UnreadCounter`: increments in the database, resets in a transaction, and
   saves of entities that carry an older counter (`chat.entity.ts:36`), with the
   connection pool, a run and three theorems: **done**.
6. The abstract specifications `MessageDuty`, which `MessageLock` implements and
   `ChatAssignment` relies on, and `ChatLifecycle`, which `DeskRaces` implements,
   all three proved: **done**.
7. The theorems that no chat is orphaned, `WaitingIsQueued` and `ActiveIsAttended`
   of `ChatAssignment`, for any number of handlers: **done**.
8. `DeskRaces`: `SilentAgentIsTimed` and `FollowsLifecycle` for handlers that
   overlap, with the two races that end them, as runs and as theorems for any
   number of handlers: **done**.

Which module composes which: `MessageLock` and `ChatAssignment` each hold an
INSTANCE of `MessageDuty`, so that what the first guarantees is, word for word,
what the second was built on; `DeskRaces`, which extends `ChatAssignment`, holds
one of `ChatLifecycle`. The
others share no state that both change: `ConversationFlow` treats one customer
while the chat's status is a given, `UnreadCounter` one column of one chat.

## 3. MessageLock

Models `handleIncomingMessage` (`chat.service.ts:73-147`) with `acquireLock` and
`releaseLock` (`redis-state-store.ts:98-125`) for several instances of the
backend on one Redis and one database.

| state | code |
|---|---|
| `lock` | the Redis keys `chat:processing:<contact>` |
| `rows` | how many rows the `chat` table has for a contact |
| `at`, `on` | where each handler is and its contact |
| `ignored` | messages given up because the lock was taken |
| `lapsed` (ghost) | contacts whose lock expired under a handler |

One action per step: `AcquireLock`, `IgnoreMessage`, `AcquireFails`, `FindChat`,
`InsertChat`, `UpdateChat`, `Finish`, `Throw` (the `catch`), `ReleaseLock`,
`ReleaseFails` (the `finally`), `LockExpires`, `Crash`.

Assumption on time: a lock does not expire under a handler while its contact has
no row (two statements against 30 s). With a row it may expire at any moment.
Without the assumption two rows are possible.

`ImplementsDuty` is the refinement: `MessageDuty` sees of a handler only the
contact it is on duty for (it is past its lock and has not given it back), and of
the contacts how many rows they have. Lock, expiry, owners and errors are gone; what
stays is that nobody joins a handler whose contact has no chat, and that the chat
is created by the only handler on duty. Locks that lapse, crashes and errors all
map to handlers that end, or to nothing.

Fairness: a handler that runs goes on (each await returns; the Redis, database
and WhatsApp clients have timeouts) and a lock's 30 s pass. Nothing is assumed of
messages, errors or crashes.

## 4. ChatAssignment

Models one backend process. A *task* is a handler in flight; each step of it is
one query with the code up to the next, so that with two tasks every
interleaving at the awaits is explored.

| state | code |
|---|---|
| `chat` | status and `assignedTo` of the row of each contact |
| `queue` | the Redis list `waiting_chats_queue` |
| `registered` | users without `deletedAt` |
| `connected` | `agentSocketMap` (people, not sockets: closing one of two sockets of a person changes nothing here) |
| `timer` | `agentResponseTimeouts`, with the agent each timer is for |
| `isReady` | `WhatsappService.isReady` |
| `task` | the handlers in flight: next step, entity in memory, chats left to the cron job |
| `answered` (ghost) | chats whose agent has written since assigned |
| `mishap` (ghost) | the worst that happened to a chat: `fault` (an exception, a restart, an agent deactivated, a message that WhatsApp refused after the timer was cancelled), `stale` (a handler changed the row by saving a copy of an older one) |

| actions | code |
|---|---|
| `Receive` `FindChat` `Route` | `handleIncomingMessage`, `processIncomingMessage`, `handleWhatsappDisconnected` |
| `Flow` `Reply` `Apologise` `HandOff` | `handleAutoResponderFlow`, `sendBotMessage`, `activateChatWithAdvisor`; `Flow` leaves open which answer the bot gives |
| `AutoAssign` `Enqueue` `Note` | `autoAssignChat`, `addChatToWaitingQueue` |
| `Assign` `Arm` `AssignByHand` | `assignChat`, `startAgentResponseTimer`, the request |
| `TimerFires` `Reassign` | the timer, `reassignUnansweredChat` |
| `ReleaseByHand` `Release` | `releaseChat`, `unassignChat` and their requests |
| `CronStarts` `CronNext` | `releaseLongActiveChats` |
| `Connect` `Pop` `Disconnect` | `handleConnection`, `getNextChatInQueue`, `handleDisconnect` |
| `SendAgentMessage` `SendMediaMessage` | the methods of these names |
| `RemoveUser` `RestoreUser` | `UserService.remove`, `restore` |
| `WhatsappDown` `WhatsappUp` | the connection's `close` and `open` |
| `Save` | every `chatRepo.save` |
| `Throws` `Fail` | an exception and who catches it |
| `Crash` | the process ends and starts again |

Things a reader of the code may not expect, and the model keeps:

* `save` writes the columns the entity defines. An entity read without its
  relation leaves `assignedTo` alone; one with `null` clears it (`Merge`).
* A query that joins the agent does not see a deactivated one (`View`).
* Nobody awaits the promise of the response timer (`chat.service.ts:408`), and no
  handler of unhandled rejections is installed: an exception there ends the
  process on the Node version of the Dockerfile (`Fail`, frame `timer`).
* The catch block of the bot's flow runs the hand-over again.
* `assignChat` from the queue looks at no status; `releaseChat` leaves the queue
  alone.

Taken as one step: the SELECT and UPDATE inside one `save`, and the awaits of
`sendAgentMessage` (its check, its sending and its row). Left out: messages,
unread counters (section 7), notes, notifications to the panel, the conversation
(section 5) and its timer. The lock of the message handler is taken by its
guarantee: one message handler per contact unless the lock lapsed (fault `lapse`),
which needs an existing row. `KeepsDuty` checks that the desk asks no more and no
less of it: its message handlers are those of `MessageDuty` (also proved, section 10).

`DeskRaces` extends it with what two handlers can do to one chat by getting in each
other's way. Two history variables, which no step depends on, remember where it
happened:

| history | when a chat enters it | code |
|---|---|---|
| `overtaken` | another handler changes the row while a message handler is past its query: that handler goes on with the entity and the status it read | `chat.service.ts:125-206` |
| `crossed` | the chat changes hands between the save of an assignment and the start of the timer for the agent it was given to | `chat.service.ts:243-256` |

`FollowsLifecycle` is the refinement to `ChatLifecycle`: the stage of a chat is its
status with the question whether it has an agent (*promised* is active without
one, *held* active with one), the holder is `assignedTo`, *answering* is a message
in the bot's flow, *marred* is `mishap`. It says what no single invariant does: which way
a chat may go. The bot promises an agent or closes a chat only from a chat it has
(or after its own promise or closing, when something failed in between), nobody is
queued out of nothing, and a chat loses its holder without a release only where
something went wrong. It holds for handlers that overlap, with every fault: assignments,
releases, fired timers, the cron job and connections may cross each other and a
message handler in any order that does not overtake it. A chat is told no further
(*untold*) once its message handler is overtaken: the entity it then saves may be
older than the row, and any stage may follow any other.

`SilentAgentIsTimed` says that at rest an agent who has a chat and has not written in
it is watched by the response timer. Assignments, releases, answers and timers may
overlap in every order but one, the one of `crossed`: then the timer that is
armed is of an agent who has lost the chat, and the one who has it is watched by nobody.

Fairness (`FairSpec`): every handler in flight goes on. That is the event loop
and clients that answer or fail; nothing makes messages, connections, timers or
requests happen.

## 5. ConversationFlow

Models the conversation of the bot with one customer (`ConversationFlowService`
and the conversation state of `RedisStateStore`) with everything in ChatService
that reads or writes it at the same time: the customer's messages, the inactivity
timer, and an agent's release or unassignment. Customers share nothing here.

| state | code |
|---|---|
| `conv` | the Redis key `conversation_state:<contact>`: step and `termsAccepted`, or nothing |
| `status`, `named` | the chat's status and whether it has a `customerName` |
| `timer` | where each inactivity timer is: off, running, or how far its callback is |
| `handle` | the chat's entry in `autoResponderTimeouts` |
| `bot` | the message handler: its place, the text, the state it read and will write, the answer, the name in its entity |
| `desk` | a release or unassignment under way, with the state it read |
| `consent` (ghost) | the customer accepted the terms and has not gone back since |
| `question` (ghost) | what became of the question of the survey in Redis: still to be sent, sent, refused, rated; the handlers remember that of the state they read |
| `unwatched` (ghost) | agents had the chat, or a restart or an error took the session's timer |

| actions | code |
|---|---|
| `Receive` `Route` `ReadState` | `processIncomingMessage` to `getUserState` |
| `ExitCommand` and the steps | `handleExitCommands`, `handle...Step`, `handleSurvey` |
| `WriteState` `RecordSurvey` `FinalizeChat` `ResetState` `Reply` | the awaits that follow |
| `Caught`, `RereadFails` | the catch block of `handleAutoResponderFlow`, and a query that leads there |
| `Arm` `Fire` `CheckChat` `CheckState` `Warn` `Expire` | `startAutoResponderTimer` and its callback |
| `Take` `Release` `ReleaseQuietly` `Unassign` | what agents, the cron job and the response timer do |
| `AskSurvey` `ReadForSurvey` `MarkSurvey` `Forget` | the awaits of `releaseChat` and `unassignChat` on the state |
| `StateExpires` `Crash` | the key's 24 h, a restart |

The texts a customer may write are one for each way the code tells texts apart;
`Texts` says which. A chat that waits for an agent counts as `ACTIVE`, each change
of its status is one step, and one message handler and one request of an agent are
under way at a time: what overlapping ones do to the chat's row is the subject of
`ChatAssignment`. A message handler whose lock lapsed is not modelled here.

Things the model keeps and a reader may not expect:

* An error of the Redis read is answered with the default state, and the message
  handler writes that back.
* `clearTimeout` does nothing for a callback that has begun; the callback deletes
  the entry of its chat at its end, even a newer timer's.
* The catch block saves the entity the message handler read first, so that a name
  given in that message is cleared (`Caught`).
* A release writes back `termsAccepted` as it read it. The customer may have taken
  it back meanwhile; the survey step it writes along with it is what keeps that from
  mattering.
* No timer is armed for a survey that an agent's release began.
* `salir` writes the survey step before its question is sent. When WhatsApp refuses
  the question, the survey stands all the same, and the next text with a 1 in it is
  stored as a rating.
* When the conversation cannot be reset after a rating, it stays in the survey and the
  question is rated again. After a comment, or a rating that could not be stored, it
  stays in the survey as well, but with a question that has no rating.

Assumption on time: the timer that a message armed does not fire before the
message is handled (30 minutes by default, against the seconds of a handler).

Fairness (`FairSpec`, which `SessionExpires` needs): the message handler and
the timer's callback go on, and a timer that runs fires. Customers, agents and the
expiry of the key owe nothing.

## 6. WhatsappLink

Models `WhatsappService`: its one socket, the reconnection with a limit of
attempts, logout, and the circuit breaker around outgoing calls.

| state | code |
|---|---|
| `sock`, `isReady`, `currentQR`, `reconnectAttempts` | the fields of these names |
| `life` | of each socket: none, connecting, open |
| `listening` | the sockets that `connection.update` is handled for |
| `timers` | `reconnectTimer`: how many such timers run (one at most, which is checked) |
| `fetching` | how many `connectToWhatsApp` await the credentials or the version |
| `leaving`, `logouts` | a logout request that awaits its socket; `handleLogout` in its await |
| `breaker`, `sends` | `circuitBreaker` and the calls under way |
| `overlap` (ghost) | a logout scheduled a reconnection with a connection under way |
| `abandoned` (ghost) | the last logout ended without scheduling one |
| `refused` (ghost) | a call refused during an outage counts among the failures |

| actions | code |
|---|---|
| `TimerFires` `MakeSocket` `ConnectFails` | `connectToWhatsApp`, cut at its awaits |
| `Reconnect` (used by others) | `scheduleReconnect` |
| `ShowQR` `Open` `Close` `CloseLoggedOut` | `connection.update`, `handleSuccessfulConnection`, `handleDisconnection` |
| `Logout` `LoggedOut` `RemoveCredentials` | `logout` and `handleLogout` |
| `CallWhileDown` `Call` `CallEnds` `BreakerLapses` | `sendMessage`, `sendMedia`, `checkCircuitBreaker`, `recordFailure`, `resetCircuitBreaker` |

The delays of `scheduleReconnect` are left out: a timer that runs may fire at any
moment, so that a conflict (440), which only differs in its delay, is a close like
another. Failures are counted up to the threshold, where their number no longer
matters. One logout request is under way at a time. `onModuleDestroy` is not
modelled: `main.ts` enables no shutdown hooks, so nothing calls it. A restart is
`Init`. Not modelled either: messages that come in and the count of session
errors, which is only logged, reported and reset.

What a reader may not expect: `scheduleReconnect` clears the timer, but not a
`connectToWhatsApp` that has begun. A logout requested from the panel runs
`handleLogout` twice, once for the event of the closed socket and once for the
request; if the first reconnection is in its awaits when the second one is
scheduled (a removal that takes longer than the five seconds of the first
one's timer), two connections are made, and the later socket replaces the earlier one
without ending it. `overlap` marks this, and `OneConnection` and
`ConnectionStateIsTrue` promise nothing after it: they say that it is the only way
there.

Fairness (`FairSpec`): timers fire; the awaits of connections, logouts and calls
end (`defaultQueryTimeoutMs`, and files and HTTP requests that answer or fail); a
connecting socket opens or closes (`connectTimeoutMs`, and QR codes run out); a
minute passes. `BreakerCloses` also assumes that calls come in, as only a call
resets a breaker whose minute is over.

## 7. UnreadCounter

Models the column `chat.unreadCount` of one chat beside the messages nobody has
read, and the pool of database connections (`app.module.ts:81-87`) that every query
here goes through.

| state | code |
|---|---|
| `unreadCount` | the column |
| `stored`, `unread` | the customer's `message` rows, numbered, and those with `readAt` null |
| `task` | the handlers in flight: next query, what follows the save, the count in the entity in memory, the message stored, the messages a transaction loaded, whether the next query has its connection |
| `drifted` (ghost) | the counter may be wrong, for a known reason |

| actions | code |
|---|---|
| `Receive` `FindChat` `InsertMessage` `IncrementUnreadCount` `Touch` | `processIncomingMessage`, `saveCustomerMessage`, `incrementUnreadCount` |
| `Route` `Flow` `Reply` `Place` | what follows in the same handler, with the saves of its entity; which way it goes is left open |
| `ChangeChat` `ReadChat` `Save` | `assignChat`, `releaseChat`, `finalizeChat`, `unassignChat`: load and save |
| `MarkMessagesAsRead` `LoadMessages` `WriteMarks` `Commit` | the transaction of `markMessagesAsRead` |
| `Borrow` `PoolTimesOut` | the pool: `max` and `connectionTimeoutMillis` |
| `Throws` `Fail` `Crash` | an exception and who catches it; a restart |

What a reader may not expect:

* `save` compares the entity with the row and writes every column that differs, so
  that a message handler that saves the entity it read before it counted the
  message (no WhatsApp, a reopened chat, a hand-over) puts the old count back.
  No line of the repository denies it, so it is no finding: `drifted` marks it,
  `CounterIsExact` says there are no other ways to a wrong counter than those it
  names, and that a read mark which crosses no new message ends the drift.
* `markMessagesAsRead` asks for its answer with `this.findOne`, on another
  connection, before it commits. When every connection is held by a read mark,
  each waits for another one; only the pool's timeout ends it (`RequestsEnd`).
  The mutant without that timeout deadlocks.
* `decrementUnreadCount` and `resetUnreadCount` have no caller.

Taken as one step: the transaction's two writes, as no one reads them before the
commit and the row's lock is what others wait for; and the SELECT and UPDATE of one
`save`, as in section 4.

Fairness (`FairSpec`): weak for the pool (a waiting query gets a free connection, or
the timeout), strong for a query that has its connection, because the lock of the
row is given to those who wait in turn. Requests, messages and crashes owe nothing.

## 8. PanelViews

Models `DashboardService`, `AdminService` and the cache both use. Two views are
cached aside under two keys, the survey analytics and the bot's profile; they
have one shape and are one set of actions.

| state | code |
|---|---|
| `surveys` | the rows of `survey_response` by local day and rating |
| `picture` | the picture WhatsApp has |
| `today`, `evening` | the clock: the local day, and whether the UTC date is already the next |
| `cache` | the two keys |
| `request` | the requests in flight: next await, what was computed so far |
| `missed` (ghost) | keys whose entry an invalidation did not reach |

| actions | code |
|---|---|
| `View` `Compute` `Store` | `getSurveyAnalytics`, `calculateAnalytics`, `getBotProfile` |
| `Rate` `Delete` | `handleSurvey` stores, then `invalidateSurveyCache` |
| `ChangePicture` `Delete` | `updateProfilePicture` |
| `Invalidate` `Lapse` | `clearAllCache`, `updateBotStatus` and the cache endpoints; the TTL |
| `AskStats` `Count` | `getRealtimeStats`: four queries of a `Promise.all`, each at its own moment |
| `AskTrend` `QueryTrend` `FormatTrend` | `getSurveyTrend`, `formatTrendData`: the clock is read three times |
| `Answer` `Throws` `Crash` `Evening` `Midnight` | the answer, an error, a restart, time |

The cache is external: in memory or in Redis, so that a restart empties it or not,
and an entry may lapse at any moment (the TTLs are written in seconds, and which
unit they are read in depends on the version of the cache). The queries group by the local date and the list of
days is made with `toISOString`, which from seven in the evening on is a day
ahead: `TrendIsComplete` shows that a trend of two days or more still lists the day
it was asked and no day in part, because the query starts a day before the first
listed one. A trend of one day asked in the evening lists only tomorrow; the
property is stated from two days up. `AverageInRange` shows why the average is
taken over the sum of the three counts: over the total, counted at another moment,
it leaves the range of ratings. `PercentagesAddUp` checks the rounding of the
percentages, for consistent counts, as an assumption TLC evaluates.

Left out: the connection state and number in the profile, which also grow stale for
the TTL; the list of comments, which is always empty (finding
`conversation_survey`); `getCommentsByRating`, a query.

Bounds in the guards: one request for statistics or a trend at a time
(`NoneReads`), as they change nothing another one reads. Assumption on time: no
trend request lasts from before midnight to the next evening.

Fairness (`FairSpec`): requests go on and entries lapse.

## 9. Runs

| run | instance | distinct states | shows |
|---|---|---|---|
| `message_lock` | 1 contact, 2 instances of 2 handlers, errors of Redis, crashes | 5,120 | one row per contact, exclusion until a lock lapses, locks are freed; the lock implements `MessageDuty` |
| `message_lock_ignored` | the same, no fault | | violated: a message is dropped for its own instance's sake |
| `desk_concurrent` | `DeskRaces`, 1 contact, 2 agents, 2 handlers, lapsed locks | 1,012,123 | no interleaving orphans a chat; the desk keeps to `MessageDuty`; silent agents are timed unless the chat was crossed; a chat follows `ChatLifecycle` until a message handler is overtaken |
| `desk_faults` | 1 contact, 2 agents and a user who is not one, 1 handler, every fault | 791,452 | what a fault does not touch keeps its guarantees; silent agents are timed and chats follow `ChatLifecycle` |
| `desk_live` | 2 contacts, 1 agent, 1 handler, outages, restarts | 417,580 | handlers end, a hand-over is served, the queue starves nobody |
| `desk_popped` | 1 contact, no fault | | violated: a released chat is popped and assigned |
| `desk_silent` | 1 contact, no fault | | violated: an agent who answered with a file is timed out |
| `conversation` | 2 timers, every fault | 1,458,864 | consent before debts, ratings only for questions sent and not rated yet, no timer lost; a silent conversation with a timer is reset |
| `conversation_survey` | 2 timers, no fault | | violated: a comment in the survey is dropped |
| `whatsapp_link` | 2 sockets, 3 attempts, every fault | 556,713 | one connection, a true state, a link that is never stranded and comes back, a breaker that forgets outages and closes |
| `unread` | 2 handlers, 3 messages, a pool of 2, every fault | 163,847 | the counter is exact or drifted in a known way, never ahead of the messages; requests end |
| `panel_views` | 2 requests, 2 ratings, 2 surveys, 2 days, every fault | 950,184 | no stale view but the known ones, an average in range, a complete trend; views settle |

Bounds. The handlers of different contacts meet only in the queue and in the
agents' load, so two contacts show every way they affect each other and one
contact with two tasks every way two handlers of it do. Two agents are a loser
and a winner of every choice; three places in time (running, fired, armed again)
are reached with one timer per chat, as in the code. `QueueBound` limits new
messages, not the other ways into the queue; with 2 or 3 a chat can be in the
queue twice and another behind it. In `message_lock` a third and a fourth handler
are what a lock deleted by a handler that no longer owns it needs; contacts do
not interact there.

In `ConversationFlow` two timers are one whose callback is under way and the newer one
it can do harm to; a message that finds both in their callbacks waits in the model.
`AnswersFollowQuestions` excuses two failures that the code does not withstand, and no
more: a question that WhatsApp refused (*unsent*) and a reset that failed, or never
came because of a restart, after a rating (*unreset*). Without either excuse TLC
refutes it, with a rating after `salir` whose question was refused, and with two
ratings around a failed reset. `SessionExpires` is about sessions with a timer; one
that lost it to a fault is `unwatched` and promises nothing.

In `WhatsappLink` the two sockets are the old one and the new one, and with
`ConnectBound` 2 two connections overlap, which a third would do no differently. Three
attempts stand for ten: a first, one between and the last. Two failures open the
breaker, so that one failure alone is a state of its own; two calls under way are one
that began before the breaker opened and fails after it. `LogoutBound` limits when a
logout is requested, not the `handleLogout`s it leads to.

In `unread` two handlers and two connections are the smallest instance in which two
read marks hold the pool between them, a message crosses a read mark and a
stale save crosses an increment; three messages give an older, a newer and a
crossing one. `MessageBound` guards new messages only, never what a handler does.

In `panel_views` two requests are one that reads and one that changes; two ratings
are the extremes between which an average must lie, two days with an evening and a
midnight in between are every position of the clock's three readings, and with
`TrendDays` 2 both ends of the list are ends.

The four violated properties are disagreements between the code and its own
words; each is described under "findings".

`SilentAgentIsTimed` and `FollowsLifecycle` need the two histories: without `crossed`
or without `overtaken`, TLC refutes the property with two handlers and no fault at all,
two assignments that cross for the first, a message handler that a request overtakes
for the second. `desk_faults` has all the faults with one handler, which nobody can be
in the way of: there `MCChatAssignment` states the two properties with both histories
empty, so that they excuse nothing; `desk_concurrent` has two handlers and no fault but lapsed locks,
which let two messages of one contact overlap. Two handlers under outages, errors,
restarts and deactivated accounts have too many states for a run; that the safety
properties hold there too is what the theorems of section 10 say.

`QueueIsServed` is conditional: if agents keep connecting. One connection pops
one chat, and nothing else does.

## 10. Proofs

For every set of contacts, instances, handlers, users, tasks, sockets, timers and
requests, every limit and every choice of faults, from the named assumptions of the
modules only: null is no user, no contact, no timer, no conversation state and no
number; agents are users; the faults are among those listed; the handlers of the
unread counter are finitely many and its pool has a connection; the limits of the
connection are those the constants say (`BoundsAssumption`); a trend has 1 to 90 days,
as the controller's check has it.

`MessageLockProofs`: `TypeCorrect`, `OneRow` (`OneChatPerContact`) and
`MutualExclusion` (`OneAtATime`). One row per contact is not inductive: what keeps
a second insert away is that a handler about to insert holds the lock and that its
contact has no row. The invariant `IInv` therefore adds `ExclusiveUntilLapse` (a
busy contact has its lock and one handler, unless it has a row and its lock
lapsed) and `InsertsIntoNothing` (a handler about to insert finds no row).
`LockImplementsDuty` (`ImplementsDuty`) rests on it: every step of the lock is, in
`MessageDuty`, a handler that begins, the one that creates the chat, handlers that
end, or nothing.

`ChatAssignmentProofs`: `TypeCorrect` (`TypeOK`) and `NoAgentAtRest`
(`HeldOnlyWhenWithAgents`). The property talks of rows, but what could break it is
what tasks carry: `IInv` adds `TasksOK`, which says of each task that the entity it
is about to save gives no agent to a chat at rest, or carries no relation and the
status of the row it was read from, and that a reopened chat's entity has no agent.
`Onward` is what the other tasks need of a step: rows do not disappear and a stale
mark stays. One lemma per action; `IInvNext` puts them together.

`DutyIsKept` (`KeepsDuty`), in the same module, is the refinement of
`MessageDuty`. A step of the desk must be, seen from there, a handler that begins,
one that creates the chat, handlers that end, or nothing; the hard case is the
creation, which the abstract specification allows only to the one handler of a
contact without a chat. `DutyInv` says just that (`Alone`), and what it needs: in
which steps message handlers can be and in which the others (`Places`), and that
every handler past its first save, and every entry of the queue, is about a chat
that exists. `Moves` is the part common to all steps of one handler.

`ChatAssignmentPlacingProofs`: `WaitingAlwaysQueued` (`WaitingIsQueued`) and
`ActiveAlwaysAttended` (`ActiveIsAttended`). With handlers that overlap neither is
inductive: a chat is safe in the hands of one handler, and another may save a copy
of it in between. `PlacingInv` says of every handler about to save what that save
can do if the copy is not stale (`SaveOK`: take the chat from the agents, change
nothing, move it on, or assign it to a registered agent); if it is stale the chat
is marked, and the properties excuse it. And it says which handlers carry a chat to
an agent (`Carries`): a handler about to arm a timer does not count, because when
it ends the chat must already be placed, and a handler about to queue an active
chat is never the only one such a chat is left to. `Forward` is the part common to
all steps but a save, a restart and a deactivated account.

`DeskRacesProofs`: `SilentAgentAlwaysTimed` (`SilentAgentIsTimed`) and
`LifecycleIsFollowed` (`FollowsLifecycle`), for any number of handlers that overlap, any
contacts, users and faults, restarts and socket events. Both rest on `PlacingInv`. For
the first, `TimedInv` says that an unanswered agent is timed or some handler *sees to*
it (`SeesTo`): it carries the chat on, is about to arm the timer of the very agent in the
row, or is taking the chat away; and that what is armed is the row's agent unless
something went wrong or the chat was crossed (`ArmOK`). The handlers that take no part
in a step keep their share of it (`TimedBystander`, `StillSees`); what a step does to
the others is that of its own handler. For the second, the mapping is not enough: what
stage a save leads to depends on what the handler remembers. `LifeInv` says of every
handler whose chat is still followed (`Told`) what its save does to the stage of the
chat (`LifeSave`), that a message handler's own entity and the row name the same agent
(`Agreeing`), that the bot answers only where no agent is or where one was promised
already (`Answering`, `Promising`), and that a chat at rest has no agent (`RestFree`).
The steps of other handlers keep this, because one that changes the row under a message
handler ends the telling of that chat (`LifeBystander`), and handlers of other kinds
rely on nothing they read. `LifeOfSave` then matches each of the eight kinds of saves
with an action of `ChatLifecycle`, and `LifeLeft` a save that overtakes with `Leave`;
every other step leaves stages and holders alone (`LifeDone`), but for the start of the
bot's answer (`LifeFlow`). A handler of a chat that is told no further is seen by
nobody (`LifeUntold`).

`ConversationFlowProofs`: `TypeCorrect` (`TypeOK`) and `ConsentBeforeDebts`
(`DebtsNeedConsent`). The property talks of the answer; the invariant `IInv` says
of every copy of the state, in Redis or in the message handler, that it is
`Honest`: the cedula step needs accepted terms, and accepted terms mean consent
except in the survey step. The exception is needed: a release may write an
acceptance back that the customer took back, always with the survey step, and no
command leads from there to a debt without a reset. `Onward` is the part common to
all steps that write only the default state or a survey.

`QuestionsBeforeAnswers` (`AnswersFollowQuestions`) needs what ties the question to
the copies of the state: `QuestionsInv` says that a survey in Redis has a question
(`QuestionFits`), that one still to be sent, or rated and not yet reset, is in the
hands of the message handler, so that no message can find it there; that a message
handler that reads a survey has read one whose question was sent or lost (`BotFits`);
and that a release marks a survey only after its question was sent (`DeskFits`).
`SessionsStayWatched` (`SessionIsWatched`) is not inductive while a message is
handled, for it has cancelled the old timer and armed its own: `WatchInv` names the
timer it armed, which runs until the handler rests, and says that the agents never
have a chat whose session still counts as watched.

`UnreadCounterProofs`: `TypeCorrect` (`TypeOK`), `ExactCounter` (`CounterIsExact`)
and `CounterIsBounded` (`NeverMoreThanStored`). A bound on the counter is not
inductive, as entities in memory may put any count they carry back. `IInv` has the
idea of *room*: the messages stored less those whose increment is still to come.
The counter and every count a handler remembers stay within it, because inserting
a message and starting to owe its increment happen in one step; and the messages
still to be counted are distinct, so that the handlers that owe an increment are as
many as the messages they owe it for (`OneMessageEach`). `OnlyTask` and `Leaving`
are the two ways a step moves one handler; most actions follow from the first.

`PanelViewsProofs`: `NothingStaleUnnoticed` (`StaleOnlyIfMissed`). Inductive only with
what the requests carry: a request that has computed a view and not stored it holds
the current one or is marked as crossed by a change. One lemma per action says that
the pair of cache and requests stays so. `TrendsAreComplete` (`TrendIsComplete`)
follows the three readings of the clock: `TrendInv` says how far the day the query
starts from, and the day the request was made, may lie behind today while each
request waits. `TypeCorrect` (`TypeOK`) and `AverageAlwaysInRange` (`AverageInRange`)
share `TypeInv`: a request holds counts for the view it is about to store, and
statistics are sent with every count there. Both rest on facts about sums, which the
model takes with a fold, a recursion on the set that is left to add. They are proved
by induction on the size of that set, in the form the prover can use: a set of numbers
with 0 in it and, with every number, the next one is all of them (`EveryNumber`, from
the well-foundedness of `<`). `SumSolves` says that the recursion has a solution and
that the sum is its value, `SumsBetween` compares two sums over one set term by term,
and `RoundBetween` carries the comparison through the rounding.

`WhatsappLinkProofs`: `TypeCorrect` (`TypeOK`), `OneConnectionAlways`
(`OneConnection`), `ConnectionStateAlwaysTrue` (`ConnectionStateIsTrue`),
`NeverStrandedAlways` (`NeverStranded`) and `OutageAlwaysForgotten`
(`OutageIsForgotten`). One connection at a time is kept by `OneUnderway`: of a running
timer, a `connectToWhatsApp` in its awaits and a socket with its listeners there is
one at most, so that nothing starts a second. The other four are inductive given
the types, and the second given `OneUnderway`.

Every safety property of a passing run has a theorem. Only model-checked: the liveness
properties (`LockFreed`, `HandOverIsServed`, `HandlersEnd`, `QueueIsServed`,
`LinkComesBack`, `BreakerCloses`, `SessionExpires`, `RequestsEnd`, `CacheSettles`), as
fairness and `ENABLED` are out of the prover's reach; that three percentages add up to
100, give or take one, for counts up to 12 (`MCPanelViews`); and the violated
properties, which are refuted by a trace.

## 11. Not modelled

* Authentication: a credential check and a signed token per request; stateless.
* Account data, validation, paginated reads and the health report: they only query,
  or write one row nobody else reads.
* Internal notes: rows that are added and broadcast.
* Media: `saveCustomerMessage` writes the file before the row, and the download
  happens before the message is announced, so that a message with a file may be
  handled after a later one. Order among messages is not stated by anything here.
* `WhatsappService` looks at the first message of a batch only; which batches the
  library delivers is outside `src/`.
* The list of chats is paginated by offset over `updatedAt`, so a chat that moves
  while someone turns pages is shown twice or not at all.
* The texts of menus and debts, computed from tables the repository only reads.
* Wiring; what matters of it is in `UnreadCounter` (the pool) and in
  `ChatAssignment` (no handler of unhandled rejections).
