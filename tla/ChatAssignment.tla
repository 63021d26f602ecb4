--------------------------- MODULE ChatAssignment ---------------------------
(***************************************************************************)
(* Who attends a chat: the assignment desk of one backend process.         *)
(* ChatService (chat.service.ts) with ChatGateway, PresenceService, the    *)
(* waiting queue of RedisStateStore and UserService.findAgentWithFewerChats.*)
(*                                                                         *)
(* Every request, socket event, timer and cron tick is an asynchronous     *)
(* handler: it runs until it awaits, and the others run in between.  A     *)
(* task is such a handler in flight; each of its steps is one query, with  *)
(* the code up to the next.  A handler keeps in memory the entity it read  *)
(* (mem) and later saves it whole, whatever happened to the row meanwhile. *)
(*                                                                         *)
(* chatRepo.save writes the columns the entity defines: a relation that    *)
(* was never loaded (Undefined) is left alone, a null one is written.      *)
(* Its own SELECT and UPDATE are taken as one step.  A query that joins    *)
(* `assignedTo` does not see a soft-deleted user and loads null.           *)
(*                                                                         *)
(* What the bot answers to a message (ConversationFlowService) is left     *)
(* open here.  The per-contact lock of handleIncomingMessage is modelled   *)
(* by its guarantee (MessageLock!OneAtATime): one message handler per      *)
(* contact, unless the lock lapsed, which needs an existing row.           *)
(***************************************************************************)
EXTENDS Naturals, Sequences, FiniteSets

CONSTANTS Contacts,    \* customers; each has at most one chat
          Users,       \* people of the panel
          Agents,      \* the users whose role is 'agent'
          Tasks,       \* handlers in flight at once
          QueueBound,  \* bound on the waiting queue, guards new messages
          Faults,      \* what may go wrong, see FaultsAssumption
          None,        \* null
          Undefined    \* a relation that was not loaded

ASSUME AgentsAssumption == Agents \subseteq Users
ASSUME FaultsAssumption ==
    Faults \subseteq {"crash",    \* the process restarts
                      "error",    \* a query or a call throws
                      "outage",   \* WhatsApp is not connected
                      "removal",  \* users are deactivated
                      "lapse",    \* the message lock expires
                      "stranger"} \* a user writes in a chat not theirs
ASSUME NullsAssumption ==
    /\ None \notin Users \union Contacts
    /\ Undefined \notin Users \union {None}

VARIABLES chat,       \* the row of each contact's chat, or None
          queue,      \* the Redis list of waiting chats, newest first
          registered, \* users that are not soft-deleted
          connected,  \* users with a socket (agentSocketMap)
          timer,      \* agent whose response timer runs, per chat
          isReady,    \* WhatsApp is connected
          task,       \* the handlers in flight
          answered,   \* ghost: chats whose agent has written since assigned
          mishap      \* ghost: the worst that happened to each chat

vars == <<chat, queue, registered, connected, timer, isReady, task,
          answered, mishap>>
people == <<registered, connected, isReady>>

Status == {"AUTO_RESPONDER", "PENDING_ASSIGNMENT", "ACTIVE", "CLOSED"}
Row == [status : Status, assignedTo : Users \union {None}]
ASSUME NullRowAssumption == None \notin Row

\* An entity in memory: its relation may not be loaded.
Entity == [status : Status, assignedTo : Users \union {None, Undefined}]
Labels == {"idle", "find", "save", "route", "flow", "reply", "thanks",
           "handoff", "apology", "autoAssign", "enqueue", "note", "assign",
           "assignByHand", "arm", "release", "reassign", "cron", "pop"}
Mishaps == {"none", "fault", "stale"}

Bot == [status |-> "AUTO_RESPONDER", assignedTo |-> None]
Exists(c) == chat[c] # None
IsActive(c) == Exists(c) /\ chat[c].status = "ACTIVE"
Assignee(c) == IF Exists(c) THEN chat[c].assignedTo ELSE None

\* A row as a query with the relation `assignedTo` loads it.
View(row) ==
    [row EXCEPT !.assignedTo = IF @ \in registered THEN @ ELSE None]

\* The row after an entity is saved over it.
Merge(m, row) ==
    [status |-> m.status,
     assignedTo |-> IF m.assignedTo # Undefined THEN m.assignedTo
                    ELSE IF row = None THEN None ELSE row.assignedTo]

-----------------------------------------------------------------------------
(***************************************************************************)
(* Tasks.                                                                  *)
(*   at, then  the next step, and the one after a save                     *)
(*   on, who   the contact and the user it is about                        *)
(*   frame     "message" for a message handler, "try" for one inside the   *)
(*             try block of handleAutoResponderFlow, "timer" for a fired   *)
(*             response timer, "none" for the others                       *)
(*   mem, base the entity to save, and the row it was read from            *)
(*   kept, own assignedTo in the message handler's own entity, and the row *)
(*             it last saved that entity to                                *)
(*   todo      chats left to the cron job                                  *)
(* base only serves to tell a stale save from a fresh one.                 *)
(***************************************************************************)
Idle == [at |-> "idle", then |-> "idle", on |-> None, who |-> None,
         frame |-> "none", mem |-> Bot, base |-> None, kept |-> None,
         own |-> None, todo |-> {}]

Task == [at : Labels, then : Labels, on : Contacts \union {None},
         who : Users \union {None},
         frame : {"none", "message", "try", "timer"}, mem : Entity, base : Row \union {None},
         kept : Users \union {None, Undefined}, own : Row \union {None},
         todo : SUBSET Contacts]

Running == {t \in Tasks : task[t] # Idle}

Become(t, r) == task' = [task EXCEPT ![t] = r]
Goto(t, label) == Become(t, [task[t] EXCEPT !.at = label])
End(t) == Become(t, Idle)
Start(t, r) == task[t] = Idle /\ Become(t, r)
Request(label, c, u) == [Idle EXCEPT !.at = label, !.on = c, !.who = u]

Mark(C, m) ==
    mishap' = [c \in Contacts |->
                  IF c \in C /\ mishap[c] # "stale" THEN m ELSE mishap[c]]

\* Save m, read from the row as it is now, then go on at label.
SaveFresh(t, m, label) ==
    Become(t, [task[t] EXCEPT !.at = "save", !.then = label, !.mem = m,
                              !.base = chat[task[t].on]])

\* Save the message handler's own entity with the given status.
SaveOwn(t, status, label) ==
    Become(t, [task[t] EXCEPT
        !.at = "save", !.then = label, !.base = task[t].own,
        !.mem = [status |-> status, assignedTo |-> task[t].kept]])
OwnSaves == {"route", "flow", "handoff", "autoAssign", "enqueue"}

Save(t) ==
    LET r == task[t]
        row == Merge(r.mem, chat[r.on])
    IN /\ r.at = "save"
       /\ chat' = [chat EXCEPT ![r.on] = row]
       /\ Become(t, IF r.then = "idle" THEN Idle
                    ELSE [r EXCEPT !.at = r.then, !.then = "idle",
                             !.mem = Bot, !.base = None,
                             !.own = IF r.then \in OwnSaves THEN row ELSE @])
       /\ IF chat[r.on] # r.base /\ row # chat[r.on]
          THEN Mark({r.on}, "stale") ELSE UNCHANGED mishap
       /\ answered' = IF row.assignedTo = None THEN answered \ {r.on}
                      ELSE answered
       /\ UNCHANGED <<queue, timer, people>>

\* Mutant of Restart: the waiting queue is in memory too.
RestartWithoutQueue ==
    /\ queue' = <<>>
    /\ task' = [t \in Tasks |-> Idle]
    /\ timer' = [c \in Contacts |-> None]
    /\ connected' = {}
    /\ isReady' = FALSE
    /\ Mark({c \in Contacts : timer[c] # None \/ \E t \in Tasks :
                 task[t].on = c \/ c \in task[t].todo}, "fault")
    /\ UNCHANGED <<chat, registered, answered>>

\* The process goes down and starts again: handlers, timers and sockets are
\* gone, the database and Redis stay.
Restart ==
    /\ task' = [t \in Tasks |-> Idle]
    /\ timer' = [c \in Contacts |-> None]
    /\ connected' = {}
    /\ isReady' = FALSE
    /\ Mark({c \in Contacts : timer[c] # None \/ \E t \in Tasks :
                 task[t].on = c \/ c \in task[t].todo}, "fault")
    /\ UNCHANGED <<chat, queue, registered, answered>>

\* Mutant of Fail: the catch block stays inside its own try.
FailInsideTry(t) ==
    /\ IF task[t].frame = "try" THEN Goto(t, "apology") ELSE End(t)
    /\ Mark({task[t].on}, "fault")
    /\ UNCHANGED <<chat, queue, timer, people, answered>>

\* Mutant of Fail: the catch block logs the error and no more.
FailQuietly(t) ==
    /\ End(t)
    /\ UNCHANGED <<chat, queue, timer, people, answered, mishap>>

\* An exception where handler t is.  Inside the try block the customer gets
\* an apology (a failed survey still gets its thanks); the cron job goes on
\* with the next chat; nobody awaits the promise of a fired timer, and Node
\* ends the process on its rejection; any other handler just ends.
Fail(t) ==
    LET r == task[t]
    IN CASE r.frame = "try" /\ r.at = "save" /\ r.then = "thanks" ->
              /\ Goto(t, "thanks")
              /\ UNCHANGED <<chat, queue, timer, people, answered, mishap>>
         [] r.frame = "try" /\ ~(r.at = "save" /\ r.then = "thanks") ->
              /\ Become(t, [r EXCEPT !.at = "apology", !.frame = "message"])
              /\ UNCHANGED <<chat, queue, timer, people, answered, mishap>>
         [] r.frame = "timer" -> Restart
         [] OTHER ->
              /\ Become(t, IF r.todo # {}
                           THEN [Idle EXCEPT !.at = "cron", !.todo = r.todo]
                           ELSE Idle)
              /\ Mark({r.on}, "fault")
              /\ UNCHANGED <<chat, queue, timer, people, answered>>

\* A query or a call to WhatsApp throws.
Throws(t) ==
    /\ task[t].at \notin {"idle", "cron"}
    /\ \/ "error" \in Faults
       \/ /\ ~isReady
          /\ task[t].at \in {"reply", "thanks", "handoff", "apology"}
    /\ Fail(t)

-----------------------------------------------------------------------------
(***************************************************************************)
(* A customer's message: handleIncomingMessage and what it calls.          *)
(***************************************************************************)
HandlersOf(c) ==
    {t \in Tasks : task[t].on = c /\ task[t].frame \in {"message", "try"}}

\* Mutant of Receive: no lock is asked for.
ReceiveUnlocked(t, c) ==
    /\ Len(queue) + Cardinality(Running) < QueueBound
    /\ Start(t, [Request("find", c, None) EXCEPT !.frame = "message"])
    /\ UNCHANGED <<chat, queue, timer, people, answered, mishap>>

Receive(t, c) ==
    /\ Len(queue) + Cardinality(Running) < QueueBound
    /\ HandlersOf(c) # {} => "lapse" \in Faults /\ Exists(c)
    /\ Start(t, [Request("find", c, None) EXCEPT !.frame = "message"])
    /\ UNCHANGED <<chat, queue, timer, people, answered, mishap>>

\* findOne and updateOrCreateChat: a chat of the bot is reset, a new one
\* is created without its relation.
FindChat(t) ==
    LET r == task[t]
        m == IF ~Exists(r.on) THEN [Bot EXCEPT !.assignedTo = Undefined]
             ELSE IF chat[r.on].status = "AUTO_RESPONDER" THEN Bot
             ELSE View(chat[r.on])
    IN /\ r.at = "find"
       /\ Become(t, [r EXCEPT !.at = "save", !.then = "route", !.mem = m,
                              !.base = chat[r.on], !.kept = m.assignedTo])
       /\ UNCHANGED <<chat, queue, timer, people, answered, mishap>>

\* Mutant of Route: the bot answers in a chat that an agent holds.
RouteToBot(t) ==
    /\ task[t].at = "route"
    /\ isReady
    /\ Goto(t, "flow")
    /\ UNCHANGED <<chat, queue, timer, people, answered, mishap>>

\* After the message is stored: without WhatsApp the chat goes to the
\* agents whatever its status, otherwise a closed one is opened again and
\* one that is held or waiting is left to the agents.
Route(t) ==
    LET status == task[t].own.status
    IN /\ task[t].at = "route"
       /\ \/ /\ ~isReady
             /\ SaveOwn(t, "PENDING_ASSIGNMENT", "autoAssign")
          \/ /\ isReady
             /\ status = "CLOSED"
             /\ SaveOwn(t, "AUTO_RESPONDER", "flow")
          \/ /\ isReady
             /\ status \in {"ACTIVE", "PENDING_ASSIGNMENT"}
             /\ End(t)
          \/ /\ isReady
             /\ status = "AUTO_RESPONDER"
             /\ Goto(t, "flow")
       /\ UNCHANGED <<chat, queue, timer, people, answered, mishap>>

\* Mutant of Closed: the chat keeps its agent.
ClosedKeepingAgent(row) == [row EXCEPT !.status = "CLOSED"]

\* What finalizeChat makes of the row it read.
Closed(row) == [status |-> "CLOSED", assignedTo |-> None]

\* handleAutoResponderFlow.  A message with media gets no answer; any other
\* gets one of the four kinds of answers of the conversation: a text, a text
\* after the name is saved (an entity read without its relation), a text
\* after a survey closed the chat, or the hand-over to an agent.
Flow(t) ==
    LET r == [task[t] EXCEPT !.frame = "try"]
        Saving(m, label) ==
            [r EXCEPT !.at = "save", !.then = label, !.mem = m,
                      !.base = chat[r.on]]
    IN /\ r.at = "flow"
       /\ \/ End(t)
          \/ Become(t, [r EXCEPT !.at = "reply"])
          \/ Become(t, Saving([chat[r.on] EXCEPT !.assignedTo = Undefined],
                              "reply"))
          \/ Become(t, Saving(Closed(chat[r.on]), "thanks"))
          \/ Become(t, [Saving([status |-> "ACTIVE", assignedTo |-> r.kept],
                               "handoff") EXCEPT !.base = r.own])
       /\ UNCHANGED <<chat, queue, timer, people, answered, mishap>>

Reply(t) ==
    /\ task[t].at \in {"reply", "thanks"}
    /\ isReady
    /\ End(t)
    /\ UNCHANGED <<chat, queue, timer, people, answered, mishap>>

\* The catch block: apologise, then activateChatWithAdvisor.
Apologise(t) ==
    /\ task[t].at = "apology"
    /\ isReady
    /\ SaveOwn(t, "ACTIVE", "handoff")
    /\ UNCHANGED <<chat, queue, timer, people, answered, mishap>>

\* Mutant of HandOff: nobody is looked for.
HandOffOnly(t) ==
    /\ task[t].at = "handoff"
    /\ isReady
    /\ End(t)
    /\ UNCHANGED <<chat, queue, timer, people, answered, mishap>>

\* The rest of activateChatWithAdvisor, after the chat was saved as active.
HandOff(t) ==
    /\ task[t].at = "handoff"
    /\ isReady
    /\ Goto(t, "autoAssign")
    /\ UNCHANGED <<chat, queue, timer, people, answered, mishap>>

-----------------------------------------------------------------------------
(***************************************************************************)
(* Finding an agent: autoAssignChat, findAgentWithFewerChats, assignChat.  *)
(***************************************************************************)
Load(a) == Cardinality({c \in Contacts : IsActive(c) /\ Assignee(c) = a})

\* What the query may return: a soft-deleted user is not in its results.
LeastLoaded(S) ==
    LET candidates == S \intersect registered
    IN {a \in candidates : \A b \in candidates : Load(a) <= Load(b)}

OnlineAgents == connected \intersect Agents

\* Mutant of QueueUp: the handler gives up.
GiveUp(t) == OnlineAgents = {} /\ End(t)

\* No agent is connected: the chat is to wait.
QueueUp(t) ==
    OnlineAgents = {} /\ SaveOwn(t, "PENDING_ASSIGNMENT", "enqueue")

\* The query finds nobody when every connected agent was deactivated: the
\* chat stays as it is.
AutoAssign(t) ==
    /\ task[t].at = "autoAssign"
    /\ \/ QueueUp(t) /\ UNCHANGED mishap
       \/ \E a \in LeastLoaded(OnlineAgents) :
             /\ Become(t, [task[t] EXCEPT !.at = "assign", !.who = a])
             /\ UNCHANGED mishap
       \/ /\ OnlineAgents # {}
          /\ LeastLoaded(OnlineAgents) = {}
          /\ End(t)
          /\ Mark({task[t].on}, "fault")
    /\ UNCHANGED <<chat, queue, timer, people, answered>>

\* Mutant of Enqueue: pushed on the side the chats are popped from.
EnqueueFirst(t) ==
    /\ task[t].at = "enqueue"
    /\ queue' = Append(queue, task[t].on)
    /\ Goto(t, "note")
    /\ UNCHANGED <<chat, timer, people, answered, mishap>>

\* Mutant of Enqueue: the chat is queued, not its id.
EnqueueRow(t) ==
    /\ task[t].at = "enqueue"
    /\ queue' = <<chat[task[t].on]>> \o queue
    /\ Goto(t, "note")
    /\ UNCHANGED <<chat, timer, people, answered, mishap>>

Enqueue(t) ==
    /\ task[t].at = "enqueue"
    /\ queue' = <<task[t].on>> \o queue
    /\ Goto(t, "note")
    /\ UNCHANGED <<chat, timer, people, answered, mishap>>

\* The system message that tells of the queue.
Note(t) ==
    /\ task[t].at = "note"
    /\ End(t)
    /\ UNCHANGED <<chat, queue, timer, people, answered, mishap>>

\* assignChat up to its save.  Only an assignment by hand needs a connected
\* agent, and a refused one changes nothing; for the others a missing agent
\* is an error.
Assign(t) ==
    LET r == task[t]
        found == r.who \in registered
        save == /\ SaveFresh(t, [status |-> "ACTIVE", assignedTo |-> r.who],
                             "arm")
                /\ UNCHANGED <<chat, queue, timer, people, answered, mishap>>
    IN \/ r.at = "assign" /\ found /\ save
       \/ r.at = "assign" /\ ~found /\ Fail(t)
       \/ /\ r.at = "assignByHand"
          /\ found /\ Exists(r.on) /\ r.who \in connected
          /\ save
       \/ /\ r.at = "assignByHand"
          /\ ~(found /\ Exists(r.on) /\ r.who \in connected)
          /\ End(t)
          /\ UNCHANGED <<chat, queue, timer, people, answered, mishap>>

\* Mutant of Arm: a running timer is left alone.
ArmOnce(t) ==
    LET r == task[t]
    IN /\ r.at = "arm"
       /\ timer' = [timer EXCEPT ![r.on] = IF @ = None THEN r.who ELSE @]
       /\ answered' = answered \ {r.on}
       /\ End(t)
       /\ UNCHANGED <<chat, queue, people, mishap>>

\* Mutant of Arm: an agent who comes after another is not timed.
ArmUnlessReassigned(t) ==
    LET r == task[t]
    IN /\ r.at = "arm"
       /\ timer' = [timer EXCEPT ![r.on] =
                       IF r.frame = "timer" THEN None ELSE r.who]
       /\ answered' = answered \ {r.on}
       /\ End(t)
       /\ UNCHANGED <<chat, queue, people, mishap>>

\* startAgentResponseTimer, the last thing an assignment does.
Arm(t) ==
    LET r == task[t]
    IN /\ r.at = "arm"
       /\ timer' = [timer EXCEPT ![r.on] = r.who]
       /\ answered' = answered \ {r.on}
       /\ End(t)
       /\ UNCHANGED <<chat, queue, people, mishap>>

AssignByHand(t, c, u) ==
    /\ Start(t, Request("assignByHand", c, u))
    /\ UNCHANGED <<chat, queue, timer, people, answered, mishap>>

\* The response timer fires: reassignUnansweredChat.
TimerFires(t, c) ==
    /\ timer[c] # None
    /\ Start(t, [Request("reassign", c, timer[c]) EXCEPT !.frame = "timer"])
    /\ timer' = [timer EXCEPT ![c] = None]
    /\ UNCHANGED <<chat, queue, people, answered, mishap>>

\* Nothing to do unless the unresponsive agent still holds the chat; then it
\* goes to another connected agent, or back to the bot.
Reassign(t) ==
    LET r == task[t]
        others == LeastLoaded(OnlineAgents \ {r.who})
    IN /\ r.at = "reassign"
       /\ \/ /\ ~(IsActive(r.on) /\ View(chat[r.on]).assignedTo = r.who)
             /\ End(t)
          \/ /\ IsActive(r.on) /\ View(chat[r.on]).assignedTo = r.who
             /\ \E a \in others :
                   Become(t, [r EXCEPT !.at = "assign", !.who = a])
          \/ /\ IsActive(r.on) /\ View(chat[r.on]).assignedTo = r.who
             /\ others = {}
             /\ Goto(t, "release")
       /\ UNCHANGED <<chat, queue, timer, people, answered, mishap>>

-----------------------------------------------------------------------------
(***************************************************************************)
(* Releasing: releaseChat and unassignChat by hand, after an unanswered    *)
(* timer, and from the cron job releaseLongActiveChats.                    *)
(***************************************************************************)
ReleaseByHand(t, c) ==
    /\ Exists(c)
    /\ Start(t, Request("release", c, None))
    /\ UNCHANGED <<chat, queue, timer, people, answered, mishap>>

\* Mutant of Released: the chat keeps its agent.
ReleasedKeepingAgent(row) == [row EXCEPT !.status = "AUTO_RESPONDER"]

\* What releaseChat and unassignChat make of the row they read.
Released(row) == Bot

Release(t) ==
    LET r == task[t]
    IN /\ r.at = "release"
       /\ timer' = [timer EXCEPT ![r.on] = None]
       /\ SaveFresh(t, Released(chat[r.on]),
                    IF r.todo = {} THEN "idle" ELSE "cron")
       /\ UNCHANGED <<chat, queue, people, answered, mishap>>

\* The cron job reads the old active chats once, then releases them one by
\* one, whatever became of them; an error is logged, chat by chat.
CronStarts(t, C) ==
    /\ C # {} /\ \A c \in C : IsActive(c)
    /\ Start(t, [Idle EXCEPT !.at = "cron", !.todo = C])
    /\ UNCHANGED <<chat, queue, timer, people, answered, mishap>>

CronNext(t) ==
    LET r == task[t]
    IN /\ r.at = "cron"
       /\ \E c \in r.todo :
             Become(t, [r EXCEPT !.at = "release", !.on = c,
                                 !.todo = @ \ {c}])
       /\ UNCHANGED <<chat, queue, timer, people, answered, mishap>>

-----------------------------------------------------------------------------
(***************************************************************************)
(* Agents: their sockets, their messages, their accounts.                  *)
(***************************************************************************)
\* handleConnection.  An agent's connection takes one chat off the queue.
Connect(t, u) ==
    /\ connected' = connected \union {u}
    /\ IF u \in Agents
       THEN Start(t, Request("pop", None, u))
       ELSE u \notin connected /\ UNCHANGED task
    /\ UNCHANGED <<chat, queue, registered, timer, isReady, answered, mishap>>

\* Mutant of Pop: a chat popped for an agent who left meanwhile is dropped.
PopForConnected(t) ==
    /\ task[t].at = "pop"
    /\ queue' = SubSeq(queue, 1, Len(queue) - 1)
    /\ IF queue = <<>> \/ task[t].who \notin connected
       THEN End(t)
       ELSE Become(t, [task[t] EXCEPT !.at = "assign",
                                      !.on = queue[Len(queue)]])
    /\ UNCHANGED <<chat, timer, people, answered, mishap>>

\* rPop, then assignChat whatever the status of the chat.
Pop(t) ==
    LET r == task[t]
        oldest == queue[Len(queue)]
    IN /\ r.at = "pop"
       /\ \/ /\ queue = <<>>
             /\ End(t)
             /\ UNCHANGED queue
          \/ /\ queue # <<>>
             /\ queue' = SubSeq(queue, 1, Len(queue) - 1)
             /\ Become(t, [r EXCEPT !.at = "assign", !.on = oldest])
       /\ UNCHANGED <<chat, timer, people, answered, mishap>>

Disconnect(u) ==
    /\ u \in connected
    /\ connected' = connected \ {u}
    /\ UNCHANGED <<chat, queue, registered, timer, isReady, task, answered,
                   mishap>>

\* sendAgentMessage: the timer is cancelled before anything is checked, and
\* a message that WhatsApp refuses does not bring it back.
SendAgentMessage(c, u) ==
    /\ Exists(c)
    /\ timer' = [timer EXCEPT ![c] = None]
    /\ \/ /\ u = View(chat[c]).assignedTo
          /\ isReady
          /\ answered' = answered \union {c}
          /\ UNCHANGED mishap
       \/ /\ u = View(chat[c]).assignedTo
          /\ ~isReady \/ "error" \in Faults
          /\ Mark({c}, "fault")
          /\ UNCHANGED answered
       \/ /\ u # View(chat[c]).assignedTo
          /\ "stranger" \in Faults
          /\ Mark({c}, "fault")
          /\ UNCHANGED answered
    /\ UNCHANGED <<chat, queue, people, task>>

\* sendMediaMessage leaves the timer running.
SendMediaMessage(c, u) ==
    /\ Exists(c)
    /\ u = View(chat[c]).assignedTo
    /\ isReady
    /\ answered' = answered \union {c}
    /\ UNCHANGED <<chat, queue, timer, people, task, mishap>>

RemoveUser(u) ==
    /\ "removal" \in Faults
    /\ u \in registered
    /\ registered' = registered \ {u}
    /\ Mark({c \in Contacts : \/ Assignee(c) = u
                              \/ \E t \in Tasks : /\ task[t].on = c
                                                 /\ task[t].who = u}, "fault")
    /\ UNCHANGED <<chat, queue, timer, connected, isReady, task, answered>>

RestoreUser(u) ==
    /\ u \in Users \ registered
    /\ registered' = registered \union {u}
    /\ UNCHANGED <<chat, queue, timer, connected, isReady, task, answered,
                   mishap>>

-----------------------------------------------------------------------------
(***************************************************************************)
(* The connection to WhatsApp, and a restart of the process.               *)
(***************************************************************************)
WhatsappDown ==
    /\ "outage" \in Faults
    /\ isReady
    /\ isReady' = FALSE
    /\ UNCHANGED <<chat, queue, registered, connected, timer, task, answered,
                   mishap>>

WhatsappUp ==
    /\ ~isReady
    /\ isReady' = TRUE
    /\ UNCHANGED <<chat, queue, registered, connected, timer, task, answered,
                   mishap>>

Crash == "crash" \in Faults /\ Restart

-----------------------------------------------------------------------------
Init ==
    /\ chat = [c \in Contacts |-> None]
    /\ queue = <<>>
    /\ registered = Users
    /\ connected = {}
    /\ timer = [c \in Contacts |-> None]
    /\ isReady = TRUE
    /\ task = [t \in Tasks |-> Idle]
    /\ answered = {}
    /\ mishap = [c \in Contacts |-> "none"]

\* A step of a handler in flight.
Step(t) ==
    \/ FindChat(t) \/ Save(t) \/ Route(t) \/ Flow(t) \/ Reply(t)
    \/ Apologise(t) \/ HandOff(t) \/ AutoAssign(t) \/ Enqueue(t) \/ Note(t)
    \/ Assign(t) \/ Arm(t) \/ Reassign(t) \/ Release(t) \/ CronNext(t)
    \/ Pop(t) \/ Throws(t)

Starts(t) ==
    \/ \E c \in Contacts :
          \/ Receive(t, c) \/ ReleaseByHand(t, c) \/ TimerFires(t, c)
          \/ \E u \in Users : AssignByHand(t, c, u)
    \/ \E C \in SUBSET Contacts : CronStarts(t, C)
    \/ \E u \in Users : Connect(t, u)

Environment ==
    \/ \E u \in Users : Disconnect(u) \/ RemoveUser(u) \/ RestoreUser(u)
    \/ \E c \in Contacts, u \in Users :
          SendAgentMessage(c, u) \/ SendMediaMessage(c, u)
    \/ WhatsappDown \/ WhatsappUp \/ Crash

Next == (\E t \in Tasks : Step(t) \/ Starts(t)) \/ Environment

Spec == Init /\ [][Next]_vars

\* A handler in flight goes on: every await comes back, with an answer or an
\* exception.  Nothing else is owed: not messages, connections or timers.
FairSpec == Spec /\ \A t \in Tasks : WF_vars(Step(t))

-----------------------------------------------------------------------------
(***************************************************************************)
(* Properties.                                                             *)
(***************************************************************************)
\* The variables keep their types.
TypeOK ==
    /\ chat \in [Contacts -> Row \union {None}]
    /\ queue \in Seq(Contacts)
    /\ registered \subseteq Users
    /\ connected \subseteq Users
    /\ timer \in [Contacts -> Users \union {None}]
    /\ isReady \in BOOLEAN
    /\ task \in [Tasks -> Task]
    /\ answered \subseteq Contacts
    /\ mishap \in [Contacts -> Mishaps]

\* A chat with the bot or closed belongs to no agent, whatever interleaving
\* of handlers, errors and restarts led there, as long as no handler saved
\* a stale copy of it (chat.service.ts:125-147, 299-396; the copies that
\* later steps save again are at 151-153, 182-184 and 204-205).
HeldOnlyWhenWithAgents ==
    \A c \in Contacts :
       /\ Exists(c) /\ chat[c].status \in {"AUTO_RESPONDER", "CLOSED"}
       /\ mishap[c] # "stale"
       => chat[c].assignedTo = None

\* The tasks on their way to give chat c to an agent or to the queue.
Placing(c) ==
    {t \in Tasks : /\ task[t].on = c
                   /\ \/ task[t].at \in {"handoff", "autoAssign", "enqueue",
                                         "assign", "arm", "apology"}
                      \/ /\ task[t].at = "save"
                         /\ task[t].then \in {"handoff", "autoAssign",
                                              "enqueue", "arm"}}

InQueue(c) == \E k \in DOMAIN queue : queue[k] = c

\* A chat that waits for an agent is in the queue, or a handler is about to
\* put it there or to assign it, unless something went wrong on the way
\* (chat.service.ts:149-155, 196-216, chat.gateway.ts:50-55): a connection
\* that pops a chat, a release and a hand-over may overlap in any order.
WaitingIsQueued ==
    \A c \in Contacts :
       Exists(c) /\ chat[c].status = "PENDING_ASSIGNMENT" /\ mishap[c] = "none"
       => InQueue(c) \/ Placing(c) # {}

\* An active chat without an agent is on its way to one
\* (chat.service.ts:182-216: the chat is saved as active first).
ActiveIsAttended ==
    \A c \in Contacts :
       IsActive(c) /\ Assignee(c) = None /\ mishap[c] = "none"
       => Placing(c) # {}

\* A handler that tells a customer that an agent will come (HandOff,
\* chat.service.ts:186-193) leads to an agent or to the queue.
HandOverIsServed ==
    \A c \in Contacts :
       (\E t \in Tasks : task[t].at = "handoff" /\ task[t].on = c)
       ~> (Assignee(c) # None \/ InQueue(c) \/ mishap[c] # "none")

\* Every handler comes to its end, the retry of the hand-over in its own
\* catch block (chat.service.ts:173-179) included.
HandlersEnd == \A t \in Tasks : task[t] # Idle ~> task[t] = Idle

\* If chats keep being taken off the queue, every chat in it gets its turn,
\* however many others are added, and restarts change nothing of that
\* (redis-state-store.ts:84-96: pushed on the left, popped on the right).
QueueIsServed ==
    []<><<Len(queue') < Len(queue)>>_queue =>
       \A c \in Contacts :
          InQueue(c) ~> \E t \in Tasks : task[t].on = c /\ task[t].at = "assign"

\* Message handlers keep to what the lock of incoming messages guarantees:
\* a chat is created once, by the only handler of its contact, and no other
\* joins in before (chat.service.ts:73-147).
Duty == INSTANCE MessageDuty WITH
            Handlers <- Tasks,
            duty <- [t \in Tasks |-> IF task[t].frame \in {"message", "try"}
                                     THEN task[t].on ELSE None],
            rows <- [c \in Contacts |-> IF Exists(c) THEN 1 ELSE 0]
KeepsDuty == Duty!Spec

\* What chat.service.ts:433 logs when a response timer finds the chat still
\* with its agent, "Agente ... no respondio chat" (the agent did not answer).
TimedOutOnlyIfSilent ==
    [][\A t \in Tasks, c \in Contacts :
          /\ task[t] = Idle /\ task'[t].at = "reassign" /\ task'[t].on = c
          /\ IsActive(c) /\ Assignee(c) = task'[t].who
          => c \notin answered]_vars

\* chat.gateway.ts:30 and 53: what a new connection assigns is a pending
\* chat, a "chat en espera" (waiting chat).
PoppedChatIsWaiting ==
    [][\A t \in Tasks :
          task[t].at = "pop" /\ task'[t].at = "assign"
          => chat[task'[t].on].status = "PENDING_ASSIGNMENT"]_vars
=============================================================================
