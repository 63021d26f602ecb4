------------------------ MODULE ChatAssignmentProofs ------------------------
(***************************************************************************)
(* Proofs about ChatAssignment for any sets of contacts, users and tasks.  *)
(*                                                                         *)
(* The invariant says of every task what makes its next save harmless: the *)
(* entity it is about to save gives no agent to a chat of the bot or to a  *)
(* closed chat, unless a stale copy was saved before.                      *)
(***************************************************************************)
EXTENDS ChatAssignment, TLAPS

AtRest == {"AUTO_RESPONDER", "CLOSED"}
Clean(c) == mishap[c] # "stale"

\* What is saved for a chat that no agent holds, or what is in its row.
Unheld(m, base) ==
    m.status \in AtRest =>
       \/ m.assignedTo = None
       \/ /\ m.assignedTo = Undefined
          /\ base = None \/ base.status = m.status

TaskOK(r) ==
    /\ r.at \notin {"idle", "pop", "cron"} => r.on \in Contacts
    /\ r.at \in {"route", "flow"} => Exists(r.on)
    /\ r.then \notin {"save", "pop"}
    /\ r.at = "pop" => r.frame = "none"
    /\ r.at = "save" /\ Clean(r.on) => Unheld(r.mem, r.base)
    /\ r.at = "save" /\ r.then = "route" /\ r.mem.status = "CLOSED" =>
          r.kept = r.mem.assignedTo /\ r.kept # Undefined
    /\ r.at = "route" /\ Clean(r.on) /\ r.own.status = "CLOSED" =>
          r.kept = None

TasksOK == \A t \in Tasks : TaskOK(task[t])

IInv == TypeOK /\ TasksOK /\ HeldOnlyWhenWithAgents

\* What a step may do to the chats and the mishaps without disturbing the
\* tasks that take no part in it.
Onward == /\ \A c \in Contacts : Exists(c) => Exists(c)'
          /\ \A c \in Contacts : Clean(c)' => Clean(c)

-----------------------------------------------------------------------------
LEMMA IdleTask == Idle \in Task /\ TaskOK(Idle)
  BY NullsAssumption
  DEF Idle, Task, Labels, Entity, Row, Status, Bot, TaskOK

LEMMA RequestTask ==
  ASSUME NEW label \in Labels, NEW c \in Contacts \union {None},
         NEW u \in Users \union {None},
         c \in Contacts \/ label = "pop",
         label \notin {"save", "route", "flow", "idle"}
  PROVE  Request(label, c, u) \in Task /\ TaskOK(Request(label, c, u))
<1> DEFINE r == Request(label, c, u)
<1>1. r = [Idle EXCEPT !.at = label, !.on = c, !.who = u]
  BY DEF Request
<1>2. r \in Task
  BY <1>1, IdleTask DEF Task, Labels
<1>3. r.at = label /\ r.on = c /\ r.then = "idle" /\ r.frame = "none"
  BY <1>1 DEF Idle
<1>4. QED
  BY <1>2, <1>3 DEF TaskOK

\* A mark keeps the type of mishap, and what was stale stays so.
LEMMA Marking ==
  ASSUME NEW C, NEW m \in Mishaps, mishap \in [Contacts -> Mishaps],
         Mark(C, m)
  PROVE  /\ mishap' \in [Contacts -> Mishaps]
         /\ \A c \in Contacts : Clean(c)' => Clean(c)
  BY DEF Mark, Clean, Mishaps

\* A task that takes no part in a step stays as good as it was.
LEMMA TaskOnward ==
  ASSUME NEW r \in Task, TaskOK(r), Onward
  PROVE  TaskOK(r)'
<1>1. r.on \in Contacts \/ r.at \in {"idle", "pop", "cron"}
  BY DEF TaskOK
<1>2. QED
  BY <1>1 DEF TaskOK, Onward

Desk == /\ queue \in Seq(Contacts)
        /\ registered \subseteq Users
        /\ connected \subseteq Users
        /\ timer \in [Contacts -> Users \union {None}]
        /\ isReady \in BOOLEAN
        /\ answered \subseteq Contacts
        /\ mishap \in [Contacts -> Mishaps]

\* A step that moves one task and leaves the chats alone.
LEMMA OneTask ==
  ASSUME IInv, NEW t \in Tasks, NEW r \in Task, TaskOK(r), Become(t, r),
         UNCHANGED chat, Desk', \A c \in Contacts : Clean(c)' => Clean(c)
  PROVE  IInv'
<1>1. Onward
  BY DEF Onward, Exists
<1>2. TypeOK'
  BY DEF IInv, TypeOK, Become, Desk
<1>3. ASSUME NEW s \in Tasks
      PROVE  TaskOK(task[s])'
  <2>1. task'[s] \in Task /\ TaskOK(task'[s])
    BY DEF IInv, TypeOK, TasksOK, Become
  <2>2. QED
    BY <1>1, <2>1 DEF TaskOK, Onward
<1>4. HeldOnlyWhenWithAgents'
  BY DEF IInv, HeldOnlyWhenWithAgents, Exists, Clean
<1>5. QED
  BY <1>2, <1>3, <1>4 DEF IInv, TasksOK

\* The same when nothing but the task changes.
LEMMA OnlyTask ==
  ASSUME IInv, NEW t \in Tasks, NEW r \in Task, TaskOK(r), Become(t, r),
         UNCHANGED <<chat, queue, timer, people, answered, mishap>>
  PROVE  IInv'
<1>1. Desk' /\ \A c \in Contacts : Clean(c)' => Clean(c)
  BY DEF IInv, TypeOK, Desk, people, Clean
<1>2. QED
  BY <1>1, OneTask

LEMMA TaskFacts ==
  ASSUME IInv, NEW t \in Tasks
  PROVE  /\ task[t] \in Task
         /\ TaskOK(task[t])
         /\ task[t].at \notin {"idle", "pop", "cron"} =>
               /\ task[t].on \in Contacts
               /\ chat[task[t].on] \in Row \union {None}
  BY DEF IInv, TypeOK, TasksOK, TaskOK

-----------------------------------------------------------------------------
(***************************************************************************)
(* What the helpers make of a task.                                        *)
(***************************************************************************)
LEMMA Going ==
  ASSUME IInv, NEW t \in Tasks, task[t].at \notin {"idle", "pop", "cron"},
         NEW label \in Labels \ {"save", "route", "pop"},
         label = "flow" => Exists(task[t].on),
         Goto(t, label),
         UNCHANGED <<chat, queue, timer, people, answered, mishap>>
  PROVE  IInv'
<1> DEFINE r == [task[t] EXCEPT !.at = label]
<1>1. task[t] \in Task /\ TaskOK(task[t]) /\ task[t].on \in Contacts
  BY TaskFacts
<1>2. r \in Task
  BY <1>1 DEF Task
<1>3. r.at = label /\ r.on = task[t].on /\ r.then = task[t].then
  BY <1>1 DEF Task
<1>4. TaskOK(r)
  BY <1>1, <1>3 DEF TaskOK
<1>5. QED
  BY <1>2, <1>4, OnlyTask DEF Goto

LEMMA Ending ==
  ASSUME IInv, NEW t \in Tasks, End(t),
         UNCHANGED <<chat, queue, timer, people, answered, mishap>>
  PROVE  IInv'
  BY IdleTask, OnlyTask DEF End

\* A task that goes to save: what makes that save harmless.
LEMMA SavingFresh ==
  ASSUME IInv, NEW t \in Tasks, task[t].at \notin {"idle", "pop", "cron"},
         NEW m \in Entity, NEW label \in Labels \ {"save", "route", "pop"},
         Clean(task[t].on) => Unheld(m, chat[task[t].on]),
         NEW q, q = [task[t] EXCEPT !.at = "save", !.then = label, !.mem = m,
                                    !.base = chat[task[t].on]]
  PROVE  q \in Task /\ TaskOK(q)
<1>1. task[t] \in Task /\ task[t].on \in Contacts
      /\ chat[task[t].on] \in Row \union {None}
  BY TaskFacts
<1>2. q \in Task
  BY <1>1 DEF Task, Labels
<1>3. /\ q.at = "save" /\ q.on = task[t].on /\ q.then = label
      /\ q.mem = m /\ q.base = chat[task[t].on]
  BY <1>1 DEF Task
<1>4. QED
  BY <1>1, <1>2, <1>3 DEF TaskOK

LEMMA SavingOwn ==
  ASSUME IInv, NEW t \in Tasks, task[t].at \notin {"idle", "pop", "cron"},
         NEW status \in Status, NEW label \in Labels \ {"save", "route", "pop"},
         status \in AtRest /\ Clean(task[t].on) => task[t].kept = None,
         SaveOwn(t, status, label),
         UNCHANGED <<chat, queue, timer, people, answered, mishap>>
  PROVE  IInv'
<1> DEFINE m == [status |-> status, assignedTo |-> task[t].kept]
           q == [task[t] EXCEPT !.at = "save", !.then = label,
                                !.base = task[t].own, !.mem = m]
<1>1. task[t] \in Task /\ task[t].on \in Contacts
  BY TaskFacts
<1>2. m \in Entity /\ m.status = status /\ m.assignedTo = task[t].kept
  BY <1>1 DEF Entity, Task
<1>3. q \in Task
  BY <1>1, <1>2 DEF Task, Labels
<1>4. q.at = "save" /\ q.on = task[t].on /\ q.then = label /\ q.mem = m
  BY <1>1 DEF Task
<1>5. TaskOK(q)
  BY <1>1, <1>2, <1>4 DEF TaskOK, Unheld
<1>6. QED
  BY <1>3, <1>5, OnlyTask DEF SaveOwn

-----------------------------------------------------------------------------
(***************************************************************************)
(* The save itself: the only step that changes a chat.                     *)
(***************************************************************************)
LEMMA Merging ==
  ASSUME NEW m \in Entity, NEW row \in Row \union {None}
  PROVE  /\ Merge(m, row) \in Row
         /\ Merge(m, row) # None
         /\ Merge(m, row).status = m.status
         /\ m.assignedTo # Undefined => Merge(m, row).assignedTo = m.assignedTo
         /\ m.assignedTo = Undefined =>
               Merge(m, row).assignedTo =
                  IF row = None THEN None ELSE row.assignedTo
<1>1. Merge(m, row) \in Row
  BY DEF Merge, Entity, Row
<1>2. QED
  BY <1>1, NullRowAssumption DEF Merge

LEMMA SaveStep ==
  ASSUME IInv, NEW t \in Tasks, Save(t)
  PROVE  IInv'
<1>a. PICK r : r = task[t]
  OBVIOUS
<1>b. PICK row : row = Merge(r.mem, chat[r.on])
  OBVIOUS
<1> DEFINE c == r.on
           q == [r EXCEPT !.at = r.then, !.then = "idle", !.mem = Bot,
                          !.base = None,
                          !.own = IF r.then \in OwnSaves THEN row ELSE @]
           next == IF r.then = "idle" THEN Idle ELSE q
<1>1. r.at = "save" /\ r \in Task /\ TaskOK(r) /\ c \in Contacts
      /\ chat[c] \in Row \union {None}
  BY <1>a, TaskFacts DEF Save
<1>2. row \in Row /\ row # None /\ row.status = r.mem.status
  BY <1>1, <1>b, Merging DEF Task
<1>3. /\ chat' = [chat EXCEPT ![c] = row]
      /\ task' = [task EXCEPT ![t] = next]
      /\ UNCHANGED <<queue, timer, people>>
      /\ answered' = answered \ {c} \/ answered' = answered
  BY <1>a, <1>b DEF Save, Become
<1>4. IF chat[c] # r.base /\ row # chat[c]
      THEN Mark({c}, "stale") ELSE UNCHANGED mishap
  BY <1>a, <1>b DEF Save
<1>5. /\ mishap' \in [Contacts -> Mishaps]
      /\ \A d \in Contacts : Clean(d)' => Clean(d)
  <2>1. "stale" \in Mishaps /\ mishap \in [Contacts -> Mishaps]
    BY DEF Mishaps, IInv, TypeOK
  <2>2. CASE chat[c] # r.base /\ row # chat[c]
    BY <1>4, <2>1, <2>2, Marking
  <2>3. CASE ~(chat[c] # r.base /\ row # chat[c])
    BY <1>4, <2>1, <2>3 DEF Clean
  <2>4. QED
    BY <2>2, <2>3
<1>6. Clean(c)' => chat[c] = r.base \/ row = chat[c]
  BY <1>1, <1>4 DEF Mark, Clean, IInv, TypeOK, Mishaps
<1>7. chat'[c] = row /\ \A d \in Contacts : d # c => chat'[d] = chat[d]
  BY <1>1, <1>3 DEF IInv, TypeOK
<1>8. Onward
  BY <1>2, <1>5, <1>7 DEF Onward, Exists
<1>9. q \in Task
  <2>1. Bot \in Entity /\ "idle" \in Labels
    BY DEF Entity, Bot, Status, Labels
  <2>2. QED
    BY <1>1, <1>2, <2>1 DEF Task
<1>10. next \in Task
  BY <1>9, IdleTask
<1>11. TypeOK'
  BY <1>1, <1>2, <1>3, <1>5, <1>10 DEF IInv, TypeOK, people
<1>12. HeldOnlyWhenWithAgents'
  <2>1. ASSUME Clean(c)', row.status \in AtRest
        PROVE  row.assignedTo = None
    <3>1. Clean(c) /\ Unheld(r.mem, r.base)
      BY <1>1, <1>5, <2>1 DEF TaskOK
    <3>2. Exists(c) /\ chat[c].status \in AtRest => chat[c].assignedTo = None
      BY <1>1, <3>1 DEF IInv, HeldOnlyWhenWithAgents, AtRest, Clean
    <3>3. CASE row = chat[c]
      BY <1>2, <2>1, <3>2, <3>3 DEF Exists
    <3>4. CASE chat[c] = r.base /\ r.mem.assignedTo = None
      BY <1>1, <1>b, <3>4, Merging, NullsAssumption DEF Task
    <3>5. CASE chat[c] = r.base /\ r.mem.assignedTo # None
      <4>1. r.mem.assignedTo = Undefined
            /\ (r.base = None \/ r.base.status = r.mem.status)
        BY <1>2, <2>1, <3>1, <3>5 DEF Unheld
      <4>2. row.assignedTo = IF chat[c] = None THEN None
                             ELSE chat[c].assignedTo
        BY <1>1, <1>b, <4>1, Merging DEF Task
      <4>3. QED
        BY <1>2, <2>1, <3>2, <3>5, <4>1, <4>2 DEF Exists
    <3>6. QED
      BY <1>6, <2>1, <3>3, <3>4, <3>5
  <2>2. QED
    BY <1>5, <1>7, <2>1
    DEF IInv, HeldOnlyWhenWithAgents, Exists, Clean, AtRest
<1>13. TaskOK(q)'
  <2>1. /\ q.at = r.then /\ q.on = c /\ q.then = "idle" /\ q.kept = r.kept
        /\ r.then = "route" => q.own = row
    BY <1>1 DEF Task, OwnSaves
  <2> HIDE DEF q
  <2>2. r.then \notin {"save", "pop"}
    BY <1>1 DEF TaskOK
  <2>3. ASSUME r.then = "route", Clean(c)', row.status = "CLOSED"
        PROVE  r.kept = None
    <3>1. r.kept = r.mem.assignedTo /\ r.kept # Undefined
      BY <1>1, <1>2, <2>3 DEF TaskOK
    <3>2. Unheld(r.mem, r.base)
      BY <1>1, <1>5, <2>3 DEF TaskOK
    <3>3. QED
      BY <1>2, <2>3, <3>1, <3>2 DEF Unheld, AtRest
  <2>4. Exists(c)'
    BY <1>2, <1>7 DEF Exists
  <2>5. QED
    BY <1>1, <2>1, <2>2, <2>3, <2>4 DEF TaskOK
<1>14. TasksOK'
  <2>1. ASSUME NEW s \in Tasks, s # t
        PROVE  TaskOK(task[s])'
    <3>1. task'[s] \in Task /\ TaskOK(task'[s])
      BY <1>3, <2>1 DEF IInv, TypeOK, TasksOK
    <3>2. QED
      BY <1>8, <3>1 DEF TaskOK, Onward
  <2>2. TaskOK(task[t])'
    <3>1. task'[t] = next
      BY <1>3 DEF IInv, TypeOK
    <3>2. TaskOK(Idle)'
      BY DEF TaskOK, Idle
    <3>3. QED
      BY <1>13, <3>1, <3>2
  <2>3. QED
    BY <2>1, <2>2 DEF TasksOK
<1>15. QED
  BY <1>11, <1>12, <1>14 DEF IInv

-----------------------------------------------------------------------------
(***************************************************************************)
(* Exceptions and restarts.                                                *)
(***************************************************************************)
LEMMA RestartStep ==
  ASSUME IInv, Restart
  PROVE  IInv'
<1>1. "fault" \in Mishaps /\ mishap \in [Contacts -> Mishaps]
  BY DEF Mishaps, IInv, TypeOK
<1>2. /\ mishap' \in [Contacts -> Mishaps]
      /\ \A c \in Contacts : Clean(c)' => Clean(c)
  BY <1>1, Marking DEF Restart
<1>3. TypeOK'
  BY <1>2, IdleTask DEF IInv, TypeOK, Restart
<1>4. TasksOK'
  BY DEF Restart, TasksOK, TaskOK, Idle
<1>5. HeldOnlyWhenWithAgents'
  BY <1>2 DEF IInv, HeldOnlyWhenWithAgents, Exists, Clean, Restart
<1>6. QED
  BY <1>3, <1>4, <1>5 DEF IInv

\* A handler that ends, or goes on elsewhere, with its chat marked.
LEMMA MarkedTask ==
  ASSUME IInv, NEW t \in Tasks, NEW r \in Task, TaskOK(r), Become(t, r),
         NEW C, Mark(C, "fault"),
         UNCHANGED <<chat, queue, timer, people, answered>>
  PROVE  IInv'
<1>1. "fault" \in Mishaps /\ mishap \in [Contacts -> Mishaps]
  BY DEF Mishaps, IInv, TypeOK
<1>2. /\ mishap' \in [Contacts -> Mishaps]
      /\ \A c \in Contacts : Clean(c)' => Clean(c)
  BY <1>1, Marking
<1>3. Desk'
  BY <1>2 DEF Desk, IInv, TypeOK, people
<1>4. QED
  BY <1>2, <1>3, OneTask

LEMMA ApologyTask ==
  ASSUME IInv, NEW t \in Tasks, task[t].at \notin {"idle", "pop", "cron"},
         NEW q, q = [task[t] EXCEPT !.at = "apology", !.frame = "message"]
  PROVE  q \in Task /\ TaskOK(q)
<1>1. task[t] \in Task /\ TaskOK(task[t]) /\ task[t].on \in Contacts
  BY TaskFacts
<1>2. q \in Task
  BY <1>1 DEF Task, Labels
<1>3. q.at = "apology" /\ q.on = task[t].on /\ q.then = task[t].then
  BY <1>1 DEF Task
<1>4. QED
  BY <1>1, <1>2, <1>3 DEF TaskOK

LEMMA CronTask ==
  ASSUME NEW C \in SUBSET Contacts
  PROVE  /\ [Idle EXCEPT !.at = "cron", !.todo = C] \in Task
         /\ TaskOK([Idle EXCEPT !.at = "cron", !.todo = C])
<1> DEFINE q == [Idle EXCEPT !.at = "cron", !.todo = C]
<1>1. q \in Task
  BY IdleTask DEF Task, Labels
<1>2. q.at = "cron" /\ q.then = "idle"
  BY DEF Idle
<1>3. QED
  BY <1>1, <1>2 DEF TaskOK

LEMMA FailStep ==
  ASSUME IInv, NEW t \in Tasks, task[t].at \notin {"idle", "cron"},
         Fail(t)
  PROVE  IInv'
<1>a. PICK r : r = task[t]
  OBVIOUS
<1>1. task[t] \in Task /\ TaskOK(task[t])
  BY TaskFacts
<1>2. CASE r.frame = "try" /\ r.at = "save" /\ r.then = "thanks"
  <2>1. Goto(t, "thanks")
        /\ UNCHANGED <<chat, queue, timer, people, answered, mishap>>
    BY <1>a, <1>2 DEF Fail
  <2>2. QED
    BY <1>a, <1>1, <1>2, <2>1, Going DEF Labels
<1>3. CASE r.frame = "try" /\ ~(r.at = "save" /\ r.then = "thanks")
  <2>1. /\ Become(t, [r EXCEPT !.at = "apology", !.frame = "message"])
        /\ UNCHANGED <<chat, queue, timer, people, answered, mishap>>
    BY <1>a, <1>3 DEF Fail
  <2>2. QED
    BY <1>a, <1>1, <1>3, <2>1, ApologyTask, OnlyTask DEF TaskOK
<1>4. CASE r.frame = "timer"
  BY <1>a, <1>4, RestartStep DEF Fail
<1>5. CASE r.frame \notin {"try", "timer"}
  <2> DEFINE q == IF r.todo # {}
                  THEN [Idle EXCEPT !.at = "cron", !.todo = r.todo] ELSE Idle
  <2>1. Become(t, q) /\ Mark({r.on}, "fault")
        /\ UNCHANGED <<chat, queue, timer, people, answered>>
    BY <1>a, <1>5 DEF Fail
  <2>2. r.todo \in SUBSET Contacts
    BY <1>a, <1>1 DEF Task
  <2>3. q \in Task /\ TaskOK(q)
    BY <2>2, IdleTask, CronTask
  <2>4. QED
    BY <2>1, <2>3, MarkedTask
<1>6. QED
  BY <1>2, <1>3, <1>4, <1>5

-----------------------------------------------------------------------------
(***************************************************************************)
(* The steps of a message handler.                                         *)
(***************************************************************************)
LEMMA ReceiveStep ==
  ASSUME IInv, NEW t \in Tasks, NEW c \in Contacts, Receive(t, c)
  PROVE  IInv'
<1> DEFINE r == Request("find", c, None)
           q == [r EXCEPT !.frame = "message"]
<1>1. r \in Task /\ TaskOK(r)
  BY RequestTask DEF Labels
<1>2. r.at = "find" /\ r.on = c /\ r.then = "idle"
  BY DEF Request, Idle
<1> HIDE DEF r
<1>3. q \in Task
  BY <1>1 DEF Task
<1>4. q.at = "find" /\ q.on = c /\ q.then = "idle"
  BY <1>1, <1>2 DEF Task
<1>5. TaskOK(q)
  BY <1>4 DEF TaskOK
<1>6. QED
  BY <1>3, <1>5, OnlyTask DEF Receive, Start, r

LEMMA FindChatStep ==
  ASSUME IInv, NEW t \in Tasks, FindChat(t)
  PROVE  IInv'
<1>a. PICK r : r = task[t]
  OBVIOUS
<1>b. PICK m : m = IF ~Exists(r.on)
                   THEN [Bot EXCEPT !.assignedTo = Undefined]
                   ELSE IF chat[r.on].status = "AUTO_RESPONDER" THEN Bot
                   ELSE View(chat[r.on])
  OBVIOUS
<1> DEFINE q == [r EXCEPT !.at = "save", !.then = "route", !.mem = m,
                          !.base = chat[r.on], !.kept = m.assignedTo]
<1>1. /\ r.at = "find" /\ r \in Task /\ r.on \in Contacts
      /\ chat[r.on] \in Row \union {None}
  BY <1>a, TaskFacts DEF FindChat
<1>2. /\ Become(t, q)
      /\ UNCHANGED <<chat, queue, timer, people, answered, mishap>>
  BY <1>a, <1>b DEF FindChat
<1>3. CASE ~Exists(r.on)
  <2>1. m.status = "AUTO_RESPONDER" /\ m.assignedTo = Undefined
        /\ chat[r.on] = None /\ m \in Entity
    BY <1>b, <1>3 DEF Bot, Exists, Entity, Status
  <2>2. q \in Task
    <3>1. /\ {"save", "route"} \subseteq Labels
          /\ m.assignedTo \in Users \union {None, Undefined}
          /\ chat[r.on] \in Row \union {None}
      BY <2>1 DEF Labels
    <3>2. QED
      BY <1>1, <2>1, <3>1 DEF Task
  <2>3. /\ q.at = "save" /\ q.then = "route" /\ q.mem = m /\ q.on = r.on
        /\ q.base = None
    BY <1>1, <2>1 DEF Task
  <2>4. TaskOK(q)
    BY <1>1, <2>1, <2>3 DEF TaskOK, Unheld
  <2>5. QED
    BY <1>2, <2>2, <2>4, OnlyTask
<1>4. CASE Exists(r.on)
  <2>1. m \in Row
    BY <1>1, <1>b, <1>4 DEF Bot, Exists, Row, Status, View
  <2>2. ASSUME Clean(r.on), m.status \in AtRest
        PROVE  m.assignedTo = None
    <3>1. CASE chat[r.on].status = "AUTO_RESPONDER"
      BY <1>b, <1>4, <3>1 DEF Bot
    <3>2. CASE chat[r.on].status # "AUTO_RESPONDER"
      <4>1. m = View(chat[r.on]) /\ chat[r.on] \in Row
        BY <1>1, <1>b, <1>4, <3>2 DEF Exists
      <4>2. /\ m.status = chat[r.on].status
            /\ m.assignedTo \in {chat[r.on].assignedTo, None}
        BY <4>1 DEF View, Row
      <4>3. chat[r.on].assignedTo = None
        BY <1>1, <1>4, <2>2, <4>2
        DEF IInv, HeldOnlyWhenWithAgents, Clean, AtRest
      <4>4. QED
        BY <4>2, <4>3
    <3>3. QED
      BY <3>1, <3>2
  <2>3. q \in Task
    BY <1>1, <2>1 DEF Task, Entity, Row, Labels
  <2>4. /\ q.at = "save" /\ q.then = "route" /\ q.mem = m /\ q.on = r.on
        /\ q.kept = m.assignedTo
    BY <1>1 DEF Task
  <2>5. m.assignedTo # Undefined
    BY <2>1, NullsAssumption DEF Row
  <2>6. TaskOK(q)
    BY <1>1, <2>2, <2>4, <2>5 DEF TaskOK, Unheld
  <2>7. QED
    BY <1>2, <2>3, <2>6, OnlyTask
<1>5. QED
  BY <1>3, <1>4

LEMMA RouteStep ==
  ASSUME IInv, NEW t \in Tasks, Route(t)
  PROVE  IInv'
<1>1. /\ task[t].at = "route" /\ TaskOK(task[t])
      /\ UNCHANGED <<chat, queue, timer, people, answered, mishap>>
  BY TaskFacts DEF Route
<1>2. CASE SaveOwn(t, "PENDING_ASSIGNMENT", "autoAssign")
  BY <1>1, <1>2, SavingOwn DEF Labels, Status, AtRest
<1>3. CASE SaveOwn(t, "AUTO_RESPONDER", "flow")
           /\ task[t].own.status = "CLOSED"
  <2>1. Clean(task[t].on) => task[t].kept = None
    BY <1>1, <1>3 DEF TaskOK
  <2>2. QED
    BY <1>1, <1>3, <2>1, SavingOwn DEF Labels, Status
<1>4. CASE End(t)
  BY <1>1, <1>4, Ending
<1>5. CASE Goto(t, "flow")
  <2>1. Exists(task[t].on)
    BY <1>1 DEF TaskOK
  <2>2. QED
    BY <1>1, <1>5, <2>1, Going DEF Labels
<1>6. QED
  BY <1>2, <1>3, <1>4, <1>5 DEF Route

LEMMA FlowStep ==
  ASSUME IInv, NEW t \in Tasks, Flow(t)
  PROVE  IInv'
<1>a. PICK r : r = task[t]
  OBVIOUS
<1>b. PICK f : f = [r EXCEPT !.frame = "try"]
  OBVIOUS
<1> DEFINE Saving(m, label) ==
             [f EXCEPT !.at = "save", !.then = label, !.mem = m,
                       !.base = chat[f.on]]
<1>1. /\ r.at = "flow" /\ r \in Task /\ TaskOK(r) /\ r.on \in Contacts
      /\ chat[r.on] \in Row /\ Exists(r.on)
      /\ UNCHANGED <<chat, queue, timer, people, answered, mishap>>
  BY <1>a, TaskFacts DEF Flow, TaskOK, Exists
<1>2. f \in Task /\ f.on = r.on /\ f.then = r.then /\ f.kept = r.kept
  BY <1>1, <1>b DEF Task
<1>3. ASSUME NEW m \in Entity, NEW label \in {"reply", "thanks", "handoff"},
             NEW base \in Row \union {None},
             Clean(r.on) => Unheld(m, base),
             NEW q, q = [f EXCEPT !.at = "save", !.then = label, !.mem = m,
                                  !.base = base],
             Become(t, q)
      PROVE  IInv'
  <2>1. q \in Task
    BY <1>2, <1>3 DEF Task, Labels
  <2>2. q.at = "save" /\ q.then = label /\ q.mem = m /\ q.on = r.on
        /\ q.base = base
    BY <1>2, <1>3 DEF Task
  <2>3. TaskOK(q)
    BY <1>1, <1>3, <2>2 DEF TaskOK
  <2>4. QED
    BY <1>1, <1>3, <2>1, <2>3, OnlyTask
<1>4. CASE End(t)
  BY <1>1, <1>4, Ending
<1>5. CASE Become(t, [f EXCEPT !.at = "reply"])
  <2> DEFINE q == [f EXCEPT !.at = "reply"]
  <2>1. q \in Task /\ q.at = "reply" /\ q.on = r.on /\ q.then = r.then
    BY <1>2 DEF Task, Labels
  <2>2. TaskOK(q)
    BY <1>1, <2>1 DEF TaskOK
  <2>3. QED
    BY <1>1, <1>5, <2>1, <2>2, OnlyTask
<1>6. CASE Become(t, Saving([chat[r.on] EXCEPT !.assignedTo = Undefined],
                            "reply"))
  <2> DEFINE m == [chat[r.on] EXCEPT !.assignedTo = Undefined]
  <2>1. m \in Entity /\ m.assignedTo = Undefined
        /\ m.status = chat[r.on].status
    BY <1>1 DEF Row, Entity
  <2>2. Unheld(m, chat[r.on])
    BY <2>1 DEF Unheld
  <2>3. QED
    BY <1>1, <1>2, <1>3, <1>6, <2>1, <2>2
<1>7. CASE Become(t, Saving(Closed(chat[r.on]), "thanks"))
  <2>1. Closed(chat[r.on]) \in Entity
        /\ Closed(chat[r.on]).assignedTo = None
    BY DEF Closed, Entity, Status
  <2>2. Unheld(Closed(chat[r.on]), chat[r.on])
    BY <2>1 DEF Unheld
  <2>3. QED
    BY <1>1, <1>2, <1>3, <1>7, <2>1, <2>2
<1>8. CASE Become(t, [Saving([status |-> "ACTIVE", assignedTo |-> r.kept],
                             "handoff") EXCEPT !.base = r.own])
  <2> DEFINE m == [status |-> "ACTIVE", assignedTo |-> r.kept]
  <2>1. m \in Entity /\ m.status = "ACTIVE" /\ r.own \in Row \union {None}
    BY <1>1 DEF Entity, Status, Task
  <2>2. Unheld(m, r.own)
    BY <2>1 DEF Unheld, AtRest
  <2>3. [Saving(m, "handoff") EXCEPT !.base = r.own]
          = [f EXCEPT !.at = "save", !.then = "handoff", !.mem = m,
                      !.base = r.own]
    BY <1>2 DEF Task
  <2>4. QED
    BY <1>1, <1>2, <1>3, <1>8, <2>1, <2>2, <2>3
<1>9. QED
  BY <1>a, <1>b, <1>2, <1>4, <1>5, <1>6, <1>7, <1>8 DEF Flow

LEMMA OtherMessageSteps ==
  ASSUME IInv, NEW t \in Tasks,
         Reply(t) \/ Apologise(t) \/ HandOff(t) \/ Note(t)
  PROVE  IInv'
<1>1. CASE Reply(t) \/ Note(t)
  BY <1>1, Ending DEF Reply, Note
<1>2. CASE Apologise(t)
  BY <1>2, SavingOwn DEF Apologise, Labels, Status, AtRest
<1>3. CASE HandOff(t)
  BY <1>3, Going DEF HandOff, Labels
<1>4. QED
  BY <1>1, <1>2, <1>3

-----------------------------------------------------------------------------
(***************************************************************************)
(* The steps of an assignment.                                             *)
(***************************************************************************)
\* A task that goes on about a given user or chat.
LEMMA Turning ==
  ASSUME IInv, NEW t \in Tasks, NEW r \in Task, TaskOK(r),
         NEW c \in Contacts, NEW u \in Users \union {None},
         NEW label \in Labels \ {"save", "route", "flow", "pop"},
         NEW todo \in SUBSET Contacts,
         NEW q, q = [r EXCEPT !.at = label, !.on = c, !.who = u,
                              !.todo = todo]
  PROVE  q \in Task /\ TaskOK(q)
<1>1. q \in Task
  BY DEF Task
<1>2. q.at = label /\ q.on = c /\ q.then = r.then
  BY DEF Task
<1>3. QED
  BY <1>1, <1>2 DEF TaskOK

\* A task is what Turning makes of it when it turns to what it has.
LEMMA TurningWho ==
  ASSUME NEW r \in Task, NEW label, NEW u
  PROVE  [r EXCEPT !.at = label, !.who = u]
           = [r EXCEPT !.at = label, !.on = r.on, !.who = u,
                       !.todo = r.todo]
  BY DEF Task

LEMMA AutoAssignStep ==
  ASSUME IInv, NEW t \in Tasks, AutoAssign(t)
  PROVE  IInv'
<1>1. /\ task[t].at = "autoAssign" /\ task[t] \in Task /\ TaskOK(task[t])
      /\ task[t].on \in Contacts
      /\ UNCHANGED <<chat, queue, timer, people, answered>>
  BY TaskFacts DEF AutoAssign
<1>2. CASE QueueUp(t) /\ UNCHANGED mishap
  BY <1>1, <1>2, SavingOwn DEF QueueUp, Labels, Status, AtRest
<1>3. CASE /\ UNCHANGED mishap
           /\ \E a \in LeastLoaded(OnlineAgents) :
                 Become(t, [task[t] EXCEPT !.at = "assign", !.who = a])
  <2>1. PICK a \in LeastLoaded(OnlineAgents) :
               Become(t, [task[t] EXCEPT !.at = "assign", !.who = a])
    BY <1>3
  <2>2. a \in Users
    BY DEF LeastLoaded, IInv, TypeOK
  <2>3. PICK q : q = [task[t] EXCEPT !.at = "assign", !.who = a]
    OBVIOUS
  <2>4. q = [task[t] EXCEPT !.at = "assign", !.on = task[t].on, !.who = a,
                            !.todo = task[t].todo]
    BY <1>1, <2>3, TurningWho
  <2>5. task[t].todo \in SUBSET Contacts /\ "assign" \in Labels
    BY <1>1 DEF Task, Labels
  <2>6. q \in Task /\ TaskOK(q)
    BY <1>1, <2>2, <2>4, <2>5, Turning
  <2>7. QED
    BY <1>1, <1>3, <2>1, <2>3, <2>6, OnlyTask
<1>4. CASE End(t) /\ Mark({task[t].on}, "fault")
  BY <1>1, <1>4, IdleTask, MarkedTask DEF End
<1>5. QED
  BY <1>2, <1>3, <1>4 DEF AutoAssign

LEMMA EnqueueStep ==
  ASSUME IInv, NEW t \in Tasks, Enqueue(t)
  PROVE  IInv'
<1> DEFINE q == [task[t] EXCEPT !.at = "note"]
<1>1. task[t].at = "enqueue" /\ task[t] \in Task /\ TaskOK(task[t])
      /\ task[t].on \in Contacts
  BY TaskFacts DEF Enqueue
<1>2. q \in Task /\ q.at = "note" /\ q.on = task[t].on
      /\ q.then = task[t].then
  BY <1>1 DEF Task, Labels
<1>3. TaskOK(q)
  BY <1>1, <1>2 DEF TaskOK
<1>4. Desk' /\ \A c \in Contacts : Clean(c)' => Clean(c)
  <2>1. queue' \in Seq(Contacts)
    BY <1>1 DEF Enqueue, IInv, TypeOK
  <2>2. QED
    BY <2>1 DEF Enqueue, IInv, TypeOK, Desk, people, Clean
<1>5. QED
  BY <1>2, <1>3, <1>4, OneTask DEF Enqueue, Goto

LEMMA AssignStep ==
  ASSUME IInv, NEW t \in Tasks, Assign(t)
  PROVE  IInv'
<1> DEFINE m == [status |-> "ACTIVE", assignedTo |-> task[t].who]
<1>1. task[t].at \in {"assign", "assignByHand"} /\ task[t] \in Task
  BY TaskFacts DEF Assign
<1>2. CASE SaveFresh(t, m, "arm")
           /\ UNCHANGED <<chat, queue, timer, people, answered, mishap>>
  <2>1. m \in Entity /\ m.status = "ACTIVE"
    BY <1>1 DEF Entity, Status, Task
  <2>2. Unheld(m, chat[task[t].on])
    BY <2>1 DEF Unheld, AtRest
  <2>3. PICK q : q = [task[t] EXCEPT !.at = "save", !.then = "arm",
                        !.mem = m, !.base = chat[task[t].on]]
    OBVIOUS
  <2>4. q \in Task /\ TaskOK(q)
    BY <1>1, <2>1, <2>2, <2>3, SavingFresh DEF Labels
  <2>5. QED
    BY <1>2, <2>3, <2>4, OnlyTask DEF SaveFresh
<1>3. CASE Fail(t)
  BY <1>1, <1>3, FailStep
<1>4. CASE End(t)
           /\ UNCHANGED <<chat, queue, timer, people, answered, mishap>>
  BY <1>4, Ending
<1>5. QED
  BY <1>2, <1>3, <1>4 DEF Assign

LEMMA ArmStep ==
  ASSUME IInv, NEW t \in Tasks, Arm(t)
  PROVE  IInv'
<1>1. task[t] \in Task
  BY TaskFacts
<1>2. task[t].who \in Users \union {None}
  BY <1>1 DEF Task
<1>3. Desk' /\ \A c \in Contacts : Clean(c)' => Clean(c)
  BY <1>2 DEF Arm, IInv, TypeOK, Desk, people, Clean
<1>4. QED
  BY <1>3, IdleTask, OneTask DEF Arm, End

LEMMA TimerFiresStep ==
  ASSUME IInv, NEW t \in Tasks, NEW c \in Contacts, TimerFires(t, c)
  PROVE  IInv'
<1>a. PICK r : r = Request("reassign", c, timer[c])
  OBVIOUS
<1> DEFINE q == [r EXCEPT !.frame = "timer"]
<1>1. timer[c] \in Users \union {None}
  BY DEF IInv, TypeOK
<1>2. r \in Task /\ TaskOK(r)
  BY <1>1, <1>a, RequestTask DEF Labels
<1>3. r.at = "reassign" /\ r.on = c /\ r.then = "idle"
  BY <1>a DEF Request, Idle
<1>4. q \in Task /\ q.at = "reassign" /\ q.on = c /\ q.then = "idle"
  BY <1>2, <1>3 DEF Task
<1>5. TaskOK(q)
  BY <1>4 DEF TaskOK
<1>6. Desk' /\ \A d \in Contacts : Clean(d)' => Clean(d)
  BY DEF TimerFires, IInv, TypeOK, Desk, people, Clean
<1>7. QED
  BY <1>a, <1>4, <1>5, <1>6, OneTask DEF TimerFires, Start

LEMMA ReassignStep ==
  ASSUME IInv, NEW t \in Tasks, Reassign(t)
  PROVE  IInv'
<1>1. /\ task[t].at = "reassign" /\ task[t] \in Task /\ TaskOK(task[t])
      /\ task[t].on \in Contacts
      /\ UNCHANGED <<chat, queue, timer, people, answered, mishap>>
  BY TaskFacts DEF Reassign
<1>2. CASE End(t)
  BY <1>1, <1>2, Ending
<1>3. CASE \E a \in LeastLoaded(OnlineAgents \ {task[t].who}) :
              Become(t, [task[t] EXCEPT !.at = "assign", !.who = a])
  <2>1. PICK a \in LeastLoaded(OnlineAgents \ {task[t].who}) :
               Become(t, [task[t] EXCEPT !.at = "assign", !.who = a])
    BY <1>3
  <2>2. a \in Users
    BY DEF LeastLoaded, IInv, TypeOK
  <2>3. PICK q : q = [task[t] EXCEPT !.at = "assign", !.who = a]
    OBVIOUS
  <2>4. q = [task[t] EXCEPT !.at = "assign", !.on = task[t].on, !.who = a,
                            !.todo = task[t].todo]
    BY <1>1, <2>3, TurningWho
  <2>5. task[t].todo \in SUBSET Contacts /\ "assign" \in Labels
    BY <1>1 DEF Task, Labels
  <2>6. q \in Task /\ TaskOK(q)
    BY <1>1, <2>2, <2>4, <2>5, Turning
  <2>7. QED
    BY <1>1, <2>1, <2>3, <2>6, OnlyTask
<1>4. CASE Goto(t, "release")
  BY <1>1, <1>4, Going DEF Labels
<1>5. QED
  BY <1>2, <1>3, <1>4 DEF Reassign

-----------------------------------------------------------------------------
(***************************************************************************)
(* Releasing, connecting, and what happens around the handlers.            *)
(***************************************************************************)
LEMMA RequestStep ==
  ASSUME IInv, NEW t \in Tasks, NEW c \in Contacts,
         NEW u \in Users \union {None},
         NEW label \in {"assignByHand", "release"},
         Start(t, Request(label, c, u)),
         UNCHANGED <<chat, queue, timer, people, answered, mishap>>
  PROVE  IInv'
<1>1. PICK r : r = Request(label, c, u)
  OBVIOUS
<1>2. r \in Task /\ TaskOK(r)
  BY <1>1, RequestTask DEF Labels
<1>3. QED
  BY <1>1, <1>2, OnlyTask DEF Start

LEMMA ReleaseStep ==
  ASSUME IInv, NEW t \in Tasks, Release(t)
  PROVE  IInv'
<1>1. PICK label \in {"idle", "cron"} :
         SaveFresh(t, Released(chat[task[t].on]), label)
  BY DEF Release
<1>2. PICK m : m = Released(chat[task[t].on])
  OBVIOUS
<1>3. m \in Entity /\ m.assignedTo = None
  BY <1>2 DEF Released, Bot, Entity, Status
<1>4. Unheld(m, chat[task[t].on])
  BY <1>3 DEF Unheld
<1>5. PICK q : q = [task[t] EXCEPT !.at = "save", !.then = label,
                        !.mem = m, !.base = chat[task[t].on]]
  OBVIOUS
<1>6. label \in Labels \ {"save", "route", "pop"} /\ task[t].at = "release"
  BY DEF Labels, Release
<1>7. q \in Task /\ TaskOK(q)
  BY <1>3, <1>4, <1>5, <1>6, SavingFresh
<1>8. Desk' /\ \A c \in Contacts : Clean(c)' => Clean(c)
  BY DEF Release, IInv, TypeOK, Desk, people, Clean
<1>9. QED
  BY <1>1, <1>2, <1>5, <1>7, <1>8, OneTask DEF SaveFresh, Release

LEMMA CronStep ==
  ASSUME IInv, NEW t \in Tasks,
         \/ \E C \in SUBSET Contacts : CronStarts(t, C)
         \/ CronNext(t)
  PROVE  IInv'
<1>1. ASSUME NEW C \in SUBSET Contacts, CronStarts(t, C)
      PROVE  IInv'
  BY <1>1, CronTask, OnlyTask DEF CronStarts, Start
<1>2. CASE CronNext(t)
  <2>1. task[t] \in Task /\ TaskOK(task[t])
    BY TaskFacts
  <2>2. PICK c \in task[t].todo :
           Become(t, [task[t] EXCEPT !.at = "release", !.on = c,
                                     !.todo = @ \ {c}])
    BY <1>2 DEF CronNext
  <2>3. /\ c \in Contacts /\ task[t].todo \ {c} \in SUBSET Contacts
        /\ task[t].who \in Users \union {None}
    BY <2>1 DEF Task
  <2>4. PICK q : q = [task[t] EXCEPT !.at = "release", !.on = c,
                        !.who = task[t].who, !.todo = task[t].todo \ {c}]
    OBVIOUS
  <2>5. q = [task[t] EXCEPT !.at = "release", !.on = c, !.todo = @ \ {c}]
    BY <2>1, <2>4 DEF Task
  <2>6. q \in Task /\ TaskOK(q)
    BY <2>1, <2>3, <2>4, Turning DEF Labels
  <2>7. QED
    BY <1>2, <2>2, <2>5, <2>6, OnlyTask DEF CronNext
<1>3. QED
  BY <1>1, <1>2

LEMMA PopStep ==
  ASSUME IInv, NEW t \in Tasks, Pop(t)
  PROVE  IInv'
<1>1. /\ task[t].at = "pop" /\ task[t] \in Task /\ TaskOK(task[t])
      /\ queue \in Seq(Contacts)
      /\ UNCHANGED <<chat, timer, people, answered, mishap>>
  BY TaskFacts DEF Pop, IInv, TypeOK
<1>2. CASE End(t) /\ UNCHANGED queue
  BY <1>1, <1>2, Ending
<1>3. CASE /\ queue # <<>>
           /\ queue' = SubSeq(queue, 1, Len(queue) - 1)
           /\ Become(t, [task[t] EXCEPT !.at = "assign",
                                        !.on = queue[Len(queue)]])
  <2>1. queue[Len(queue)] \in Contacts /\ queue' \in Seq(Contacts)
    BY <1>1, <1>3
  <2>2. PICK c \in Contacts : c = queue[Len(queue)]
    BY <2>1
  <2>3. /\ task[t].todo \in SUBSET Contacts
        /\ task[t].who \in Users \union {None}
    BY <1>1 DEF Task
  <2>4. PICK q : q = [task[t] EXCEPT !.at = "assign", !.on = c,
                        !.who = task[t].who, !.todo = task[t].todo]
    OBVIOUS
  <2>5. q = [task[t] EXCEPT !.at = "assign", !.on = c]
    BY <1>1, <2>4 DEF Task
  <2>6. q \in Task /\ TaskOK(q)
    BY <1>1, <2>3, <2>4, Turning DEF Labels
  <2>7. Desk' /\ \A d \in Contacts : Clean(d)' => Clean(d)
    BY <1>1, <2>1 DEF IInv, TypeOK, Desk, people, Clean
  <2>8. QED
    BY <1>1, <1>3, <2>2, <2>5, <2>6, <2>7, OneTask
<1>4. QED
  BY <1>2, <1>3 DEF Pop

LEMMA ConnectStep ==
  ASSUME IInv, NEW t \in Tasks, NEW u \in Users, Connect(t, u)
  PROVE  IInv'
<1>1. Desk' /\ \A c \in Contacts : Clean(c)' => Clean(c)
  BY DEF Connect, IInv, TypeOK, Desk, Clean
<1>2. CASE u \in Agents
  <2>1. PICK r : r = Request("pop", None, u)
    OBVIOUS
  <2>2. r \in Task /\ TaskOK(r)
    BY <2>1, RequestTask DEF Labels
  <2>3. QED
    BY <1>1, <1>2, <2>1, <2>2, OneTask DEF Connect, Start
<1>3. CASE u \notin Agents
  <2>1. task[t] \in Task /\ TaskOK(task[t]) /\ Become(t, task[t])
    BY <1>3, TaskFacts DEF Connect, Become, IInv, TypeOK
  <2>2. QED
    BY <1>1, <2>1, OneTask DEF Connect
<1>4. QED
  BY <1>2, <1>3

\* A step that touches neither chats nor tasks.
LEMMA Around ==
  ASSUME IInv, UNCHANGED <<chat, task>>, Desk',
         \A c \in Contacts : Clean(c)' => Clean(c)
  PROVE  IInv'
<1>1. TypeOK'
  BY DEF IInv, TypeOK, Desk
<1>2. Onward
  BY DEF Onward, Exists
<1>3. TasksOK'
  <2>1. ASSUME NEW s \in Tasks
        PROVE  TaskOK(task[s])'
    <3>1. task'[s] \in Task /\ TaskOK(task'[s])
      BY DEF IInv, TypeOK, TasksOK
    <3>2. QED
      BY <1>2, <3>1 DEF TaskOK, Onward
  <2>2. QED
    BY <2>1 DEF TasksOK
<1>4. HeldOnlyWhenWithAgents'
  BY DEF IInv, HeldOnlyWhenWithAgents, Exists, Clean
<1>5. QED
  BY <1>1, <1>3, <1>4 DEF IInv

LEMMA EnvironmentStep ==
  ASSUME IInv, Environment
  PROVE  IInv'
<1>1. ASSUME NEW C, Mark(C, "fault")
      PROVE  /\ mishap' \in [Contacts -> Mishaps]
             /\ \A c \in Contacts : Clean(c)' => Clean(c)
  BY <1>1, Marking DEF IInv, TypeOK, Mishaps
<1>2. ASSUME NEW u \in Users, Disconnect(u) \/ RestoreUser(u)
      PROVE  IInv'
  <2>1. Desk' /\ UNCHANGED <<chat, task, mishap>>
    BY <1>2 DEF Disconnect, RestoreUser, IInv, TypeOK, Desk
  <2>2. QED
    BY <2>1, Around DEF Clean
<1>3. ASSUME NEW u \in Users, RemoveUser(u)
      PROVE  IInv'
  <2>1. /\ mishap' \in [Contacts -> Mishaps]
        /\ \A c \in Contacts : Clean(c)' => Clean(c)
    BY <1>1, <1>3 DEF RemoveUser
  <2>2. QED
    BY <1>3, <2>1, Around DEF RemoveUser, IInv, TypeOK, Desk
<1>4. ASSUME NEW c \in Contacts, NEW u \in Users,
             SendAgentMessage(c, u) \/ SendMediaMessage(c, u)
      PROVE  IInv'
  <2>1. /\ UNCHANGED <<chat, queue, people, task>>
        /\ timer' \in [Contacts -> Users \union {None}]
        /\ answered' \subseteq Contacts
        /\ Mark({c}, "fault") \/ UNCHANGED mishap
    BY <1>4 DEF SendAgentMessage, SendMediaMessage, IInv, TypeOK
  <2>2. /\ mishap' \in [Contacts -> Mishaps]
        /\ \A d \in Contacts : Clean(d)' => Clean(d)
    BY <1>1, <2>1 DEF IInv, TypeOK, Clean
  <2>3. QED
    BY <2>1, <2>2, Around DEF people, IInv, TypeOK, Desk
<1>5. CASE WhatsappDown \/ WhatsappUp
  <2>1. Desk' /\ UNCHANGED <<chat, task, mishap>>
    BY <1>5 DEF WhatsappDown, WhatsappUp, IInv, TypeOK, Desk
  <2>2. QED
    BY <2>1, Around DEF Clean
<1>6. CASE Crash
  BY <1>6, RestartStep DEF Crash
<1>7. QED
  BY <1>2, <1>3, <1>4, <1>5, <1>6 DEF Environment

-----------------------------------------------------------------------------
(***************************************************************************)
(* The invariant holds, and the theorems.                                  *)
(***************************************************************************)
LEMMA IInvInit == Init => IInv
<1> SUFFICES ASSUME Init
             PROVE  IInv
  OBVIOUS
<1>1. TypeOK
  BY IdleTask DEF Init, TypeOK, Mishaps
<1>2. TasksOK
  BY IdleTask DEF Init, TasksOK
<1>3. HeldOnlyWhenWithAgents
  BY DEF Init, HeldOnlyWhenWithAgents, Exists
<1>4. QED
  BY <1>1, <1>2, <1>3 DEF IInv

LEMMA IInvNext == IInv /\ [Next]_vars => IInv'
<1> SUFFICES ASSUME IInv, [Next]_vars
             PROVE  IInv'
  OBVIOUS
<1>1. ASSUME NEW t \in Tasks, Step(t)
      PROVE  IInv'
  <2>1. CASE Throws(t)
    BY <2>1, FailStep DEF Throws
  <2>2. CASE FindChat(t) \/ Save(t) \/ Route(t) \/ Flow(t)
    BY <2>2, FindChatStep, SaveStep, RouteStep, FlowStep
  <2>3. CASE Reply(t) \/ Apologise(t) \/ HandOff(t) \/ Note(t)
    BY <2>3, OtherMessageSteps
  <2>4. CASE AutoAssign(t) \/ Enqueue(t) \/ Assign(t) \/ Arm(t)
                \/ Reassign(t)
    BY <2>4, AutoAssignStep, EnqueueStep, AssignStep, ArmStep, ReassignStep
  <2>5. CASE Release(t) \/ CronNext(t) \/ Pop(t)
    BY <2>5, ReleaseStep, CronStep, PopStep
  <2>6. QED
    BY <1>1, <2>1, <2>2, <2>3, <2>4, <2>5 DEF Step
<1>2. ASSUME NEW t \in Tasks, Starts(t)
      PROVE  IInv'
  <2>1. ASSUME NEW c \in Contacts, Receive(t, c) \/ TimerFires(t, c)
        PROVE  IInv'
    BY <2>1, ReceiveStep, TimerFiresStep
  <2>2. ASSUME NEW c \in Contacts, ReleaseByHand(t, c)
        PROVE  IInv'
    BY <2>2, RequestStep DEF ReleaseByHand
  <2>3. ASSUME NEW c \in Contacts, NEW u \in Users, AssignByHand(t, c, u)
        PROVE  IInv'
    BY <2>3, RequestStep DEF AssignByHand
  <2>4. QED
    BY <1>2, <2>1, <2>2, <2>3, CronStep, ConnectStep DEF Starts
<1>3. CASE UNCHANGED vars
  <2>1. Desk' /\ UNCHANGED <<chat, task, mishap>>
    BY <1>3 DEF vars, IInv, TypeOK, Desk
  <2>2. QED
    BY <2>1, Around DEF Clean
<1>4. QED
  BY <1>1, <1>2, <1>3, EnvironmentStep DEF Next

LEMMA IInvHolds == Spec => []IInv
  BY IInvInit, IInvNext, PTL DEF Spec

\* The variables of the assignment desk keep their types.
THEOREM TypeCorrect == Spec => []TypeOK
<1>1. IInv => TypeOK
  BY DEF IInv
<1>2. QED
  BY <1>1, IInvHolds, PTL

\* A chat with the bot or closed belongs to no agent unless a handler saved
\* a stale copy of it (chat.service.ts:125-147, 299-396), for any number of
\* customers, users and handlers and whatever goes wrong.
THEOREM NoAgentAtRest == Spec => []HeldOnlyWhenWithAgents
<1>1. IInv => HeldOnlyWhenWithAgents
  BY DEF IInv
<1>2. QED
  BY <1>1, IInvHolds, PTL

-----------------------------------------------------------------------------
(***************************************************************************)
(* The message handlers of the desk keep to MessageDuty.                   *)
(*                                                                         *)
(* The invariant says where each kind of handler can be, and that beyond   *)
(* its first save a handler is about a chat that exists.                   *)
(***************************************************************************)
OnMessage == {"message", "try"}
DutyOf(r) == IF r.frame \in OnMessage THEN r.on ELSE None

\* Where a handler can be: the steps of the message handler are taken by
\* message handlers, those of the cron job, of releases and of connections
\* by others; beyond its first save a handler is about a chat that exists.
PlaceOK(r) ==
    /\ \/ r.at \in {"find", "route", "flow"}
       \/ r.at = "save" /\ r.then \in {"route", "flow"}
       => r.frame = "message"
    /\ \/ r.at \in {"cron", "release", "reassign", "pop"}
       \/ r.at = "save" /\ r.then \in {"cron", "idle"}
       => r.frame \notin OnMessage
    /\ \/ r.at \in {"route", "flow", "handoff", "apology", "autoAssign",
                    "enqueue", "assign", "release"}
       \/ r.at = "save" /\ r.then # "route"
       \/ r.frame = "try"
       => r.on \in Contacts /\ Exists(r.on)
    /\ r.at = "save" => r.then \notin {"find", "reassign", "release", "pop"}
    /\ \A c \in r.todo : Exists(c)

Places == \A t \in Tasks : PlaceOK(task[t])

\* A contact without a chat has one message handler at most.
Alone ==
    \A c \in Contacts : ~Exists(c) =>
       \A s, t \in Tasks : DutyOf(task[s]) = c /\ DutyOf(task[t]) = c => s = t

QueuedExist == \A k \in DOMAIN queue : Exists(queue[k])

DutyInv == Places /\ Alone /\ QueuedExist

\* A step of one handler that takes up no new duty.
Moves(t) ==
    /\ \A s \in Tasks \ {t} : task'[s] = task[s]
    /\ PlaceOK(task[t])'
    /\ DutyOf(task[t])' \in {DutyOf(task[t]), None}
    /\ \A c \in Contacts : Exists(c) => Exists(c)'
    /\ QueuedExist'

-----------------------------------------------------------------------------
(***************************************************************************)
(* Handlers, their places and their duty.                                  *)
(***************************************************************************)
LEMMA Becoming ==
  ASSUME IInv, NEW t \in Tasks, NEW r, Become(t, r)
  PROVE  task'[t] = r /\ \A s \in Tasks \ {t} : task'[s] = task[s]
  BY DEF IInv, TypeOK, Become

LEMMA IdlePlace == PlaceOK(Idle) /\ DutyOf(Idle) = None /\ PlaceOK(Idle)'
  BY DEF PlaceOK, DutyOf, Idle, OnMessage

\* The place of a handler stays right while others move.
LEMMA PlaceStays ==
  ASSUME NEW r \in Task, PlaceOK(r),
         \A c \in Contacts : Exists(c) => Exists(c)'
  PROVE  PlaceOK(r)'
  BY DEF PlaceOK, Task

LEMMA MovesKeep ==
  ASSUME IInv, DutyInv, NEW t \in Tasks, Moves(t)
  PROVE  DutyInv'
<1>1. Places'
  <2>1. ASSUME NEW s \in Tasks, s # t
        PROVE  PlaceOK(task[s])'
    <3>1. task'[s] = task[s] /\ task[s] \in Task /\ PlaceOK(task[s])
      BY <2>1 DEF Moves, IInv, TypeOK, DutyInv, Places
    <3>2. PICK r \in Task : r = task[s]
      BY <3>1
    <3>3. PlaceOK(r)'
      BY <3>1, <3>2, PlaceStays DEF Moves
    <3> QED
      BY <3>1, <3>2, <3>3
  <2> QED
    BY <2>1 DEF Places, Moves
<1>2. Alone'
  <2> SUFFICES ASSUME NEW c \in Contacts, ~Exists(c)',
                      NEW s \in Tasks, NEW u \in Tasks,
                      DutyOf(task[s])' = c, DutyOf(task[u])' = c
               PROVE  s = u
    BY DEF Alone
  <2>1. ~Exists(c) /\ c # None
    BY NullsAssumption DEF Moves
  <2>2. DutyOf(task[s]) = c /\ DutyOf(task[u]) = c
    BY <2>1 DEF Moves
  <2> QED
    BY <2>1, <2>2 DEF DutyInv, Alone
<1> QED
  BY <1>1, <1>2 DEF DutyInv, Moves

\* A step that leaves chats and queue alone moves its handler to a place
\* that is right already.
LEMMA MovesTo ==
  ASSUME IInv, DutyInv, NEW t \in Tasks, NEW r \in Task, Become(t, r),
         PlaceOK(r), DutyOf(r) \in {DutyOf(task[t]), None},
         UNCHANGED <<chat, queue>>
  PROVE  Moves(t)
<1>1. task'[t] = r /\ \A s \in Tasks \ {t} : task'[s] = task[s]
  BY Becoming
<1>2. PlaceOK(task'[t])
  BY <1>1
<1>3. PlaceOK(task[t])'
  BY <1>2 DEF PlaceOK, Exists
<1>4. DutyOf(task[t])' = DutyOf(r)
  BY <1>1 DEF DutyOf
<1>5. QueuedExist' /\ \A c \in Contacts : Exists(c) => Exists(c)'
  BY DEF DutyInv, QueuedExist, Exists
<1> QED
  BY <1>1, <1>3, <1>4, <1>5 DEF Moves

LEMMA MovesEnd ==
  ASSUME IInv, DutyInv, NEW t \in Tasks, End(t), UNCHANGED <<chat, queue>>
  PROVE  Moves(t)
  BY IdleTask, IdlePlace, MovesTo DEF End

\* The handler's chat, where it has one.
LEMMA PlaceFacts ==
  ASSUME IInv, DutyInv, NEW t \in Tasks
  PROVE  task[t] \in Task /\ TaskOK(task[t]) /\ PlaceOK(task[t])
  BY TaskFacts DEF DutyInv, Places

-----------------------------------------------------------------------------
(***************************************************************************)
(* Where each step leads.                                                  *)
(***************************************************************************)
\* A handler about to save, in the place of its own that it has now.
LEMMA SavesNext ==
  ASSUME IInv, DutyInv, NEW t \in Tasks,
         NEW q \in Task, q.at = "save", q.on = task[t].on,
         q.frame # task[t].frame => DutyOf(q) = DutyOf(task[t]),
         q.todo = task[t].todo,
         q.then = "route" => q.frame # "try",
         q.then # "route" => q.on \in Contacts /\ Exists(q.on),
         q.then \in {"route", "flow"} => q.frame = "message",
         q.then \in {"cron", "idle"} => q.frame \notin OnMessage,
         q.then \notin {"find", "reassign", "release", "pop"}
  PROVE  PlaceOK(q) /\ DutyOf(q) \in {DutyOf(task[t]), None}
<1>1. PlaceOK(q)
  BY PlaceFacts DEF PlaceOK, Task
<1>2. DutyOf(q) \in {DutyOf(task[t]), None}
  BY DEF DutyOf
<1> QED
  BY <1>1, <1>2

LEMMA SaveOwnMoves ==
  ASSUME IInv, DutyInv, IInv', NEW t \in Tasks,
         task[t].at \in {"route", "apology", "autoAssign"},
         NEW status \in Status, NEW label \in OwnSaves \ {"route"},
         label = "flow" => task[t].frame = "message",
         SaveOwn(t, status, label), UNCHANGED <<chat, queue>>
  PROVE  Moves(t)
<1>1. PICK r : r = task[t]
  OBVIOUS
<1>2. PICK q : q = [r EXCEPT !.at = "save", !.then = label, !.base = r.own,
                     !.mem = [status |-> status, assignedTo |-> r.kept]]
  OBVIOUS
<1>3. Become(t, q)
  BY <1>1, <1>2 DEF SaveOwn
<1>4. q \in Task
  BY <1>3, Becoming DEF IInv, TypeOK
<1>5. r \in Task /\ r.on \in Contacts /\ Exists(r.on)
  BY <1>1, PlaceFacts DEF PlaceOK
<1>6. /\ q.at = "save" /\ q.on = r.on /\ q.then = label
      /\ q.frame = r.frame /\ q.todo = r.todo
  BY <1>2, <1>5 DEF Task
<1>7. Exists(q.on) /\ q.on \in Contacts
  BY <1>5, <1>6
<1>8. q.then \in {"flow", "handoff", "autoAssign", "enqueue"}
      /\ (q.then = "flow" => q.frame = "message")
  BY <1>1, <1>6 DEF OwnSaves
<1>9. PlaceOK(q) /\ DutyOf(q) \in {DutyOf(task[t]), None}
  BY <1>1, <1>4, <1>6, <1>7, <1>8, SavesNext
<1> QED
  BY <1>3, <1>4, <1>9, MovesTo

LEMMA GotoMoves ==
  ASSUME IInv, DutyInv, IInv', NEW t \in Tasks, NEW label,
         label \in {"flow", "autoAssign", "note", "release", "thanks"},
         label \in {"flow", "autoAssign", "release"} =>
            task[t].on \in Contacts /\ Exists(task[t].on),
         label = "flow" => task[t].frame = "message",
         label = "release" => task[t].frame \notin OnMessage,
         Goto(t, label), UNCHANGED chat, QueuedExist'
  PROVE  Moves(t)
<1>1. PICK q : q = [task[t] EXCEPT !.at = label]
  OBVIOUS
<1>2. Become(t, q)
  BY <1>1 DEF Goto
<1>3. task[t] \in Task /\ PlaceOK(task[t])
  BY PlaceFacts
<1>4. /\ q.at = label /\ q.on = task[t].on /\ q.frame = task[t].frame
      /\ q.todo = task[t].todo
  BY <1>1, <1>3 DEF Task
<1>5. PlaceOK(q) /\ DutyOf(q) = DutyOf(task[t])
  BY <1>3, <1>4 DEF PlaceOK, DutyOf
<1>6. task'[t] = q /\ \A s \in Tasks \ {t} : task'[s] = task[s]
  BY <1>2, Becoming
<1>7. PlaceOK(task'[t])
  BY <1>5, <1>6
<1>8. PlaceOK(task[t])'
  BY <1>7 DEF PlaceOK, Exists
<1>9. DutyOf(task[t])' = DutyOf(q)
  BY <1>6 DEF DutyOf
<1> QED
  BY <1>5, <1>6, <1>8, <1>9 DEF Moves, Exists

LEMMA FindMoves ==
  ASSUME IInv, DutyInv, IInv', NEW t \in Tasks, FindChat(t)
  PROVE  Moves(t)
<1>1. PICK r : r = task[t]
  OBVIOUS
<1>2. PICK m : Become(t, [r EXCEPT !.at = "save", !.then = "route", !.mem = m,
                            !.base = chat[r.on], !.kept = m.assignedTo])
  BY <1>1 DEF FindChat
<1>3. PICK q : q = [r EXCEPT !.at = "save", !.then = "route", !.mem = m,
                      !.base = chat[r.on], !.kept = m.assignedTo]
  OBVIOUS
<1>4. Become(t, q) /\ UNCHANGED <<chat, queue>>
  BY <1>2, <1>3 DEF FindChat
<1>5. q \in Task
  BY <1>4, Becoming DEF IInv, TypeOK
<1>6. r \in Task /\ r.at = "find" /\ r.frame = "message"
  BY <1>1, PlaceFacts DEF FindChat, PlaceOK
<1>7. /\ q.at = "save" /\ q.on = r.on /\ q.then = "route"
      /\ q.frame = r.frame /\ q.todo = r.todo
  BY <1>3, <1>6 DEF Task
<1>8. PlaceOK(q) /\ DutyOf(q) \in {DutyOf(task[t]), None}
  BY <1>1, <1>5, <1>6, <1>7, SavesNext
<1> QED
  BY <1>4, <1>5, <1>8, MovesTo

LEMMA RouteMoves ==
  ASSUME IInv, DutyInv, IInv', NEW t \in Tasks, Route(t)
  PROVE  Moves(t)
<1>1. /\ task[t].at = "route" /\ task[t].frame = "message"
      /\ task[t].on \in Contacts /\ Exists(task[t].on)
      /\ UNCHANGED <<chat, queue>>
  BY PlaceFacts DEF Route, PlaceOK
<1>2. CASE SaveOwn(t, "PENDING_ASSIGNMENT", "autoAssign")
  BY <1>1, <1>2, SaveOwnMoves DEF Status, OwnSaves
<1>3. CASE SaveOwn(t, "AUTO_RESPONDER", "flow")
  BY <1>1, <1>3, SaveOwnMoves DEF Status, OwnSaves
<1>4. CASE End(t)
  BY <1>1, <1>4, MovesEnd
<1>5. CASE Goto(t, "flow")
  BY <1>1, <1>5, GotoMoves DEF DutyInv, QueuedExist, Exists
<1> QED
  BY <1>2, <1>3, <1>4, <1>5 DEF Route

LEMMA FlowMoves ==
  ASSUME IInv, DutyInv, IInv', NEW t \in Tasks, Flow(t)
  PROVE  Moves(t)
<1>1. PICK r : r = task[t]
  OBVIOUS
<1>2. /\ r \in Task /\ r.at = "flow" /\ r.frame = "message"
      /\ r.on \in Contacts /\ Exists(r.on)
      /\ \A c \in r.todo : Exists(c)
      /\ UNCHANGED <<chat, queue>>
  BY <1>1, PlaceFacts DEF Flow, PlaceOK
<1>3. CASE End(t)
  BY <1>2, <1>3, MovesEnd
<1>4. CASE Become(t, [[r EXCEPT !.frame = "try"] EXCEPT !.at = "reply"])
  <2>1. PICK q : q = [[r EXCEPT !.frame = "try"] EXCEPT !.at = "reply"]
    OBVIOUS
  <2>2. q \in Task
    BY <1>4, <2>1, Becoming DEF IInv, TypeOK
  <2>3. /\ q.at = "reply" /\ q.on = r.on /\ q.frame = "try"
        /\ q.todo = r.todo
    BY <1>2, <2>1 DEF Task
  <2>4. PlaceOK(q) /\ DutyOf(q) = DutyOf(task[t])
    BY <1>1, <1>2, <2>3 DEF PlaceOK, DutyOf, OnMessage
  <2> QED
    BY <1>2, <1>4, <2>1, <2>2, <2>4, MovesTo
<1>5. ASSUME NEW m, NEW label \in {"reply", "thanks", "handoff"}, NEW base,
             NEW q, Become(t, q),
             q = [[r EXCEPT !.frame = "try"] EXCEPT !.at = "save",
                     !.then = label, !.mem = m, !.base = base]
      PROVE  Moves(t)
  <2>1. q \in Task
    BY <1>5, Becoming DEF IInv, TypeOK
  <2>2. /\ q.at = "save" /\ q.on = r.on /\ q.frame = "try" /\ q.then = label
        /\ q.todo = r.todo
    BY <1>2, <1>5 DEF Task
  <2>3. DutyOf(q) = DutyOf(task[t]) /\ Exists(q.on) /\ q.on \in Contacts
    BY <1>1, <1>2, <2>2 DEF DutyOf, OnMessage
  <2>4. PlaceOK(q) /\ DutyOf(q) \in {DutyOf(task[t]), None}
    BY <1>1, <1>2, <2>1, <2>2, <2>3, SavesNext DEF Exists
  <2> QED
    BY <1>2, <1>5, <2>1, <2>4, MovesTo
<1>6. PICK f : f = [r EXCEPT !.frame = "try"]
  OBVIOUS
<1> DEFINE Saving(m, label) ==
             [f EXCEPT !.at = "save", !.then = label, !.mem = m,
                       !.base = chat[f.on]]
           active == [status |-> "ACTIVE", assignedTo |-> r.kept]
<1>7. f.kept = r.kept /\ f.own = r.own
  BY <1>2, <1>6 DEF Task
<1>8. CASE Become(t, Saving([chat[f.on] EXCEPT !.assignedTo = Undefined],
                            "reply"))
  BY <1>5, <1>6, <1>8
<1>9. CASE Become(t, Saving(Closed(chat[f.on]), "thanks"))
  BY <1>5, <1>6, <1>9
<1>10. CASE Become(t, [Saving(active, "handoff") EXCEPT !.base = f.own])
  <2>1. [Saving(active, "handoff") EXCEPT !.base = f.own]
          = [f EXCEPT !.at = "save", !.then = "handoff", !.mem = active,
                      !.base = f.own]
    BY <1>2, <1>6 DEF Task
  <2> QED
    BY <1>5, <1>6, <1>10, <2>1
<1> QED
  BY <1>1, <1>3, <1>4, <1>6, <1>7, <1>8, <1>9, <1>10 DEF Flow

LEMMA OtherMessageMoves ==
  ASSUME IInv, DutyInv, IInv', NEW t \in Tasks,
         Reply(t) \/ Apologise(t) \/ HandOff(t) \/ Note(t)
  PROVE  Moves(t)
<1>1. PlaceOK(task[t]) /\ UNCHANGED <<chat, queue>> /\ QueuedExist'
  BY PlaceFacts
  DEF Reply, Apologise, HandOff, Note, DutyInv, QueuedExist, Exists
<1>2. CASE Reply(t) \/ Note(t)
  BY <1>1, <1>2, MovesEnd DEF Reply, Note
<1>3. CASE Apologise(t)
  BY <1>1, <1>3, SaveOwnMoves DEF Apologise, OwnSaves, Status
<1>4. CASE HandOff(t)
  BY <1>1, <1>4, GotoMoves DEF HandOff, PlaceOK
<1> QED
  BY <1>2, <1>3, <1>4

\* A handler that goes on about a user or a chat that exists.
LEMMA TurnMoves ==
  ASSUME IInv, DutyInv, IInv', NEW t \in Tasks, NEW q, Become(t, q),
         q.at \in {"assign", "release"}, q.on \in Contacts, Exists(q.on),
         q.frame = task[t].frame, q.todo \subseteq task[t].todo,
         q.on = task[t].on \/ task[t].frame \notin OnMessage,
         q.at = "release" => task[t].frame \notin OnMessage,
         UNCHANGED chat, QueuedExist'
  PROVE  Moves(t)
<1>1. PlaceOK(q)
  BY PlaceFacts DEF PlaceOK
<1>2. DutyOf(q) \in {DutyOf(task[t]), None}
  BY DEF DutyOf
<1>3. task'[t] = q /\ \A s \in Tasks \ {t} : task'[s] = task[s]
  BY Becoming
<1>4. PlaceOK(task'[t])
  BY <1>1, <1>3
<1>5. PlaceOK(task[t])'
  BY <1>4 DEF PlaceOK, Exists
<1>6. DutyOf(task[t])' = DutyOf(q)
  BY <1>3 DEF DutyOf
<1> QED
  BY <1>2, <1>3, <1>5, <1>6 DEF Moves, Exists

LEMMA QueueStays ==
  ASSUME DutyInv, UNCHANGED <<chat, queue>>
  PROVE  QueuedExist'
  BY DEF DutyInv, QueuedExist, Exists

LEMMA AutoAssignMoves ==
  ASSUME IInv, DutyInv, IInv', NEW t \in Tasks, AutoAssign(t)
  PROVE  Moves(t)
<1>1. /\ task[t].at = "autoAssign" /\ task[t] \in Task
      /\ task[t].on \in Contacts /\ Exists(task[t].on)
      /\ UNCHANGED <<chat, queue>> /\ QueuedExist'
  BY PlaceFacts, QueueStays DEF AutoAssign, PlaceOK
<1>2. CASE QueueUp(t)
  BY <1>1, <1>2, SaveOwnMoves DEF QueueUp, Status, OwnSaves
<1>3. CASE \E a \in LeastLoaded(OnlineAgents) :
              Become(t, [task[t] EXCEPT !.at = "assign", !.who = a])
  <2>1. PICK a : Become(t, [task[t] EXCEPT !.at = "assign", !.who = a])
    BY <1>3
  <2>2. PICK q : q = [task[t] EXCEPT !.at = "assign", !.who = a]
    OBVIOUS
  <2>3. /\ q.at = "assign" /\ q.on = task[t].on /\ q.frame = task[t].frame
        /\ q.todo = task[t].todo
    BY <1>1, <2>2 DEF Task
  <2> QED
    BY <1>1, <2>1, <2>2, <2>3, TurnMoves
<1>4. CASE End(t)
  BY <1>1, <1>4, MovesEnd
<1> QED
  BY <1>2, <1>3, <1>4 DEF AutoAssign

LEMMA EnqueueMoves ==
  ASSUME IInv, DutyInv, IInv', NEW t \in Tasks, Enqueue(t)
  PROVE  Moves(t)
<1>1. /\ task[t].on \in Contacts /\ Exists(task[t].on)
      /\ UNCHANGED chat /\ Goto(t, "note")
      /\ queue \in Seq(Contacts) /\ queue' = <<task[t].on>> \o queue
  BY PlaceFacts DEF Enqueue, PlaceOK, IInv, TypeOK
<1>2. \A k \in DOMAIN queue' : queue'[k] = task[t].on
                               \/ \E j \in DOMAIN queue : queue'[k] = queue[j]
  BY <1>1
<1>3. QueuedExist'
  BY <1>1, <1>2 DEF DutyInv, QueuedExist, Exists
<1> QED
  BY <1>1, <1>3, GotoMoves

LEMMA SaveFreshMoves ==
  ASSUME IInv, DutyInv, IInv', NEW t \in Tasks, NEW m,
         NEW label \in {"arm", "cron", "idle"},
         SaveFresh(t, m, label), UNCHANGED <<chat, queue>>,
         task[t].at \notin {"idle", "pop", "cron"},
         task[t].on \in Contacts, Exists(task[t].on),
         label = "arm" \/ task[t].frame \notin OnMessage
  PROVE  Moves(t)
<1>1. PICK r : r = task[t]
  OBVIOUS
<1>2. PICK q : q = [r EXCEPT !.at = "save", !.then = label, !.mem = m,
                             !.base = chat[r.on]]
  OBVIOUS
<1>3. Become(t, q)
  BY <1>1, <1>2 DEF SaveFresh
<1>4. q \in Task
  BY <1>3, Becoming DEF IInv, TypeOK
<1>5. r \in Task
  BY <1>1, PlaceFacts
<1>6. /\ q.at = "save" /\ q.on = r.on /\ q.then = label
      /\ q.frame = r.frame /\ q.todo = r.todo
  BY <1>2, <1>5 DEF Task
<1>7. Exists(q.on) /\ q.on \in Contacts
  BY <1>1, <1>6
<1>8. PlaceOK(q) /\ DutyOf(q) \in {DutyOf(task[t]), None}
  BY <1>1, <1>4, <1>6, <1>7, SavesNext
<1> QED
  BY <1>3, <1>4, <1>8, MovesTo

\* An exception ends the handler or leads to the apology or the next chat
\* of the cron job, unless it ends the process.
LEMMA FailMoves ==
  ASSUME IInv, DutyInv, IInv', NEW t \in Tasks, Fail(t)
  PROVE  Moves(t) \/ Restart
<1>1. PICK r : r = task[t]
  OBVIOUS
<1>2. /\ r \in Task /\ PlaceOK(r)
      /\ r.frame = "try" => r.on \in Contacts /\ Exists(r.on)
      /\ \A c \in r.todo : Exists(c)
  BY <1>1, PlaceFacts DEF PlaceOK
<1>3. CASE r.frame = "try" /\ r.at = "save" /\ r.then = "thanks"
  <2>1. Goto(t, "thanks") /\ UNCHANGED <<chat, queue>>
    BY <1>1, <1>3 DEF Fail
  <2> QED
    BY <2>1, GotoMoves, QueueStays
<1>4. CASE r.frame = "try" /\ ~(r.at = "save" /\ r.then = "thanks")
  <2>1. PICK q : q = [r EXCEPT !.at = "apology", !.frame = "message"]
    OBVIOUS
  <2>2. Become(t, q) /\ UNCHANGED <<chat, queue>>
    BY <1>1, <1>4, <2>1 DEF Fail
  <2>3. q \in Task
    BY <2>2, Becoming DEF IInv, TypeOK
  <2>4. /\ q.at = "apology" /\ q.frame = "message" /\ q.on = r.on
        /\ q.todo = r.todo
    BY <1>2, <2>1 DEF Task
  <2>5. PlaceOK(q) /\ DutyOf(q) = DutyOf(task[t])
    BY <1>1, <1>2, <1>4, <2>4 DEF PlaceOK, DutyOf, OnMessage
  <2> QED
    BY <2>2, <2>3, <2>5, MovesTo
<1>5. CASE r.frame = "timer"
  BY <1>1, <1>5 DEF Fail
<1>6. CASE r.frame \notin {"try", "timer"}
  <2>1. PICK q : q = IF r.todo # {}
                     THEN [Idle EXCEPT !.at = "cron", !.todo = r.todo]
                     ELSE Idle
    OBVIOUS
  <2>2. Become(t, q) /\ UNCHANGED <<chat, queue>>
    BY <1>1, <1>6, <2>1 DEF Fail
  <2>3. q \in Task
    BY <2>2, Becoming DEF IInv, TypeOK
  <2>4. PlaceOK(q) /\ DutyOf(q) = None
    BY <1>2, <2>1 DEF PlaceOK, DutyOf, Idle, OnMessage
  <2> QED
    BY <2>2, <2>3, <2>4, MovesTo
<1> QED
  BY <1>3, <1>4, <1>5, <1>6

LEMMA AssignMoves ==
  ASSUME IInv, DutyInv, IInv', NEW t \in Tasks, Assign(t)
  PROVE  Moves(t) \/ Restart
<1>1. PlaceOK(task[t]) /\ TaskOK(task[t])
  BY PlaceFacts
<1> DEFINE m == [status |-> "ACTIVE", assignedTo |-> task[t].who]
<1>2. CASE /\ task[t].at \in {"assign", "assignByHand"}
           /\ task[t].at = "assignByHand" => Exists(task[t].on)
           /\ SaveFresh(t, m, "arm") /\ UNCHANGED <<chat, queue>>
  <2>1. task[t].on \in Contacts /\ Exists(task[t].on)
    BY <1>1, <1>2 DEF PlaceOK, TaskOK
  <2> QED
    BY <1>2, <2>1, SaveFreshMoves
<1>3. CASE Fail(t)
  BY <1>3, FailMoves
<1>4. CASE End(t) /\ UNCHANGED <<chat, queue>>
  BY <1>4, MovesEnd
<1> QED
  BY <1>2, <1>3, <1>4 DEF Assign

LEMMA ReassignMoves ==
  ASSUME IInv, DutyInv, IInv', NEW t \in Tasks, Reassign(t)
  PROVE  Moves(t)
<1>1. /\ task[t].at = "reassign" /\ task[t] \in Task
      /\ task[t].on \in Contacts /\ task[t].frame \notin OnMessage
      /\ UNCHANGED <<chat, queue>> /\ QueuedExist'
  BY PlaceFacts, QueueStays DEF Reassign, PlaceOK, TaskOK
<1>2. CASE End(t)
  BY <1>1, <1>2, MovesEnd
<1>3. CASE /\ IsActive(task[t].on)
           /\ \E a \in LeastLoaded(OnlineAgents \ {task[t].who}) :
                 Become(t, [task[t] EXCEPT !.at = "assign", !.who = a])
  <2>1. PICK a : Become(t, [task[t] EXCEPT !.at = "assign", !.who = a])
    BY <1>3
  <2>2. PICK q : q = [task[t] EXCEPT !.at = "assign", !.who = a]
    OBVIOUS
  <2>3. /\ q.at = "assign" /\ q.on = task[t].on /\ q.frame = task[t].frame
        /\ q.todo = task[t].todo /\ Exists(q.on)
    BY <1>1, <1>3, <2>2 DEF Task, IsActive
  <2> QED
    BY <1>1, <2>1, <2>2, <2>3, TurnMoves
<1>4. CASE IsActive(task[t].on) /\ Goto(t, "release")
  BY <1>1, <1>4, GotoMoves DEF IsActive
<1> QED
  BY <1>2, <1>3, <1>4 DEF Reassign

LEMMA ReleaseMoves ==
  ASSUME IInv, DutyInv, IInv', NEW t \in Tasks, Release(t)
  PROVE  Moves(t)
<1>1. /\ task[t].at = "release" /\ task[t].frame \notin OnMessage
      /\ task[t].on \in Contacts /\ Exists(task[t].on)
      /\ UNCHANGED <<chat, queue>>
  BY PlaceFacts DEF Release, PlaceOK
<1>2. PICK label \in {"idle", "cron"} :
         SaveFresh(t, Released(chat[task[t].on]), label)
  BY DEF Release
<1> QED
  BY <1>1, <1>2, SaveFreshMoves

LEMMA CronMoves ==
  ASSUME IInv, DutyInv, IInv', NEW t \in Tasks, CronNext(t)
  PROVE  Moves(t)
<1>1. /\ task[t].at = "cron" /\ task[t] \in Task
      /\ task[t].frame \notin OnMessage /\ task[t].todo \subseteq Contacts
      /\ \A c \in task[t].todo : Exists(c)
      /\ UNCHANGED <<chat, queue>> /\ QueuedExist'
  BY PlaceFacts, QueueStays DEF CronNext, PlaceOK, Task
<1>2. PICK c \in task[t].todo :
         Become(t, [task[t] EXCEPT !.at = "release", !.on = c,
                                   !.todo = @ \ {c}])
  BY DEF CronNext
<1>3. PICK q : q = [task[t] EXCEPT !.at = "release", !.on = c,
                                   !.todo = @ \ {c}]
  OBVIOUS
<1>4. /\ q.at = "release" /\ q.on = c /\ q.frame = task[t].frame
      /\ q.todo \subseteq task[t].todo
  BY <1>1, <1>3 DEF Task
<1>5. q.on \in Contacts /\ Exists(q.on)
  BY <1>1, <1>2, <1>4
<1> QED
  BY <1>1, <1>2, <1>3, <1>4, <1>5, TurnMoves

LEMMA PopMoves ==
  ASSUME IInv, DutyInv, IInv', NEW t \in Tasks, Pop(t)
  PROVE  Moves(t)
<1>1. /\ task[t].at = "pop" /\ task[t] \in Task
      /\ task[t].frame \notin OnMessage /\ queue \in Seq(Contacts)
      /\ UNCHANGED chat
  BY PlaceFacts DEF Pop, PlaceOK, IInv, TypeOK
<1>2. CASE End(t) /\ UNCHANGED queue
  BY <1>1, <1>2, MovesEnd
<1>3. CASE /\ queue # <<>>
           /\ queue' = SubSeq(queue, 1, Len(queue) - 1)
           /\ Become(t, [task[t] EXCEPT !.at = "assign",
                                        !.on = queue[Len(queue)]])
  <2>1. Len(queue) \in DOMAIN queue
    BY <1>1, <1>3
  <2>2. PICK c \in Contacts : c = queue[Len(queue)] /\ Exists(c)
    BY <1>1, <2>1 DEF DutyInv, QueuedExist
  <2>3. \A k \in DOMAIN queue' : k \in DOMAIN queue /\ queue'[k] = queue[k]
    BY <1>1, <1>3
  <2>4. QueuedExist'
    BY <1>1, <2>3 DEF DutyInv, QueuedExist, Exists
  <2>5. PICK q : q = [task[t] EXCEPT !.at = "assign", !.on = c]
    OBVIOUS
  <2>6. /\ q.at = "assign" /\ q.on = c /\ q.frame = task[t].frame
        /\ q.todo = task[t].todo
    BY <1>1, <2>5 DEF Task
  <2>7. Become(t, q) /\ q.on \in Contacts /\ Exists(q.on)
    BY <1>3, <2>2, <2>5, <2>6
  <2> QED
    BY <1>1, <2>4, <2>6, <2>7, TurnMoves
<1> QED
  BY <1>2, <1>3 DEF Pop

\* A save leaves its chat in place, and the message handler on duty.
LEMMA SaveRow ==
  ASSUME IInv, NEW t \in Tasks, Save(t)
  PROVE  /\ task[t].at = "save" /\ task[t].on \in Contacts
         /\ chat'[task[t].on] \in Row
         /\ \A c \in Contacts \ {task[t].on} : chat'[c] = chat[c]
         /\ chat'[task[t].on] # None
         /\ \A c \in Contacts : Exists(c) => Exists(c)'
         /\ UNCHANGED <<queue, timer, people>>
<1>1. /\ task[t].at = "save" /\ task[t] \in Task /\ task[t].on \in Contacts
      /\ chat[task[t].on] \in Row \union {None}
  BY TaskFacts DEF Save
<1>2. /\ chat' = [chat EXCEPT ![task[t].on] =
                     Merge(task[t].mem, chat[task[t].on])]
      /\ UNCHANGED <<queue, timer, people>>
  BY DEF Save
<1>3. Merge(task[t].mem, chat[task[t].on]) \in Row
  BY <1>1, Merging DEF Task
<1>4. /\ chat'[task[t].on] = Merge(task[t].mem, chat[task[t].on])
      /\ \A c \in Contacts \ {task[t].on} : chat'[c] = chat[c]
  BY <1>1, <1>2 DEF IInv, TypeOK
<1>5. chat'[task[t].on] # None
  BY <1>3, <1>4, NullRowAssumption
<1>6. \A c \in Contacts : Exists(c) => Exists(c)'
  BY <1>4, <1>5 DEF Exists
<1> QED
  BY <1>1, <1>2, <1>3, <1>4, <1>5, <1>6

\* After a save the handler ends or goes on where it was to.
LEMMA SaveLeadsTo ==
  ASSUME IInv, NEW t \in Tasks, Save(t)
  PROVE  /\ \A s \in Tasks \ {t} : task'[s] = task[s]
         /\ task[t].then = "idle" => task'[t] = Idle
         /\ task[t].then # "idle" =>
               /\ task'[t].at = task[t].then
               /\ task'[t].on = task[t].on
               /\ task'[t].frame = task[t].frame
               /\ task'[t].todo = task[t].todo
               /\ task'[t].kept = task[t].kept
               /\ task'[t].who = task[t].who
               /\ task'[t].own = IF task[t].then \in OwnSaves
                                 THEN chat'[task[t].on] ELSE task[t].own
<1>1. PICK r \in Task : r = task[t] /\ r.on \in Contacts
  BY TaskFacts, SaveRow
<1>2. PICK row : row = Merge(r.mem, chat[r.on])
  OBVIOUS
<1>3. PICK q : q = [r EXCEPT !.at = r.then, !.then = "idle", !.mem = Bot,
                       !.base = None,
                       !.own = IF r.then \in OwnSaves THEN row ELSE @]
  OBVIOUS
<1>4. Become(t, IF r.then = "idle" THEN Idle ELSE q)
  BY <1>1, <1>2, <1>3 DEF Save
<1>5. chat'[r.on] = row
  BY <1>1, <1>2 DEF Save, IInv, TypeOK
<1>6. /\ q.at = r.then /\ q.on = r.on /\ q.frame = r.frame
      /\ q.todo = r.todo /\ q.kept = r.kept /\ q.who = r.who
      /\ q.own = IF r.then \in OwnSaves THEN row ELSE r.own
  BY <1>1, <1>3 DEF Task
<1>7. /\ task'[t] = IF r.then = "idle" THEN Idle ELSE q
      /\ \A s \in Tasks \ {t} : task'[s] = task[s]
  BY <1>4, Becoming
<1> QED
  BY <1>1, <1>5, <1>6, <1>7

LEMMA SaveMoves ==
  ASSUME IInv, DutyInv, NEW t \in Tasks, Save(t)
  PROVE  Moves(t)
<1>1. PICK r \in Task : r = task[t] /\ PlaceOK(r) /\ TaskOK(r)
  BY PlaceFacts
<1>2. PICK q : q = task'[t]
  OBVIOUS
<1>3. /\ r.at = "save" /\ r.on \in Contacts /\ Exists(r.on)'
      /\ \A c \in Contacts : Exists(c) => Exists(c)'
      /\ UNCHANGED queue
  BY <1>1, SaveRow DEF Exists
<1>4. PlaceOK(r)'
  BY <1>1, <1>3, PlaceStays
<1>5. PlaceOK(q)' /\ DutyOf(q) \in {DutyOf(r), None}
  <2>1. CASE r.then = "idle"
    BY <1>1, <1>2, <2>1, SaveLeadsTo, IdlePlace
  <2>2. CASE r.then # "idle"
    <3>1. /\ q.at = r.then /\ q.on = r.on /\ q.frame = r.frame
          /\ q.todo = r.todo
      BY <1>1, <1>2, <2>2, SaveLeadsTo
    <3>2. DutyOf(q) = DutyOf(r)
      BY <3>1 DEF DutyOf
    <3>3. /\ r.then \notin {"save", "find", "reassign", "release", "pop"}
          /\ r.then \in {"route", "flow"} => r.frame = "message"
          /\ r.then = "cron" => r.frame \notin OnMessage
          /\ \A c \in r.todo : Exists(c)'
      BY <1>1, <1>3, <1>4 DEF PlaceOK, TaskOK
    <3>4. PlaceOK(q)'
      BY <1>3, <3>1, <3>3 DEF PlaceOK
    <3> QED
      BY <3>2, <3>4
  <2> QED
    BY <2>1, <2>2
<1>6. QueuedExist'
  <2>1. \A k \in DOMAIN queue : queue[k] \in Contacts
    BY DEF IInv, TypeOK
  <2> QED
    BY <1>3, <2>1 DEF DutyInv, QueuedExist
<1>7. PlaceOK(task[t])' /\ DutyOf(task[t])' = DutyOf(q)
  BY <1>2, <1>5 DEF DutyOf
<1> QED
  BY <1>1, <1>3, <1>5, <1>6, <1>7, SaveLeadsTo DEF Moves

-----------------------------------------------------------------------------
(***************************************************************************)
(* New handlers, and what happens around them.                             *)
(***************************************************************************)
LEMMA StartMoves ==
  ASSUME IInv, DutyInv, IInv', NEW t \in Tasks, NEW q, Start(t, q),
         q.frame \notin OnMessage,
         q.at \in {"assignByHand", "pop", "cron", "reassign", "release"},
         q.at = "release" => q.on \in Contacts /\ Exists(q.on),
         q.todo \subseteq Contacts, \A c \in q.todo : Exists(c),
         UNCHANGED <<chat, queue>>
  PROVE  Moves(t)
<1>1. PlaceOK(q) /\ DutyOf(q) = None
  BY DEF PlaceOK, DutyOf, OnMessage
<1>2. Become(t, q) /\ q \in Task
  BY Becoming DEF Start, IInv, TypeOK
<1> QED
  BY <1>1, <1>2, MovesTo

LEMMA StartsMove ==
  ASSUME IInv, DutyInv, IInv', NEW t \in Tasks, Starts(t)
  PROVE  Moves(t) \/ \E c \in Contacts : Receive(t, c)
<1>1. ASSUME NEW c \in Contacts, ReleaseByHand(t, c)
      PROVE  Moves(t)
  <2>1. PICK q : q = Request("release", c, None)
    OBVIOUS
  <2>2. q.at = "release" /\ q.on = c /\ q.frame = "none" /\ q.todo = {}
    BY <2>1 DEF Request, Idle
  <2> QED
    BY <1>1, <2>1, <2>2, StartMoves DEF ReleaseByHand, OnMessage
<1>2. ASSUME NEW c \in Contacts, TimerFires(t, c)
      PROVE  Moves(t)
  <2>1. PICK q : q = [Request("reassign", c, timer[c]) EXCEPT
                         !.frame = "timer"]
    OBVIOUS
  <2>2. q.at = "reassign" /\ q.frame = "timer" /\ q.todo = {}
    BY <2>1 DEF Request, Idle
  <2> QED
    BY <1>2, <2>1, <2>2, StartMoves DEF TimerFires, OnMessage
<1>3. ASSUME NEW c \in Contacts, NEW u \in Users, AssignByHand(t, c, u)
      PROVE  Moves(t)
  <2>1. PICK q : q = Request("assignByHand", c, u)
    OBVIOUS
  <2>2. q.at = "assignByHand" /\ q.frame = "none" /\ q.todo = {}
    BY <2>1 DEF Request, Idle
  <2> QED
    BY <1>3, <2>1, <2>2, StartMoves DEF AssignByHand, OnMessage
<1>4. ASSUME NEW C \in SUBSET Contacts, CronStarts(t, C)
      PROVE  Moves(t)
  <2>1. PICK q : q = [Idle EXCEPT !.at = "cron", !.todo = C]
    OBVIOUS
  <2>2. q.at = "cron" /\ q.frame = "none" /\ q.todo = C
    BY <2>1 DEF Idle
  <2> QED
    BY <1>4, <2>1, <2>2, StartMoves DEF CronStarts, OnMessage, IsActive
<1>5. ASSUME NEW u \in Users, Connect(t, u)
      PROVE  Moves(t)
  <2>1. UNCHANGED <<chat, queue>>
    BY <1>5 DEF Connect
  <2>2. CASE u \in Agents
    <3>1. PICK q : q = Request("pop", None, u)
      OBVIOUS
    <3>2. q.at = "pop" /\ q.frame = "none" /\ q.todo = {}
      BY <3>1 DEF Request, Idle
    <3> QED
      BY <1>5, <2>1, <2>2, <3>1, <3>2, StartMoves DEF Connect, OnMessage
  <2>3. CASE u \notin Agents
    <3>1. task[t] \in Task /\ PlaceOK(task[t]) /\ Become(t, task[t])
      BY <1>5, <2>3, PlaceFacts DEF Connect, Become, IInv, TypeOK
    <3> QED
      BY <2>1, <3>1, MovesTo
  <2> QED
    BY <2>2, <2>3
<1> QED
  BY <1>1, <1>2, <1>3, <1>4, <1>5 DEF Starts

\* A message is taken only without another handler, or for a chat that
\* exists.
LEMMA ReceiveDuty ==
  ASSUME IInv, NEW t \in Tasks, NEW c \in Contacts, Receive(t, c)
  PROVE  /\ UNCHANGED <<chat, queue>>
         /\ DutyOf(task[t]) = None /\ DutyOf(task[t])' = c
         /\ \A s \in Tasks \ {t} : task'[s] = task[s]
         /\ PlaceOK(task[t])'
         /\ Exists(c) \/ \A s \in Tasks : DutyOf(task[s]) # c
<1>1. PICK q : q = [Request("find", c, None) EXCEPT !.frame = "message"]
  OBVIOUS
<1>2. /\ q.at = "find" /\ q.frame = "message" /\ q.on = c /\ q.todo = {}
      /\ DutyOf(q) = c
  BY <1>1 DEF Request, Idle, DutyOf, OnMessage
<1>3. /\ Become(t, q) /\ task[t] = Idle /\ UNCHANGED <<chat, queue>>
      /\ HandlersOf(c) # {} => Exists(c)
  BY <1>1 DEF Receive, Start
<1>4. task'[t] = q /\ \A s \in Tasks \ {t} : task'[s] = task[s]
  BY <1>3, Becoming
<1>5. PlaceOK(task[t])'
  BY <1>2, <1>4 DEF PlaceOK
<1>6. ASSUME ~Exists(c), NEW s \in Tasks, DutyOf(task[s]) = c
      PROVE  FALSE
  BY <1>3, <1>6, NullsAssumption DEF HandlersOf, DutyOf, OnMessage
<1> QED
  BY <1>2, <1>3, <1>4, <1>5, <1>6, IdlePlace DEF DutyOf

LEMMA ReceiveKeeps ==
  ASSUME IInv, DutyInv, NEW t \in Tasks, NEW c \in Contacts, Receive(t, c)
  PROVE  DutyInv'
<1>1. /\ UNCHANGED <<chat, queue>> /\ DutyOf(task[t])' = c
      /\ \A s \in Tasks \ {t} : task'[s] = task[s]
      /\ PlaceOK(task[t])'
      /\ Exists(c) \/ \A s \in Tasks : DutyOf(task[s]) # c
  BY ReceiveDuty
<1>2. Places'
  <2>1. ASSUME NEW s \in Tasks, s # t
        PROVE  PlaceOK(task[s])'
    BY <1>1, <2>1 DEF DutyInv, Places, PlaceOK, Exists
  <2> QED
    BY <1>1, <2>1 DEF Places
<1>3. Alone'
  <2>1. \A s \in Tasks \ {t} : DutyOf(task[s])' = DutyOf(task[s])
    BY <1>1 DEF DutyOf
  <2>2. \A d \in Contacts : Exists(d)' <=> Exists(d)
    BY <1>1 DEF Exists
  <2> QED
    BY <1>1, <2>1, <2>2 DEF DutyInv, Alone
<1> QED
  BY <1>1, <1>2, <1>3, QueueStays DEF DutyInv

LEMMA RestartDuty ==
  ASSUME IInv, DutyInv, Restart
  PROVE  DutyInv' /\ UNCHANGED <<chat, queue>>
                  /\ \A t \in Tasks : DutyOf(task[t])' = None
<1>1. UNCHANGED <<chat, queue>> /\ \A t \in Tasks : task'[t] = Idle
  BY DEF Restart
<1>2. \A t \in Tasks : DutyOf(task[t])' = None /\ PlaceOK(task[t])'
  BY <1>1, IdlePlace DEF DutyOf, PlaceOK
<1> QED
  BY <1>1, <1>2, QueueStays, NullsAssumption
  DEF DutyInv, Places, Alone

LEMMA StillDuty ==
  ASSUME DutyInv, UNCHANGED <<chat, queue, task>>
  PROVE  DutyInv'
  BY DEF DutyInv, Places, PlaceOK, Alone, DutyOf, QueuedExist, Exists

\* Every step but the receiving of a message and a restart.
LEMMA StepMoves ==
  ASSUME IInv, DutyInv, IInv', NEW t \in Tasks, Step(t)
  PROVE  Moves(t) \/ Restart
<1>1. CASE Throws(t)
  BY <1>1, FailMoves DEF Throws
<1>2. CASE FindChat(t) \/ Save(t) \/ Route(t) \/ Flow(t)
  BY <1>2, FindMoves, SaveMoves, RouteMoves, FlowMoves
<1>3. CASE Reply(t) \/ Apologise(t) \/ HandOff(t) \/ Note(t)
  BY <1>3, OtherMessageMoves
<1>4. CASE AutoAssign(t) \/ Enqueue(t) \/ Assign(t) \/ Reassign(t)
  BY <1>4, AutoAssignMoves, EnqueueMoves, AssignMoves, ReassignMoves
<1>5. CASE Arm(t)
  BY <1>5, MovesEnd DEF Arm
<1>6. CASE Release(t) \/ CronNext(t) \/ Pop(t)
  BY <1>6, ReleaseMoves, CronMoves, PopMoves
<1> QED
  BY <1>1, <1>2, <1>3, <1>4, <1>5, <1>6 DEF Step

LEMMA AroundDuty ==
  ASSUME IInv, Environment \/ UNCHANGED vars
  PROVE  Restart \/ UNCHANGED <<chat, queue, task>>
  BY DEF Environment, Disconnect, RemoveUser, RestoreUser, SendAgentMessage,
         SendMediaMessage, WhatsappDown, WhatsappUp, Crash, vars

LEMMA DutyInvNext == IInv /\ DutyInv /\ IInv' /\ [Next]_vars => DutyInv'
<1> SUFFICES ASSUME IInv, DutyInv, IInv', [Next]_vars
             PROVE  DutyInv'
  OBVIOUS
<1>1. ASSUME NEW t \in Tasks, Step(t) \/ Starts(t)
      PROVE  DutyInv'
  BY <1>1, StepMoves, StartsMove, MovesKeep, ReceiveKeeps, RestartDuty
<1>2. CASE Environment \/ UNCHANGED vars
  BY <1>2, AroundDuty, RestartDuty, StillDuty
<1> QED
  BY <1>1, <1>2 DEF Next

LEMMA DutyInvInit == Init => DutyInv
<1> SUFFICES ASSUME Init
             PROVE  DutyInv
  OBVIOUS
<1>1. \A t \in Tasks : task[t] = Idle
  BY DEF Init
<1>2. queue = <<>>
  BY DEF Init
<1> QED
  BY <1>1, <1>2, IdlePlace, NullsAssumption
  DEF DutyInv, Places, Alone, QueuedExist

-----------------------------------------------------------------------------
(***************************************************************************)
(* The handlers keep to MessageDuty.                                       *)
(***************************************************************************)
duty == [t \in Tasks |-> DutyOf(task[t])]
rows == [c \in Contacts |-> IF Exists(c) THEN 1 ELSE 0]

\* The mapping of ChatAssignment in these terms.
LEMMA Mapping ==
  /\ duty = [t \in Tasks |-> IF task[t].frame \in {"message", "try"}
                             THEN task[t].on ELSE None]
  /\ duty' = [t \in Tasks |-> IF task'[t].frame \in {"message", "try"}
                              THEN task'[t].on ELSE None]
  BY DEF duty, DutyOf, OnMessage

LEMMA RowsStay ==
  ASSUME \A c \in Contacts : Exists(c)' <=> Exists(c)
  PROVE  rows' = rows
  BY DEF rows

\* Handlers that end, or stay on duty.
LEMMA DutyEnds ==
  ASSUME NEW H \in SUBSET Tasks, rows' = rows,
         \A t \in H : DutyOf(task[t])' = None,
         \A t \in Tasks \ H : DutyOf(task[t])' = DutyOf(task[t])
  PROVE  Duty!Next
<1>1. duty' = [t \in Tasks |-> IF t \in H THEN None ELSE duty[t]]
  BY DEF duty
<1>2. Duty!End(H)
  BY <1>1, Mapping DEF Duty!End, rows
<1> QED
  BY <1>2 DEF Duty!Next

LEMMA DutyOfMove ==
  ASSUME NEW t \in Tasks, Moves(t),
         \A c \in Contacts : Exists(c)' <=> Exists(c)
  PROVE  Duty!Next
<1>1. rows' = rows
  BY RowsStay
<1>2. \A s \in Tasks \ {t} : DutyOf(task[s])' = DutyOf(task[s])
  BY DEF Moves, DutyOf
<1>3. CASE DutyOf(task[t])' = None
  <2>1. {t} \in SUBSET Tasks
    OBVIOUS
  <2> QED
    BY <1>1, <1>2, <1>3, <2>1, DutyEnds
<1>4. CASE DutyOf(task[t])' = DutyOf(task[t])
  <2>1. {} \in SUBSET Tasks
    OBVIOUS
  <2> QED
    BY <1>1, <1>2, <1>4, <2>1, DutyEnds
<1> QED
  BY <1>3, <1>4 DEF Moves

\* The save of a new chat is that of the only handler on duty.
LEMMA DutyOfSave ==
  ASSUME IInv, DutyInv, NEW t \in Tasks, Save(t)
  PROVE  Duty!Next
<1>1. PICK c \in Contacts : c = task[t].on
  BY SaveRow
<1>2. /\ task[t].at = "save" /\ chat'[c] # None
      /\ \A d \in Contacts \ {c} : chat'[d] = chat[d]
  BY <1>1, SaveRow
<1>3. CASE Exists(c)
  <2>1. \A d \in Contacts : Exists(d)' <=> Exists(d)
    BY <1>2, <1>3 DEF Exists
  <2> QED
    BY <2>1, SaveMoves, DutyOfMove
<1>4. CASE ~Exists(c)
  <2>1. task[t].then = "route" /\ task[t].frame = "message"
    BY <1>1, <1>2, <1>4, PlaceFacts DEF PlaceOK
  <2>2. DutyOf(task[t]) = c
    BY <1>1, <2>1 DEF DutyOf, OnMessage
  <2>3. \A s \in Tasks : DutyOf(task[s]) = c => s = t
    BY <1>4, <2>2 DEF DutyInv, Alone
  <2>4. task'[t].on = c /\ task'[t].frame = "message"
    BY <1>1, <2>1, SaveLeadsTo
  <2>5. \A s \in Tasks : DutyOf(task[s])' = DutyOf(task[s])
    BY <2>2, <2>4, SaveLeadsTo DEF DutyOf, OnMessage
  <2>6. duty' = duty /\ rows[c] = 0
    BY <1>4, <2>5 DEF duty, rows
  <2>7. rows' = [rows EXCEPT ![c] = 1]
    BY <1>2 DEF rows, Exists
  <2>8. {s \in Tasks : duty[s] = c} = {t}
    BY <2>2, <2>3 DEF duty
  <2>9. Duty!Create(t, c)
    BY <2>6, <2>7, <2>8, Mapping DEF Duty!Create, Duty!OnDuty, rows
  <2> QED
    BY <2>9 DEF Duty!Next
<1> QED
  BY <1>3, <1>4

LEMMA DutyOfReceive ==
  ASSUME IInv, NEW t \in Tasks, NEW c \in Contacts, Receive(t, c)
  PROVE  Duty!Next
<1>1. /\ UNCHANGED <<chat, queue>>
      /\ DutyOf(task[t]) = None /\ DutyOf(task[t])' = c
      /\ \A s \in Tasks \ {t} : task'[s] = task[s]
      /\ Exists(c) \/ \A s \in Tasks : DutyOf(task[s]) # c
  BY ReceiveDuty
<1>2. rows' = rows
  BY <1>1 DEF rows, Exists
<1>6. \A s \in Tasks \ {t} : DutyOf(task[s])' = DutyOf(task[s])
  BY <1>1 DEF DutyOf
<1>3. duty' = [duty EXCEPT ![t] = c] /\ duty[t] = None
  BY <1>1, <1>6 DEF duty
<1>4. {s \in Tasks : duty[s] = c} = {} \/ rows[c] = 1
  BY <1>1 DEF duty, rows
<1>5. Duty!Begin(t, c)
  BY <1>2, <1>3, <1>4, Mapping DEF Duty!Begin, Duty!OnDuty, rows
<1> QED
  BY <1>5 DEF Duty!Next

LEMMA DutyOfRestart ==
  ASSUME IInv, DutyInv, Restart
  PROVE  Duty!Next
<1>1. rows' = rows /\ \A t \in Tasks : DutyOf(task[t])' = None
  BY RestartDuty, RowsStay DEF Exists
<1>2. Tasks \in SUBSET Tasks
  OBVIOUS
<1> QED
  BY <1>1, <1>2, DutyEnds

\* Only a save touches the chats.
LEMMA OnlySaves ==
  ASSUME NEW t \in Tasks, Step(t) \/ Starts(t), ~Save(t)
  PROVE  UNCHANGED chat
<1>1. Fail(t) => UNCHANGED chat
  BY DEF Fail, Restart
<1> QED
  BY <1>1
  DEF Step, Starts, FindChat, Route, Flow, Reply, Apologise, HandOff,
         AutoAssign, Enqueue, Note, Assign, Arm, Reassign, Release, CronNext,
         Pop, Throws, Receive, ReleaseByHand, TimerFires, AssignByHand,
         CronStarts, Connect

LEMMA DutyNext ==
  IInv /\ DutyInv /\ IInv' /\ [Next]_vars => [Duty!Next]_(Duty!vars)
<1> SUFFICES ASSUME IInv, DutyInv, IInv', [Next]_vars
             PROVE  [Duty!Next]_(Duty!vars)
  OBVIOUS
<1>1. ASSUME NEW t \in Tasks, Step(t) \/ Starts(t)
      PROVE  Duty!Next
  <2>1. CASE Save(t)
    BY <2>1, DutyOfSave
  <2>2. CASE ~Save(t)
    <3>1. \A c \in Contacts : Exists(c)' <=> Exists(c)
      BY <1>1, <2>2, OnlySaves DEF Exists
    <3> QED
      BY <1>1, <3>1, StepMoves, StartsMove, DutyOfMove, DutyOfReceive,
         DutyOfRestart
  <2> QED
    BY <2>1, <2>2
<1>2. CASE Environment \/ UNCHANGED vars
  <2>1. CASE Restart
    BY <2>1, DutyOfRestart
  <2>2. CASE UNCHANGED <<chat, queue, task>>
    BY <2>2 DEF Duty!vars, Exists
  <2> QED
    BY <1>2, <2>1, <2>2, AroundDuty
<1> QED
  BY <1>1, <1>2 DEF Next

LEMMA DutyInit == Init => Duty!Init
<1> SUFFICES ASSUME Init
             PROVE  Duty!Init
  OBVIOUS
<1>1. \A t \in Tasks : task[t].frame = "none"
  BY DEF Init, Idle
<1>2. \A c \in Contacts : ~Exists(c)
  BY DEF Init, Exists
<1> QED
  BY <1>1, <1>2 DEF Duty!Init

\* The handlers of the desk keep to what the lock of incoming messages
\* guarantees: for any number of customers, users and handlers, and whatever
\* fails, a contact's chat is created once, by the only message handler of
\* that contact, and until then no other handler joins in
\* (chat.service.ts:73-147).
THEOREM DutyIsKept == Spec => KeepsDuty
<1>1. Init => IInv /\ DutyInv
  BY IInvInit, DutyInvInit
<1>2. IInv /\ DutyInv /\ [Next]_vars => (IInv /\ DutyInv)'
  BY IInvNext, DutyInvNext
<1>3. IInv /\ DutyInv /\ (IInv /\ DutyInv)' /\ [Next]_vars
      => [Duty!Next]_(Duty!vars)
  BY DutyNext
<1> QED
  BY <1>1, <1>2, <1>3, DutyInit, PTL DEF Spec, KeepsDuty, Duty!Spec
=============================================================================
