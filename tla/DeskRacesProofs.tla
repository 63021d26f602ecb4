-------------------------- MODULE DeskRacesProofs --------------------------
(***************************************************************************)
(* What the assignment desk keeps to however its handlers overlap: an      *)
(* agent who has not answered is watched by the response timer, unless the *)
(* timer was crossed, and a chat goes through the stages of its life,      *)
(* until a message handler was overtaken.  Contacts, users, handlers in    *)
(* flight and what may fail or restart are any.                            *)
(***************************************************************************)
EXTENDS ChatAssignmentPlacingProofs, DeskRaces

\* A step of the specification, a stuttering one included.
LEMMA StepsWatched ==
  ASSUME [Next /\ Watch]_<<vars, races>>
  PROVE  [Next]_vars /\ Watch
  BY DEF Watch, Overtakes, Crosses, Assignee, Exists, vars, races

-----------------------------------------------------------------------------
(***************************************************************************)
(* An agent who has not answered is timed.                                 *)
(*                                                                         *)
(* A handler may take the timer away, or give the chat to an agent who is  *)
(* not timed yet; it then is at a step that sees to it, and so it stays    *)
(* whatever other handlers do in between, as long as the chat keeps its    *)
(* agent while the timer is about to be armed.                             *)
(***************************************************************************)
\* The handler will arm the timer of the chat's agent, take the chat from
\* the agents, or come to a fault.
SeesTo(r, c) ==
    /\ r.on = c
    /\ \/ Carries(r)
       \/ r.at \in {"arm", "reassign"} /\ r.who = Assignee(c)
       \/ r.at = "release"
       \/ r.at = "save" /\ r.then \in {"idle", "cron"}

Unanswered(c) == /\ IsActive(c) /\ Assignee(c) # None
                 /\ c \notin answered /\ Spotless(c) /\ c \notin crossed

Timed(c) ==
    Unanswered(c) =>
       timer[c] = Assignee(c) \/ \E t \in Tasks : SeesTo(task[t], c)

\* What a release saves.
ReleaseOK(r) == r.at = "save" /\ r.then \in {"idle", "cron"} => r.mem = Bot

\* Who is about to be timed has the chat.
ArmOK(r) ==
    r.at = "arm" /\ Spotless(r.on) /\ r.on \notin crossed
    => r.who = Assignee(r.on)

TimedInv == /\ \A t \in Tasks : ReleaseOK(task[t]) /\ ArmOK(task[t])
            /\ \A c \in Contacts : Timed(c)

\* A handler that does not come from a save.
Elsewhere(r) == ReleaseOK(r) /\ r.at # "arm"

\* A handler that takes no part in a step.
LEMMA TimedBystander ==
  ASSUME IInv, TimedInv, Watch, NEW s \in Tasks, task'[s] = task[s],
         \A c \in Contacts : Spotless(c)' => Spotless(c)
  PROVE  (ReleaseOK(task[s]) /\ ArmOK(task[s]))'
<1>1. PICK r \in Task : /\ r = task[s] /\ r = task'[s]
                        /\ ReleaseOK(r) /\ ArmOK(r)
                        /\ r.at = "arm" => r.on \in Contacts
  BY TaskFacts DEF TimedInv, TaskOK
<1>2. ASSUME r.at = "arm", Spotless(r.on)', r.on \notin crossed'
      PROVE  r.who = Assignee(r.on)'
  <2>1. ~Crosses(r.on) /\ r.on \notin crossed /\ Spotless(r.on)
    BY <1>1, <1>2 DEF Watch
  <2>2. Assignee(r.on)' = Assignee(r.on)
    BY <1>1, <1>2, <2>1 DEF Crosses, Unaware
  <2> QED
    BY <1>1, <1>2, <2>1, <2>2 DEF ArmOK
<1> QED
  BY <1>1, <1>2 DEF ReleaseOK, ArmOK

LEMMA StillSees ==
  ASSUME NEW c, NEW s \in Tasks, task'[s] = task[s],
         Assignee(c)' = Assignee(c), SeesTo(task[s], c)
  PROVE  SeesTo(task[s], c)'
  BY DEF SeesTo, Carries

\* A chat that a step leaves alone, and no handler the step drops saw to it.
LEMMA TimedStays ==
  ASSUME TimedInv, NEW c \in Contacts, Unanswered(c),
         Assignee(c)' = Assignee(c), timer'[c] = timer[c],
         \A s \in Tasks : SeesTo(task[s], c) =>
            task'[s] = task[s] \/ SeesTo(task[s], c)'
  PROVE  timer'[c] = Assignee(c)' \/ \E s \in Tasks : SeesTo(task[s], c)'
<1>1. CASE timer[c] = Assignee(c)
  BY <1>1
<1>2. ASSUME NEW s \in Tasks, SeesTo(task[s], c)
      PROVE  SeesTo(task[s], c)'
  BY <1>2, StillSees
<1> QED
  BY <1>1, <1>2 DEF TimedInv, Timed

\* A step of one handler that leaves chats, timers and answers alone.
LEMMA TimedMove ==
  ASSUME IInv, TimedInv, Watch, NEW t \in Tasks, NEW q,
         Become(t, q), UNCHANGED <<chat, timer, answered>>, Elsewhere(q),
         \A c \in Contacts : Spotless(c)' =>
            /\ Spotless(c)
            /\ Unanswered(c) /\ SeesTo(task[t], c) => SeesTo(q, c)
  PROVE  TimedInv'
<1>1. task'[t] = q /\ \A s \in Tasks \ {t} : task'[s] = task[s]
  BY Becoming
<1>2. ASSUME NEW s \in Tasks
      PROVE  (ReleaseOK(task[s]) /\ ArmOK(task[s]))'
  BY <1>1, TimedBystander DEF Elsewhere, ReleaseOK, ArmOK
<1>3. ASSUME NEW c \in Contacts, Unanswered(c)'
      PROVE  timer'[c] = Assignee(c)' \/ \E s \in Tasks : SeesTo(task[s], c)'
  <2>1. Unanswered(c) /\ Spotless(c)' /\ Assignee(c)' = Assignee(c)
    BY <1>3 DEF Unanswered, IsActive, Exists, Assignee, Watch
  <2>2. SeesTo(task[t], c) => SeesTo(task[t], c)'
    <3>1. SeesTo(task[t], c) => SeesTo(q, c)
      BY <2>1
    <3>2. SeesTo(q, c) => SeesTo(task[t], c)'
      BY <1>1, <2>1 DEF SeesTo, Carries
    <3> QED
      BY <3>1, <3>2
  <2> QED
    BY <1>1, <2>1, <2>2, TimedStays
<1> QED
  BY <1>2, <1>3 DEF TimedInv, Timed

\* A handler that goes its way without or with a chat in its hands.
Ordinary == {"find", "route", "flow", "reply", "thanks", "handoff", "apology",
             "autoAssign", "enqueue", "note", "assign", "assignByHand",
             "cron", "pop", "idle"}

LEMMA TimedForward ==
  ASSUME IInv, TimedInv, Watch, NEW t \in Tasks, Forward(t),
         task[t].at \in Ordinary, Elsewhere(task'[t]),
         UNCHANGED <<timer, answered>>
  PROVE  TimedInv'
<1>1. ASSUME NEW s \in Tasks
      PROVE  (ReleaseOK(task[s]) /\ ArmOK(task[s]))'
  BY TimedBystander DEF Forward, Elsewhere, ReleaseOK, ArmOK
<1>2. ASSUME NEW c \in Contacts, Unanswered(c)'
      PROVE  timer'[c] = Assignee(c)' \/ \E s \in Tasks : SeesTo(task[s], c)'
  <2>1. Unanswered(c) /\ Spotless(c)' /\ Assignee(c)' = Assignee(c)
    BY <1>2 DEF Unanswered, IsActive, Exists, Assignee, Forward, Watch
  <2>2. ASSUME SeesTo(task[t], c)
        PROVE  SeesTo(task[t], c)'
    <3>1. CarriedBy(task[t], c)
      BY <2>2 DEF SeesTo, Ordinary, CarriedBy
    <3>2. CarriedBy(task'[t], c)
      BY <2>1, <3>1 DEF Forward
    <3> QED
      BY <3>2 DEF SeesTo, CarriedBy, Carries
  <2> QED
    BY <2>1, <2>2, TimedStays DEF Forward
<1> QED
  BY <1>1, <1>2 DEF TimedInv, Timed

\* No other step saves what a release saves.
LEMMA LeadsElsewhere ==
  ASSUME IInv, NEW t \in Tasks,
         \/ End(t)
         \/ \E label \in Labels \ {"save", "arm"} : Goto(t, label)
         \/ \E status \in Status, label \in OwnSaves : SaveOwn(t, status, label)
  PROVE  Elsewhere(task'[t])
<1>0. PICK r \in Task : r = task[t]
  BY TaskFacts
<1>1. CASE End(t)
  BY <1>1, Becoming DEF End, Elsewhere, ReleaseOK, Idle
<1>2. CASE \E label \in Labels \ {"save", "arm"} : Goto(t, label)
  <2>1. PICK label \in Labels \ {"save", "arm"} : Goto(t, label)
    BY <1>2
  <2>2. PICK q : q = [r EXCEPT !.at = label]
    OBVIOUS
  <2>3. q.at = label
    BY <2>2 DEF Task
  <2>4. task'[t] = q
    BY <1>0, <2>1, <2>2, Becoming DEF Goto
  <2> QED
    BY <2>3, <2>4 DEF Elsewhere, ReleaseOK
<1>3. CASE \E status \in Status, label \in OwnSaves : SaveOwn(t, status, label)
  <2>1. PICK status \in Status, label \in OwnSaves : SaveOwn(t, status, label)
    BY <1>3
  <2>2. PICK q : q = [r EXCEPT
                        !.at = "save", !.then = label, !.base = r.own,
                        !.mem = [status |-> status, assignedTo |-> r.kept]]
    OBVIOUS
  <2>3. q.at = "save" /\ q.then = label
    BY <2>2 DEF Task
  <2>4. task'[t] = q
    BY <1>0, <2>1, <2>2, Becoming DEF SaveOwn
  <2> QED
    BY <2>3, <2>4 DEF Elsewhere, ReleaseOK, OwnSaves
<1> QED
  BY <1>1, <1>2, <1>3

\* The same of a step that fills in the handler's record itself.
LEMMA LeadsTo ==
  ASSUME IInv, NEW t \in Tasks, NEW q, Become(t, q),
         q.at # "arm", q.at # "save" \/ q.then \notin {"idle", "cron"}
  PROVE  Elsewhere(task'[t])
  BY Becoming DEF Elsewhere, ReleaseOK

LEMMA FlowLeads ==
  ASSUME IInv, NEW t \in Tasks, Flow(t)
  PROVE  task[t].at = "flow" /\ Elsewhere(task'[t])
<1> PICK r \in Task : r = task[t]
  BY TaskFacts
<1>0. PICK f \in Task : f = [r EXCEPT !.frame = "try"]
  BY DEF Task
<1> SUFFICES Elsewhere(task'[t])
  BY <1>0 DEF Flow, Task
<1>1. CASE End(t)
  BY <1>1, LeadsElsewhere
<1>2. CASE Become(t, [f EXCEPT !.at = "reply"])
  <2>1. PICK q : q = [f EXCEPT !.at = "reply"]
    OBVIOUS
  <2>2. q.at = "reply"
    BY <2>1 DEF Task
  <2> QED
    BY <1>2, <2>1, <2>2, LeadsTo
<1>3. ASSUME NEW m, NEW label \in {"reply", "thanks", "handoff"}, NEW base,
             Become(t, [f EXCEPT !.at = "save", !.then = label, !.mem = m,
                                 !.base = base])
      PROVE  Elsewhere(task'[t])
  <2>1. PICK q : q = [f EXCEPT !.at = "save", !.then = label, !.mem = m,
                               !.base = base]
    OBVIOUS
  <2>2. q.at = "save" /\ q.then = label
    BY <2>1 DEF Task
  <2> QED
    BY <1>3, <2>1, <2>2, LeadsTo
<1> DEFINE Saving(m, label) ==
             [f EXCEPT !.at = "save", !.then = label, !.mem = m,
                       !.base = chat[f.on]]
           active == [status |-> "ACTIVE", assignedTo |-> f.kept]
<1>4. CASE \/ Become(t, Saving([chat[f.on] EXCEPT !.assignedTo = Undefined],
                               "reply"))
           \/ Become(t, Saving(Closed(chat[f.on]), "thanks"))
  BY <1>3, <1>4
<1>5. CASE Become(t, [Saving(active, "handoff") EXCEPT !.base = f.own])
  <2>1. [Saving(active, "handoff") EXCEPT !.base = f.own]
          = [f EXCEPT !.at = "save", !.then = "handoff", !.mem = active,
                      !.base = f.own]
    BY DEF Task
  <2> HIDE DEF active
  <2> QED
    BY <1>3, <1>5, <2>1
<1> QED
  BY <1>0, <1>1, <1>2, <1>4, <1>5 DEF Flow

LEMMA NoRelease ==
  ASSUME IInv, NEW t \in Tasks,
         \/ FindChat(t) \/ Route(t) \/ Flow(t) \/ Reply(t) \/ Apologise(t)
         \/ HandOff(t) \/ AutoAssign(t) \/ Enqueue(t) \/ Note(t)
         \/ CronNext(t) \/ Pop(t)
  PROVE  /\ task[t].at \in Ordinary /\ Elsewhere(task'[t])
         /\ UNCHANGED <<timer, answered>>
<1>0. PICK r \in Task : r = task[t]
  BY TaskFacts
<1>1. CASE FindChat(t)
  <2>1. PICK q, m : /\ Become(t, q)
                    /\ q = [r EXCEPT !.at = "save", !.then = "route",
                                     !.mem = m, !.base = chat[r.on],
                                     !.kept = m.assignedTo]
    BY <1>0, <1>1 DEF FindChat
  <2>2. q.at = "save" /\ q.then = "route"
    BY <2>1 DEF Task
  <2> QED
    BY <1>1, <2>1, <2>2, LeadsTo DEF FindChat, Ordinary
<1>2. CASE Route(t)
  BY <1>2, LeadsElsewhere DEF Route, Labels, Status, OwnSaves, Ordinary
<1>3. CASE Flow(t)
  BY <1>3, FlowLeads DEF Flow, Ordinary
<1>4. CASE Reply(t) \/ Note(t)
  BY <1>4, LeadsElsewhere DEF Reply, Note, Ordinary
<1>5. CASE Apologise(t)
  BY <1>5, LeadsElsewhere DEF Apologise, Status, OwnSaves, Ordinary
<1>6. CASE HandOff(t) \/ Enqueue(t)
  BY <1>6, LeadsElsewhere DEF HandOff, Enqueue, Labels, Ordinary
<1>7. CASE AutoAssign(t)
  <2>1. CASE \E a : Become(t, [r EXCEPT !.at = "assign", !.who = a])
    <3>1. PICK q, a : /\ Become(t, q)
                      /\ q = [r EXCEPT !.at = "assign", !.who = a]
      BY <2>1
    <3>2. q.at = "assign"
      BY <3>1 DEF Task
    <3> QED
      BY <1>7, <3>1, <3>2, LeadsTo DEF AutoAssign, Ordinary
  <2>2. CASE QueueUp(t) \/ End(t)
    BY <1>7, <2>2, LeadsElsewhere
    DEF AutoAssign, QueueUp, Status, OwnSaves, Ordinary
  <2> QED
    BY <1>0, <1>7, <2>1, <2>2 DEF AutoAssign
<1>8. CASE CronNext(t)
  <2>1. PICK q, c : /\ Become(t, q)
                    /\ q = [r EXCEPT !.at = "release", !.on = c,
                                     !.todo = @ \ {c}]
    BY <1>0, <1>8 DEF CronNext
  <2>2. q.at = "release"
    BY <2>1 DEF Task
  <2> QED
    BY <1>8, <2>1, <2>2, LeadsTo DEF CronNext, Ordinary
<1>9. CASE Pop(t)
  <2>1. CASE End(t)
    BY <1>9, <2>1, LeadsElsewhere DEF Pop, Ordinary
  <2>2. CASE \E c : Become(t, [r EXCEPT !.at = "assign", !.on = c])
    <3>1. PICK q, c : /\ Become(t, q)
                      /\ q = [r EXCEPT !.at = "assign", !.on = c]
      BY <2>2
    <3>2. q.at = "assign"
      BY <3>1 DEF Task
    <3> QED
      BY <1>9, <3>1, <3>2, LeadsTo DEF Pop, Ordinary
  <2> QED
    BY <1>0, <1>9, <2>1, <2>2 DEF Pop
<1> QED
  BY <1>1, <1>2, <1>3, <1>4, <1>5, <1>6, <1>7, <1>8, <1>9

\* What a handler leaves behind when it stops, or when the process does.
LEMMA TimedRestart ==
  ASSUME IInv, TimedInv, Watch, Restart
  PROVE  TimedInv'
<1>1. \A t \in Tasks : Elsewhere(task'[t])
  BY DEF Restart, Elsewhere, ReleaseOK, Idle
<1>2. ASSUME NEW c \in Contacts, Unanswered(c)'
      PROVE  FALSE
  <2>1. /\ Spotless(c) /\ timer[c] = None
        /\ \A t \in Tasks : task[t].on # c
    BY <1>2 DEF Unanswered, Spotless, Restart, Mark
  <2>2. Unanswered(c) /\ Assignee(c) # None
    BY <1>2, <2>1
    DEF Unanswered, IsActive, Exists, Assignee, Restart, Watch
  <2> QED
    BY <2>1, <2>2 DEF TimedInv, Timed, SeesTo
<1> QED
  BY <1>1, <1>2 DEF TimedInv, Timed, Elsewhere, ReleaseOK, ArmOK

LEMMA TimedFail ==
  ASSUME IInv, TimedInv, Watch, NEW t \in Tasks, Fail(t)
  PROVE  TimedInv'
<1>1. PICK r \in Task : r = task[t]
  BY TaskFacts
<1>2. CASE r.frame = "try" /\ r.at = "save" /\ r.then = "thanks"
  <2>1. PICK q : q = [r EXCEPT !.at = "thanks"]
    OBVIOUS
  <2>2. q.at = "thanks" /\ ~Carries(r)
    BY <1>2, <2>1 DEF Task, Carries
  <2>3. Become(t, q) /\ UNCHANGED <<chat, timer, answered, mishap>>
    BY <1>1, <1>2, <2>1 DEF Fail, Goto
  <2>4. Elsewhere(q) /\ \A c \in Contacts : ~SeesTo(r, c)
    BY <1>2, <2>2 DEF Elsewhere, ReleaseOK, SeesTo
  <2> QED
    BY <1>1, <2>3, <2>4, TimedMove DEF Spotless
<1>3. CASE r.frame = "try" /\ ~(r.at = "save" /\ r.then = "thanks")
  <2>1. PICK q : q = [r EXCEPT !.at = "apology", !.frame = "message"]
    OBVIOUS
  <2>2. q.at = "apology" /\ q.on = r.on
    BY <2>1 DEF Task
  <2>3. Become(t, q) /\ UNCHANGED <<chat, timer, answered, mishap>>
    BY <1>1, <1>3, <2>1 DEF Fail
  <2>4. Elsewhere(q) /\ \A c \in Contacts : SeesTo(r, c) => SeesTo(q, c)
    BY <2>2 DEF Elsewhere, ReleaseOK, SeesTo, Carries
  <2> QED
    BY <1>1, <2>3, <2>4, TimedMove DEF Spotless
<1>4. CASE r.frame = "timer"
  BY <1>1, <1>4, TimedRestart DEF Fail
<1>5. CASE r.frame \notin {"try", "timer"}
  <2>1. PICK q : q = IF r.todo # {}
                     THEN [Idle EXCEPT !.at = "cron", !.todo = r.todo]
                     ELSE Idle
    OBVIOUS
  <2>2. /\ Become(t, q) /\ Mark({r.on}, "fault")
        /\ UNCHANGED <<chat, timer, answered>>
    BY <1>1, <1>5, <2>1 DEF Fail
  <2>3. Elsewhere(q)
    BY <2>1 DEF Elsewhere, ReleaseOK, Idle
  <2>4. \A c \in Contacts : Spotless(c)' => Spotless(c) /\ ~SeesTo(r, c)
    BY <2>2 DEF Mark, Spotless, SeesTo
  <2> QED
    BY <1>1, <2>2, <2>3, <2>4, TimedMove
<1> QED
  BY <1>2, <1>3, <1>4, <1>5

LEMMA TimedAssign ==
  ASSUME IInv, TimedInv, Watch, NEW t \in Tasks, Assign(t)
  PROVE  TimedInv'
<1> PICK r \in Task : r = task[t]
  BY TaskFacts
<1> DEFINE m == [status |-> "ACTIVE", assignedTo |-> r.who]
<1>1. CASE SaveFresh(t, m, "arm") /\ UNCHANGED <<chat, timer, answered, mishap>>
  <2>1. PICK q : q = [r EXCEPT !.at = "save", !.then = "arm", !.mem = m,
                               !.base = chat[r.on]]
    OBVIOUS
  <2>2. q.at = "save" /\ q.then = "arm" /\ q.on = r.on
    BY <2>1 DEF Task
  <2>3. Become(t, q)
    BY <1>1, <2>1 DEF SaveFresh
  <2>4. Elsewhere(q) /\ \A c \in Contacts : SeesTo(r, c) => SeesTo(q, c)
    BY <2>2 DEF Elsewhere, ReleaseOK, SeesTo, Carries
  <2> QED
    BY <1>1, <2>3, <2>4, TimedMove DEF Spotless
<1>2. CASE Fail(t)
  BY <1>2, TimedFail
<1>3. CASE /\ task[t].at = "assignByHand" /\ End(t)
           /\ UNCHANGED <<chat, timer, answered, mishap>>
  <2>1. Become(t, Idle) /\ Elsewhere(Idle)
    BY <1>3 DEF End, Elsewhere, ReleaseOK, Idle
  <2>2. \A c \in Contacts : ~SeesTo(task[t], c)
    BY <1>3 DEF SeesTo, Carries
  <2> QED
    BY <1>3, <2>1, <2>2, TimedMove DEF Spotless
<1> QED
  BY <1>1, <1>2, <1>3 DEF Assign

\* The timer that is armed is that of the agent who has the chat.
LEMMA TimedArm ==
  ASSUME IInv, TimedInv, Watch, NEW t \in Tasks, Arm(t)
  PROVE  TimedInv'
<1>1. Elsewhere(task'[t]) /\ \A s \in Tasks \ {t} : task'[s] = task[s]
  BY LeadsElsewhere, Becoming DEF Arm, End
<1>2. ASSUME NEW s \in Tasks
      PROVE  (ReleaseOK(task[s]) /\ ArmOK(task[s]))'
  BY <1>1, TimedBystander DEF Arm, Spotless, Elsewhere, ReleaseOK, ArmOK
<1>3. ASSUME NEW c \in Contacts, Unanswered(c)'
      PROVE  timer'[c] = Assignee(c)' \/ \E s \in Tasks : SeesTo(task[s], c)'
  <2>1. /\ Assignee(c)' = Assignee(c) /\ IsActive(c) /\ Spotless(c)
        /\ Assignee(c) # None /\ c \notin crossed
        /\ timer' = [timer EXCEPT ![task[t].on] = task[t].who]
        /\ answered' = answered \ {task[t].on} /\ task[t].at = "arm"
        /\ c \notin answered \/ c = task[t].on
    BY <1>3
    DEF Arm, Unanswered, Assignee, IsActive, Exists, Spotless, Watch
  <2>2. timer \in [Contacts -> Users \union {None}]
    BY DEF IInv, TypeOK
  <2>3. CASE c = task[t].on
    BY <2>1, <2>2, <2>3 DEF TimedInv, ArmOK
  <2>4. CASE c # task[t].on
    <3>1. Unanswered(c) /\ timer'[c] = timer[c] /\ ~SeesTo(task[t], c)
      BY <2>1, <2>2, <2>4 DEF SeesTo, Unanswered
    <3> QED
      BY <1>1, <2>1, <3>1, TimedStays
  <2> QED
    BY <2>3, <2>4
<1> QED
  BY <1>2, <1>3 DEF TimedInv, Timed

LEMMA TimedReassign ==
  ASSUME IInv, PlacingInv, TimedInv, Watch, NEW t \in Tasks, Reassign(t)
  PROVE  TimedInv'
<1> PICK r \in Task : r = task[t]
  BY TaskFacts
<1>1. /\ r.at = "reassign" /\ r.on \in Contacts
      /\ UNCHANGED <<chat, timer, answered, mishap>>
  BY TaskFacts DEF Reassign
\* The agent still has the chat, unless there is nothing to be done.
<1>2. ASSUME NEW c \in Contacts, SeesTo(r, c), Unanswered(c)
      PROVE  IsActive(r.on) /\ View(chat[r.on]).assignedTo = r.who
  <2>1. r.on = c /\ r.who = Assignee(c) /\ IsActive(c) /\ Exists(c)
        /\ Spotless(c) /\ Assignee(c) = chat[c].assignedTo
        /\ chat[c].assignedTo # None
    BY <1>1, <1>2 DEF SeesTo, Carries, Unanswered, IsActive, Assignee
  <2>2. chat[c].assignedTo \in registered
    BY <2>1 DEF PlacingInv, Attended
  <2>3. chat[c] \in Row
    BY <2>1 DEF IInv, TypeOK, Exists
  <2>4. View(chat[c]).assignedTo = chat[c].assignedTo
    BY <2>2, <2>3 DEF View, Row
  <2> QED
    BY <2>1, <2>4
<1>3. CASE /\ End(t)
           /\ ~(IsActive(r.on) /\ View(chat[r.on]).assignedTo = r.who)
  <2>1. Become(t, Idle) /\ Elsewhere(Idle)
    BY <1>3 DEF End, Elsewhere, ReleaseOK, Idle
  <2>2. \A c \in Contacts : ~(Unanswered(c) /\ SeesTo(task[t], c))
    BY <1>2, <1>3
  <2> QED
    BY <1>1, <2>1, <2>2, TimedMove DEF Spotless
<1>4. CASE \E a : Become(t, [r EXCEPT !.at = "assign", !.who = a])
  <2>1. PICK q, a : /\ Become(t, q)
                    /\ q = [r EXCEPT !.at = "assign", !.who = a]
    BY <1>4
  <2>2. q.at = "assign" /\ q.on = r.on
    BY <2>1 DEF Task
  <2>3. Elsewhere(q) /\ \A c \in Contacts : SeesTo(r, c) => SeesTo(q, c)
    BY <2>2 DEF Elsewhere, ReleaseOK, SeesTo, Carries
  <2> QED
    BY <1>1, <2>1, <2>3, TimedMove DEF Spotless
<1>5. CASE Goto(t, "release")
  <2>1. PICK q : q = [r EXCEPT !.at = "release"]
    OBVIOUS
  <2>2. q.at = "release" /\ q.on = r.on
    BY <2>1 DEF Task
  <2>3. Become(t, q)
    BY <1>5, <2>1 DEF Goto
  <2>4. Elsewhere(q) /\ \A c \in Contacts : SeesTo(r, c) => SeesTo(q, c)
    BY <2>2 DEF Elsewhere, ReleaseOK, SeesTo, Carries
  <2> QED
    BY <1>1, <2>3, <2>4, TimedMove DEF Spotless
<1> QED
  BY <1>3, <1>4, <1>5 DEF Reassign

\* A release takes the timer first, and then saves a chat without an agent.
LEMMA TimedRelease ==
  ASSUME IInv, TimedInv, Watch, NEW t \in Tasks, Release(t)
  PROVE  TimedInv'
<1> PICK r \in Task : r = task[t]
  BY TaskFacts
<1>1. /\ r.at = "release" /\ UNCHANGED <<chat, answered, mishap>>
      /\ timer' = [timer EXCEPT ![r.on] = None]
  BY DEF Release
<1>2. PICK label \in {"idle", "cron"} : SaveFresh(t, Bot, label)
  BY DEF Release, Released
<1>3. PICK q : q = [r EXCEPT !.at = "save", !.then = label,
                             !.mem = Bot, !.base = chat[r.on]]
  OBVIOUS
<1>4. q.at = "save" /\ q.then = label /\ q.mem = Bot /\ q.on = r.on
  BY <1>3 DEF Task
<1>5. task'[t] = q /\ \A s \in Tasks \ {t} : task'[s] = task[s]
  BY <1>2, <1>3, Becoming DEF SaveFresh
<1>6. ASSUME NEW s \in Tasks
      PROVE  (ReleaseOK(task[s]) /\ ArmOK(task[s]))'
  BY <1>1, <1>4, <1>5, TimedBystander DEF Spotless, ReleaseOK, ArmOK
<1>7. ASSUME NEW c \in Contacts, Unanswered(c)'
      PROVE  timer'[c] = Assignee(c)' \/ \E s \in Tasks : SeesTo(task[s], c)'
  <2>1. CASE c = r.on
    <3>1. SeesTo(task[t], c)'
      BY <1>4, <1>5, <2>1 DEF SeesTo
    <3> QED
      BY <3>1
  <2>2. CASE c # r.on
    <3>1. Unanswered(c) /\ Assignee(c)' = Assignee(c)
      BY <1>1, <1>7
      DEF Unanswered, IsActive, Exists, Assignee, Spotless, Watch
    <3>2. timer'[c] = timer[c] /\ ~SeesTo(task[t], c)
      BY <1>1, <2>2 DEF IInv, TypeOK, SeesTo
    <3> QED
      BY <1>5, <3>1, <3>2, TimedStays
  <2> QED
    BY <2>1, <2>2
<1> QED
  BY <1>6, <1>7 DEF TimedInv, Timed

\* A save that is not stale leaves the chat as it was, gives it to nobody,
\* or to the agent about to be timed.
LEMMA TimedSave ==
  ASSUME IInv, IInv', PlacingInv, TimedInv, Watch, NEW t \in Tasks,
         Save(t)
  PROVE  TimedInv'
<1>1. PICK r \in Task : /\ r = task[t] /\ TaskOK(r) /\ CarryOK(r)
                        /\ r.at = "save" /\ r.on \in Contacts
  BY PlacingFacts DEF Save, TaskOK
<1>2. PICK c \in Contacts : c = r.on
  BY <1>1
<1>3. PICK row : row = Merge(r.mem, chat[c])
  OBVIOUS
<1>4. PICK q : q = AfterSave(r, row)
  OBVIOUS
<1>5. /\ chat' = [chat EXCEPT ![c] = row] /\ Become(t, q)
      /\ UNCHANGED timer
      /\ IF chat[c] # r.base /\ row # chat[c]
         THEN Mark({c}, "stale") ELSE UNCHANGED mishap
      /\ answered' = IF row.assignedTo = None THEN answered \ {c}
                     ELSE answered
  BY <1>1, <1>2, <1>3, <1>4 DEF Save, people, AfterSave
<1>6. task'[t] = q /\ \A s \in Tasks \ {t} : task'[s] = task[s]
  BY <1>5, Becoming
<1>7. /\ chat'[c] = row
      /\ \A d \in Contacts \ {c} : chat'[d] = chat[d]
  BY <1>5 DEF IInv, TypeOK
<1>8. row # None
  BY <1>1, <1>2, <1>7, SaveRow
<1>9. \A d \in Contacts : Spotless(d)' => Spotless(d)
  BY <1>5 DEF Mark, Spotless
<1>10. /\ q.at # "save"
       /\ r.then # "idle" => q.at = r.then /\ q.on = c /\ q.who = r.who
  BY <1>1, <1>2, <1>4 DEF TaskOK, Idle, AfterSave, Task
<1>11. ASSUME Spotless(c)'
       PROVE  /\ Spotless(c) /\ SaveOK(r)
              /\ chat[c] = r.base \/ row = chat[c]
  BY <1>1, <1>2, <1>5, <1>9, <1>11 DEF Mark, Spotless, CarryOK
<1>12. row.status = r.mem.status
       /\ (r.mem.assignedTo # Undefined => row.assignedTo = r.mem.assignedTo)
  BY <1>3 DEF Merge
<1>13. ASSUME Spotless(c)', r.then = "arm"
       PROVE  row.assignedTo = r.who /\ r.who # None
  <2>1. r.mem = [status |-> "ACTIVE", assignedTo |-> r.who]
        /\ r.who \in registered
    BY <1>1, <1>11, <1>13 DEF SaveOK, Carries
  <2>2. r.who \in Users /\ r.who # Undefined /\ r.who # None
    BY <2>1, NullsAssumption DEF IInv, TypeOK
  <2> QED
    BY <1>12, <2>1, <2>2
<1>14. ASSUME NEW s \in Tasks
       PROVE  (ReleaseOK(task[s]) /\ ArmOK(task[s]))'
  <2>1. ReleaseOK(q)
    BY <1>10 DEF ReleaseOK
  <2>2. ASSUME q.at = "arm", Spotless(q.on)'
        PROVE  q.who = Assignee(q.on)'
    <3>1. r.then = "arm" /\ q.on = c /\ q.who = r.who
      BY <1>4, <1>10, <2>2 DEF AfterSave, Idle
    <3> QED
      BY <1>7, <1>8, <1>13, <2>2, <3>1 DEF Assignee, Exists
  <2>3. (ReleaseOK(task[t]) /\ ArmOK(task[t]))'
    BY <1>6, <2>1, <2>2 DEF ReleaseOK, ArmOK
  <2> QED
    BY <1>6, <1>9, <2>3, TimedBystander
<1>15. ASSUME NEW d \in Contacts \ {c}, Unanswered(d)'
       PROVE  \/ timer'[d] = Assignee(d)'
              \/ \E s \in Tasks : SeesTo(task[s], d)'
  <2>1. Unanswered(d) /\ Assignee(d)' = Assignee(d)
    BY <1>5, <1>7, <1>9, <1>15
    DEF Unanswered, IsActive, Exists, Assignee, Watch
  <2>2. timer'[d] = timer[d] /\ ~SeesTo(task[t], d)
    BY <1>1, <1>2, <1>5, <1>15 DEF SeesTo
  <2> QED
    BY <1>6, <2>1, <2>2, TimedStays
<1>16. ASSUME Unanswered(c)'
       PROVE  \/ timer'[c] = Assignee(c)'
              \/ \E s \in Tasks : SeesTo(task[s], c)'
  <2>1. /\ Spotless(c)' /\ row.status = "ACTIVE" /\ row.assignedTo # None
        /\ Assignee(c)' = row.assignedTo /\ c \notin answered
        /\ c \notin crossed
    BY <1>5, <1>7, <1>8, <1>16
    DEF Unanswered, IsActive, Exists, Assignee, Watch
  <2>2. CASE r.then \in {"handoff", "autoAssign"}
    <3>1. SeesTo(task[t], c)'
      BY <1>6, <1>10, <2>2 DEF SeesTo, Carries
    <3> QED
      BY <3>1
  <2>3. CASE r.then = "enqueue"
    BY <1>1, <1>11, <1>12, <2>1, <2>3 DEF SaveOK, Carries, AtRest
  <2>4. CASE r.then = "arm"
    <3>1. SeesTo(task[t], c)'
      BY <1>6, <1>10, <1>13, <2>1, <2>4 DEF SeesTo
    <3> QED
      BY <3>1
  <2>5. CASE r.then \in {"idle", "cron"}
    <3>1. ReleaseOK(r)
      BY <1>1 DEF TimedInv
    <3>2. r.mem = Bot
      BY <1>1, <2>5, <3>1 DEF ReleaseOK
    <3>3. row.status = "AUTO_RESPONDER"
      BY <1>12, <3>2 DEF Bot
    <3> QED
      BY <2>1, <3>3
  <2>6. CASE r.then \notin {"handoff", "autoAssign", "enqueue", "arm",
                            "idle", "cron"}
    <3>1. ~Carries(r) /\ ~SeesTo(task[t], c)
      BY <1>1, <2>6 DEF SeesTo, Carries
    <3>2. row = chat[c]
      BY <1>3, <1>11, <1>12, <2>1, <2>6, <3>1 DEF SaveOK, AtRest
    <3>3. Unanswered(c) /\ Assignee(c) = row.assignedTo
      BY <1>8, <1>11, <2>1, <3>2 DEF Unanswered, IsActive, Exists, Assignee
    <3> QED
      BY <1>5, <1>6, <2>1, <3>1, <3>3, TimedStays
  <2> QED
    BY <2>2, <2>3, <2>4, <2>5, <2>6
<1> QED
  BY <1>2, <1>14, <1>15, <1>16 DEF TimedInv, Timed

LEMMA TimedStep ==
  ASSUME IInv, IInv', DutyInv, PlacingInv, TimedInv,
         Watch, NEW t \in Tasks, Step(t)
  PROVE  TimedInv'
<1>1. CASE \/ FindChat(t) \/ Route(t) \/ Flow(t) \/ Reply(t)
           \/ Apologise(t) \/ HandOff(t) \/ AutoAssign(t) \/ Enqueue(t)
           \/ Note(t) \/ CronNext(t) \/ Pop(t)
  <2>1. Forward(t)
    BY <1>1, FindForward, RouteForward, FlowForward, OtherMessageForward,
       AutoAssignForward, EnqueueForward, CronForward, PopForward
  <2>2. /\ task[t].at \in Ordinary /\ Elsewhere(task'[t])
        /\ UNCHANGED <<timer, answered>>
    BY <1>1, NoRelease
  <2> QED
    BY <2>1, <2>2, TimedForward
<1>2. CASE Assign(t) \/ Arm(t) \/ Reassign(t) \/ Release(t) \/ Save(t)
  BY <1>2, TimedAssign, TimedArm, TimedReassign, TimedRelease, TimedSave
<1>3. CASE Throws(t)
  BY <1>3, TimedFail DEF Throws
<1> QED
  BY <1>1, <1>2, <1>3 DEF Step

\* A step that no handler takes.
LEMMA TimedUntouched ==
  ASSUME IInv, TimedInv, Watch, UNCHANGED <<chat, task>>,
         answered \subseteq answered',
         \A c \in Contacts : Spotless(c)' => Spotless(c),
         \A c \in Contacts : \/ timer'[c] = timer[c] \/ c \in answered'
                             \/ ~Spotless(c)'
  PROVE  TimedInv'
<1>1. ASSUME NEW s \in Tasks
      PROVE  (ReleaseOK(task[s]) /\ ArmOK(task[s]))'
  BY TimedBystander
<1>2. ASSUME NEW c \in Contacts, Unanswered(c)'
      PROVE  timer'[c] = Assignee(c)' \/ \E s \in Tasks : SeesTo(task[s], c)'
  <2>1. /\ Unanswered(c) /\ timer'[c] = timer[c]
        /\ Assignee(c)' = Assignee(c)
    BY <1>2 DEF Unanswered, IsActive, Exists, Assignee, Watch
  <2> QED
    BY <2>1, TimedStays
<1> QED
  BY <1>1, <1>2 DEF TimedInv, Timed

\* A handler that begins; it takes a timer away only by being fired by it.
LEMMA TimedStarts ==
  ASSUME IInv, TimedInv, Watch, NEW t \in Tasks, Starts(t)
  PROVE  TimedInv'
<1>1. \/ UNCHANGED <<chat, timer, answered, mishap, task>>
      \/ \E q : /\ task[t] = Idle /\ Become(t, q)
                /\ q.at \in {"find", "release", "assignByHand", "cron", "pop"}
                /\ UNCHANGED <<chat, timer, answered, mishap>>
      \/ \E c \in Contacts : TimerFires(t, c)
  <2>1. ASSUME NEW label \in {"find", "release", "assignByHand", "pop"},
               NEW c, NEW u, NEW q,
               q = Request(label, c, u)
               \/ q = [Request(label, c, u) EXCEPT !.frame = "message"]
        PROVE  q.at = label
    BY <2>1 DEF Request, Idle
  <2>2. ASSUME NEW c \in Contacts, Receive(t, c)
        PROVE  \E q : task[t] = Idle /\ Become(t, q) /\ q.at = "find"
    BY <2>1, <2>2 DEF Receive, Start
  <2>3. ASSUME NEW c \in Contacts, ReleaseByHand(t, c)
        PROVE  \E q : task[t] = Idle /\ Become(t, q) /\ q.at = "release"
    BY <2>1, <2>3 DEF ReleaseByHand, Start
  <2>4. ASSUME NEW c \in Contacts, NEW u \in Users, AssignByHand(t, c, u)
        PROVE  \E q : task[t] = Idle /\ Become(t, q) /\ q.at = "assignByHand"
    BY <2>1, <2>4 DEF AssignByHand, Start
  <2>5. ASSUME NEW C, CronStarts(t, C)
        PROVE  \E q : task[t] = Idle /\ Become(t, q) /\ q.at = "cron"
    <3>1. PICK q : q = [Idle EXCEPT !.at = "cron", !.todo = C]
      OBVIOUS
    <3>2. q.at = "cron"
      BY <3>1 DEF Idle
    <3> QED
      BY <2>5, <3>1, <3>2 DEF CronStarts, Start
  <2>6. ASSUME NEW u \in Users, Connect(t, u), u \in Agents
        PROVE  \E q : task[t] = Idle /\ Become(t, q) /\ q.at = "pop"
    BY <2>1, <2>6 DEF Connect, Start
  <2>7. ASSUME NEW u \in Users, Connect(t, u), u \notin Agents
        PROVE  UNCHANGED <<chat, timer, answered, mishap, task>>
    BY <2>7 DEF Connect
  <2> QED
    BY <2>2, <2>3, <2>4, <2>5, <2>6, <2>7
    DEF Starts, Receive, ReleaseByHand, AssignByHand, CronStarts, Connect
<1>2. CASE UNCHANGED <<chat, timer, answered, mishap, task>>
  BY <1>2, TimedUntouched DEF Spotless
<1>3. ASSUME NEW q, task[t] = Idle, Become(t, q),
             q.at \in {"find", "release", "assignByHand", "cron", "pop"},
             UNCHANGED <<chat, timer, answered, mishap>>
      PROVE  TimedInv'
  <2>1. Elsewhere(q) /\ \A c \in Contacts : ~SeesTo(task[t], c)
    BY <1>3, NullsAssumption DEF Elsewhere, ReleaseOK, SeesTo, Idle
  <2> QED
    BY <1>3, <2>1, TimedMove DEF Spotless
<1>4. ASSUME NEW c \in Contacts, TimerFires(t, c)
      PROVE  TimedInv'
  <2>1. PICK q : q = [Request("reassign", c, timer[c]) EXCEPT
                        !.frame = "timer"]
    OBVIOUS
  <2>2. q.at = "reassign" /\ q.on = c /\ q.who = timer[c]
    BY <2>1 DEF Request, Idle
  <2>3. /\ task[t] = Idle /\ Become(t, q)
        /\ UNCHANGED <<chat, answered, mishap>>
        /\ timer' = [timer EXCEPT ![c] = None]
    BY <1>4, <2>1 DEF TimerFires, Start
  <2>4. task'[t] = q /\ \A s \in Tasks \ {t} : task'[s] = task[s]
    BY <2>3, Becoming
  <2>5. ASSUME NEW s \in Tasks
        PROVE  (ReleaseOK(task[s]) /\ ArmOK(task[s]))'
    BY <2>2, <2>3, <2>4, TimedBystander DEF Spotless, ReleaseOK, ArmOK
  <2>6. ASSUME NEW d \in Contacts, Unanswered(d)'
        PROVE  \/ timer'[d] = Assignee(d)'
               \/ \E s \in Tasks : SeesTo(task[s], d)'
    <3>1. Unanswered(d) /\ Assignee(d)' = Assignee(d)
      BY <2>3, <2>6
      DEF Unanswered, IsActive, Exists, Assignee, Spotless, Watch
    <3>2. ~SeesTo(task[t], d)
      BY <2>3, NullsAssumption DEF SeesTo, Idle
    <3>3. CASE timer[d] = Assignee(d) /\ d = c
      <4>1. SeesTo(task[t], d)'
        BY <2>2, <2>4, <3>1, <3>3 DEF SeesTo
      <4> QED
        BY <4>1
    <3>4. CASE timer[d] = Assignee(d) /\ d # c
      BY <2>3, <3>1, <3>4 DEF IInv, TypeOK
    <3>5. ASSUME NEW s \in Tasks, SeesTo(task[s], d)
          PROVE  SeesTo(task[s], d)'
      BY <2>4, <3>1, <3>2, <3>5, StillSees
    <3> QED
      BY <3>1, <3>3, <3>4, <3>5 DEF TimedInv, Timed
  <2> QED
    BY <2>5, <2>6 DEF TimedInv, Timed
<1> QED
  BY <1>1, <1>2, <1>3, <1>4

\* Around the handler: an agent's message answers or is marked.
LEMMA TimedAround ==
  ASSUME IInv, TimedInv, Watch, Environment \/ UNCHANGED vars
  PROVE  TimedInv'
<1>1. CASE Restart
  BY <1>1, TimedRestart
<1>2. ASSUME NEW c \in Contacts, NEW u \in Users,
             SendAgentMessage(c, u) \/ SendMediaMessage(c, u)
      PROVE  TimedInv'
  <2>1. /\ UNCHANGED <<chat, task>> /\ answered \subseteq answered'
        /\ \A d \in Contacts : Spotless(d)' => Spotless(d)
    BY <1>2 DEF SendAgentMessage, SendMediaMessage, Mark, Spotless
  <2>2. c \in answered' \/ ~Spotless(c)'
    BY <1>2 DEF SendAgentMessage, SendMediaMessage, Mark, Spotless
  <2>3. \A d \in Contacts : timer'[d] = timer[d] \/ d = c
    BY <1>2 DEF SendAgentMessage, SendMediaMessage, IInv, TypeOK
  <2> QED
    BY <2>1, <2>2, <2>3, TimedUntouched
<1>3. ASSUME NEW u \in Users, RemoveUser(u)
      PROVE  TimedInv'
  BY <1>3, TimedUntouched DEF RemoveUser, Mark, Spotless
<1>4. CASE UNCHANGED <<chat, task, timer, answered, mishap>>
  BY <1>4, TimedUntouched DEF Spotless
<1> QED
  BY <1>1, <1>2, <1>3, <1>4
  DEF Environment, Disconnect, RestoreUser, WhatsappDown, WhatsappUp, Crash,
      vars

\* For any number of handlers that overlap, of customers and of users, and
\* with every fault: once no handler is at work on a chat, an agent who holds
\* it and has not written in it is watched by its response timer
\* (chat.service.ts:256, 398-450), unless a fault met the chat or it changed
\* hands just before its timer was started.
THEOREM SilentAgentAlwaysTimed == RaceSpec => []SilentAgentIsTimed
<1> DEFINE Inv == IInv /\ DutyInv /\ PlacingInv /\ TimedInv
<1>1. Init /\ crossed = {} => Inv
  <2> SUFFICES ASSUME Init
               PROVE  TimedInv
    BY IInvInit, DutyInvInit, PlacingInit
  <2>1. /\ \A t \in Tasks : task[t] = Idle
        /\ \A c \in Contacts : ~IsActive(c)
    BY DEF Init, IsActive, Exists
  <2> QED
    BY <2>1 DEF TimedInv, Timed, Unanswered, ReleaseOK, ArmOK, Idle
<1>2. Inv /\ [Next /\ Watch]_<<vars, races>> => Inv'
  <2> SUFFICES ASSUME Inv, [Next /\ Watch]_<<vars, races>>
               PROVE  Inv'
    OBVIOUS
  <2>1. [Next]_vars /\ Watch
    BY StepsWatched
  <2>2. IInv' /\ DutyInv' /\ PlacingInv'
    BY <2>1, IInvNext, DutyInvNext, PlacingNext
  <2>3. TimedInv'
    BY <2>1, <2>2, TimedStep, TimedStarts, TimedAround DEF Next
  <2> QED
    BY <2>2, <2>3
<1>3. Inv => SilentAgentIsTimed
  <2> SUFFICES ASSUME Inv, NEW c \in Contacts \ crossed, Unanswered(c),
                      \A t \in Tasks : task[t].on # c
               PROVE  timer[c] = Assignee(c)
    BY DEF SilentAgentIsTimed, Unanswered, Spotless
  <2> QED
    BY DEF TimedInv, Timed, SeesTo
<1> QED
  BY <1>1, <1>2, <1>3, PTL DEF RaceSpec

-----------------------------------------------------------------------------
(***************************************************************************)
(* A chat goes through the stages of its life.                             *)
(*                                                                         *)
(* A message handler that was not overtaken knows the row it saves over,   *)
(* but for what a failure made of it; the other handlers rely on nothing   *)
(* they read.  The invariant says what each save does to the stage of the  *)
(* chat, if the chat is still followed.                                    *)
(***************************************************************************)
\* What a save does to the stage of the chat.
LifeSave(r) ==
    LET c == r.on
        m == r.mem
    IN \/ /\ r.then = "route"
          /\ IF Exists(c) /\ chat[c].status # "AUTO_RESPONDER"
             THEN /\ m.status = chat[c].status
                  /\ \/ m.assignedTo = chat[c].assignedTo
                     \/ m.assignedTo = None /\ ~Spotless(c)
             ELSE /\ m.status = "AUTO_RESPONDER"
                  /\ m.assignedTo \in {None, Undefined}
       \/ /\ r.then = "flow"
          /\ m.status = "AUTO_RESPONDER" /\ chat[c].status = "CLOSED"
       \/ r.then = "reply" /\ Merge(m, chat[c]) = chat[c]
       \/ /\ r.then = "thanks" /\ r.frame = "try"
          /\ m = Closed(chat[c]) /\ chat[c].status = "AUTO_RESPONDER"
       \/ /\ r.then = "handoff" /\ r.frame \in OnMessage
          /\ m.status = "ACTIVE"
       \/ /\ r.then \in {"autoAssign", "enqueue"}
          /\ r.then = "autoAssign" => r.frame = "message"
          /\ m.status = "PENDING_ASSIGNMENT"
       \/ /\ r.then = "arm" /\ r.who \in Users
          /\ m = [status |-> "ACTIVE", assignedTo |-> r.who]
       \/ r.then \in {"idle", "cron"} /\ m = Bot

\* The message handler's entity agrees with the row about the holder.
Agreeing(r) ==
    \/ r.at \in {"route", "flow", "handoff", "autoAssign"}
    \/ r.at = "save" /\ r.then \in {"flow", "autoAssign", "enqueue"}

\* The bot answers, or makes good for an answer that failed.
Answering(r) ==
    \/ r.frame = "try" \/ r.at = "apology"
    \/ r.at = "save" /\ r.then = "handoff"

\* Its first promise is under way.
Promising(r) ==
    /\ r.frame = "try"
    /\ \/ r.at \in {"handoff", "autoAssign"}
       \/ r.at = "save" /\ r.then \in {"handoff", "enqueue"}

LifeOK(r) ==
    /\ r.at = "route" => r.own = chat[r.on]
    /\ r.at = "flow" => chat[r.on].status = "AUTO_RESPONDER"
    /\ Agreeing(r) => r.kept \in {Undefined, Assignee(r.on)}
    /\ Answering(r) => /\ r.kept \in {None, Undefined}
                       /\ \/ Assignee(r.on) = None
                          \/ chat[r.on].status = "ACTIVE"
    /\ Promising(r) => Assignee(r.on) = None
    /\ r.at = "apology" => r.frame = "message"
    /\ r.at = "save" => LifeSave(r)
    /\ r.frame \notin OnMessage =>
          /\ ~Agreeing(r)
          /\ r.at = "save" => r.then \in {"arm", "idle", "cron"}

\* A chat at rest belongs to no agent.
RestFree ==
    \A c \in Followed :
       Exists(c) /\ chat[c].status \in AtRest => chat[c].assignedTo = None

\* The chat a handler is about is followed.
Told(t) == task[t].on \notin overtaken

LifeInv == /\ RestFree
           /\ overtaken \subseteq Contacts
           /\ \A t \in Tasks : Told(t) => LifeOK(task[t])

-----------------------------------------------------------------------------
(***************************************************************************)
(* The mapping of DeskRaces to ChatLifecycle.                              *)
(***************************************************************************)
AnsweredBy(r, c) == r.on = c /\ r.frame \in OnMessage /\ Answering(r)

stages == [c \in Contacts |-> IF c \in Followed THEN Stage(c) ELSE "untold"]
holders == [c \in Contacts |-> IF c \in Followed THEN Assignee(c) ELSE None]
answers == {c \in Followed : \E t \in Tasks : AnsweredBy(task[t], c)}
marks == {c \in Contacts : mishap[c] # "none"}

LEMMA LifeMapping ==
  /\ answers = {c \in Followed : \E t \in HandlersOf(c) :
                   \/ task[t].frame = "try" \/ task[t].at = "apology"
                   \/ task[t].at = "save" /\ task[t].then = "handoff"}
  /\ answers' = {c \in Followed' : \E t \in HandlersOf(c)' :
                   \/ task'[t].frame = "try" \/ task'[t].at = "apology"
                   \/ task'[t].at = "save" /\ task'[t].then = "handoff"}
  BY DEF answers, AnsweredBy, Answering, HandlersOf, OnMessage

\* Marks stay.
LEMMA MarksStay ==
  ASSUME \A c \in Contacts : Spotless(c)' => Spotless(c)
  PROVE  marks \subseteq marks'
  BY DEF marks, Spotless

\* Nobody is overtaken by a step that changes no chat.
LEMMA LifeQuiet ==
  ASSUME Watch, UNCHANGED chat
  PROVE  UNCHANGED overtaken
  BY DEF Watch, Overtakes

\* Steps after which the chats that are followed are as they were.
LEMMA LifeDone ==
  ASSUME UNCHANGED overtaken, answers' \subseteq answers,
         \A c \in Contacts \ overtaken : chat'[c] = chat[c],
         \A c \in Contacts : Spotless(c)' => Spotless(c)
  PROVE  Lifecycle!Next
<1>1. Followed' = Followed
  BY DEF Followed
<1>2. ASSUME NEW c \in Followed
      PROVE  Stage(c)' = Stage(c) /\ Assignee(c)' = Assignee(c)
  <2>1. PICK row : row = chat[c] /\ row = chat'[c]
    BY DEF Followed
  <2> QED
    BY <2>1 DEF Stage, Assignee, Exists
<1>3. stages' = stages /\ holders' = holders
  BY <1>1, <1>2 DEF stages, holders
<1>4. Lifecycle!Done
  BY <1>3, MarksStay, LifeMapping
  DEF Lifecycle!Done, Lifecycle!Fall, stages, holders, marks
<1> QED
  BY <1>4 DEF Lifecycle!Next

\* What one save makes of one chat.
LEMMA LifeBecomes ==
  ASSUME NEW c \in Followed, NEW row, row # None, UNCHANGED overtaken,
         chat \in [Contacts -> Row \union {None}],
         chat' = [chat EXCEPT ![c] = row],
         \A d \in Contacts : Spotless(d)' => Spotless(d)
  PROVE  /\ Lifecycle!Becomes(c, Stage(c)', row.assignedTo)
         /\ row.status = "AUTO_RESPONDER" => Stage(c)' = "bot"
         /\ row.status = "CLOSED" => Stage(c)' = "closed"
         /\ row.status = "PENDING_ASSIGNMENT" => Stage(c)' = "queued"
         /\ row.status = "ACTIVE" =>
               Stage(c)' = IF row.assignedTo = None THEN "promised"
                           ELSE "held"
<1>1. /\ chat'[c] = row /\ c \in Contacts /\ Followed' = Followed
      /\ \A d \in Contacts \ {c} : chat'[d] = chat[d]
  BY DEF Followed
<1>2. ASSUME NEW d \in Contacts \ {c}
      PROVE  Stage(d)' = Stage(d) /\ Assignee(d)' = Assignee(d)
  <2>1. PICK old : old = chat[d] /\ old = chat'[d]
    BY <1>1
  <2> QED
    BY <2>1 DEF Stage, Assignee, Exists
<1>3. Assignee(c)' = row.assignedTo
  BY <1>1 DEF Assignee, Exists
<1>4. /\ stages' = [stages EXCEPT ![c] = Stage(c)']
      /\ holders' = [holders EXCEPT ![c] = row.assignedTo]
  BY <1>1, <1>2, <1>3 DEF stages, holders
<1>5. Lifecycle!Becomes(c, Stage(c)', row.assignedTo)
  BY <1>4, MarksStay DEF Lifecycle!Becomes, stages, holders, marks
<1> QED
  BY <1>1, <1>5 DEF Stage, Exists

-----------------------------------------------------------------------------
(***************************************************************************)
(* The steps that leave the chats alone.                                   *)
(***************************************************************************)
LEMMA LifeStays ==
  ASSUME NEW r \in Task, LifeOK(r), r.at = "save" => r.on \in Contacts,
         chat'[r.on] = chat[r.on],
         \A c \in Contacts : Spotless(c)' => Spotless(c)
  PROVE  LifeOK(r)'
<1>1. r.at = "save" => (LifeSave(r) => LifeSave(r)')
  BY DEF LifeSave, Exists, Merge, Closed
<1>2. /\ Agreeing(r)' <=> Agreeing(r)
      /\ Answering(r)' <=> Answering(r)
      /\ Promising(r)' <=> Promising(r)
      /\ Assignee(r.on)' = Assignee(r.on)
  BY DEF Agreeing, Answering, Promising, Assignee, Exists
<1> QED
  BY <1>1, <1>2 DEF LifeOK

\* A handler that relies on nothing it read of the chat.
LEMMA LifeUntouched ==
  ASSUME NEW r \in Task, LifeOK(r), PlaceOK(r),
         r.frame \notin OnMessage \/ r.at = "find"
  PROVE  LifeOK(r)'
<1>1. ~Agreeing(r) /\ ~Answering(r) /\ ~Promising(r)
  BY DEF LifeOK, PlaceOK, Agreeing, Answering, Promising, OnMessage
<1>2. r.at \notin {"route", "flow", "apology"}
  BY DEF LifeOK, PlaceOK, OnMessage
<1>3. r.at = "save" => LifeSave(r)'
  BY DEF LifeOK, LifeSave
<1> QED
  BY <1>1, <1>2, <1>3 DEF LifeOK, Agreeing, Answering, Promising

\* A handler that takes no part in a step, and is not overtaken by it.
LEMMA LifeBystander ==
  ASSUME IInv, DutyInv, LifeInv, Watch, NEW s \in Tasks,
         task'[s] = task[s], Told(s)',
         \A c \in Contacts : Spotless(c)' => Spotless(c)
  PROVE  LifeOK(task[s])'
<1>1. PICK r \in Task : /\ r = task[s] /\ r = task'[s] /\ LifeOK(r)
                        /\ TaskOK(r) /\ PlaceOK(r)
  BY PlaceFacts DEF LifeInv, Told, Watch
<1>2. LifeOK(r)'
  <2>1. CASE r.frame \notin OnMessage \/ r.at = "find"
    BY <1>1, <2>1, LifeUntouched
  <2>2. CASE r.frame = "message" /\ r.at \in {"idle", "pop", "cron"}
    BY <1>1, <2>2 DEF LifeOK, Agreeing, Answering, Promising, OnMessage
  <2>3. CASE /\ r.frame \in OnMessage /\ r.at # "find"
             /\ r.frame = "try" \/ r.at \notin {"idle", "pop", "cron"}
    <3>1. r.on \in Contacts /\ s \in HandlersOf(r.on)
      BY <1>1, <2>3 DEF TaskOK, PlaceOK, HandlersOf, OnMessage
    <3>2. ~Overtakes(r.on)
      BY <1>1, <3>1 DEF Watch, Told
    <3>3. chat'[r.on] = chat[r.on]
      BY <1>1, <2>3, <3>1, <3>2 DEF Overtakes, Unaware
    <3> QED
      BY <1>1, <3>1, <3>3, LifeStays
  <2> QED
    BY <2>1, <2>2, <2>3 DEF OnMessage
<1> QED
  BY <1>1, <1>2

\* A step of one handler that changes no chat.
LEMMA LifeMove ==
  ASSUME IInv, IInv', DutyInv, LifeInv, Watch, NEW t \in Tasks, NEW q,
         Become(t, q), UNCHANGED chat, q.on \notin overtaken => LifeOK(q),
         \A c \in Contacts : Spotless(c)' => Spotless(c)
  PROVE  /\ LifeInv'
         /\ (\A c \in Contacts : c \notin overtaken /\ AnsweredBy(q, c)
                                => AnsweredBy(task[t], c))
            => Lifecycle!Next
<1>1. task'[t] = q /\ \A s \in Tasks \ {t} : task'[s] = task[s]
  BY Becoming
<1>2. UNCHANGED overtaken
  BY LifeQuiet
<1>3. q \in Task /\ (q.at = "save" => q.on \in Contacts)
  BY <1>1 DEF IInv, TypeOK, TasksOK, TaskOK
<1>4. LifeInv'
  <2>1. q.on \notin overtaken => LifeOK(q)'
    BY <1>3, LifeStays
  <2>2. \A s \in Tasks : Told(s)' => LifeOK(task[s])'
    BY <1>1, <1>2, <2>1, LifeBystander DEF Told
  <2>3. RestFree'
    BY <1>2 DEF LifeInv, RestFree, Exists, Followed
  <2> QED
    BY <1>2, <2>2, <2>3 DEF LifeInv
<1>5. ASSUME \A c \in Contacts : c \notin overtaken /\ AnsweredBy(q, c)
                                => AnsweredBy(task[t], c)
      PROVE  Lifecycle!Next
  <2>1. \A c \in Contacts \ overtaken, s \in Tasks :
           AnsweredBy(task[s], c)' => AnsweredBy(task[s], c)
    BY <1>1, <1>5 DEF AnsweredBy, Answering
  <2>2. answers' \subseteq answers
    BY <1>2, <2>1 DEF answers, Followed
  <2> QED
    BY <1>2, <2>2, LifeDone
<1> QED
  BY <1>4, <1>5

\* Handlers that have nothing to save or answer.
Plain(r) ==
    /\ r.frame # "try"
    /\ r.at \notin {"route", "flow", "handoff", "autoAssign", "apology",
                    "save"}

LEMMA PlainLife ==
  ASSUME NEW r, Plain(r)
  PROVE  LifeOK(r) /\ \A c : ~AnsweredBy(r, c)
  BY DEF Plain, LifeOK, Agreeing, Answering, Promising, AnsweredBy

LEMMA LifePlain ==
  ASSUME IInv, IInv', DutyInv, LifeInv, Watch, NEW t \in Tasks, NEW q,
         Become(t, q), UNCHANGED chat, Plain(q),
         \A c \in Contacts : Spotless(c)' => Spotless(c)
  PROVE  LifeInv' /\ Lifecycle!Next
<1>1. LifeOK(q) /\ \A c \in Contacts : ~AnsweredBy(q, c)
  BY PlainLife
<1> QED
  BY <1>1, LifeMove

LEMMA IdlePlain == Plain(Idle)
  BY DEF Plain, Idle

\* A handler that goes on in the same frame.
LEMMA LifeOn ==
  ASSUME NEW r, LifeOK(r), NEW q,
         q.frame = r.frame, q.on = r.on, q.kept = r.kept,
         q.at \in {"reply", "thanks", "assign", "note"}
  PROVE  LifeOK(q) /\ \A c : AnsweredBy(q, c) => AnsweredBy(r, c)
<1>1. Answering(q) => Answering(r)
  BY DEF Answering
<1>2. ~Agreeing(q) /\ ~Promising(q)
  BY DEF Agreeing, Promising
<1> QED
  BY <1>1, <1>2 DEF LifeOK, AnsweredBy

LEMMA LifeFacts ==
  ASSUME IInv, DutyInv, PlacingInv, LifeInv, NEW t \in Tasks
  PROVE  /\ task[t] \in Task /\ TaskOK(task[t]) /\ PlaceOK(task[t])
         /\ CarryOK(task[t])
         /\ Told(t) => LifeOK(task[t])
  BY TaskFacts DEF DutyInv, Places, PlacingInv, LifeInv

LEMMA LifeFind ==
  ASSUME IInv, IInv', DutyInv, PlacingInv, LifeInv, Watch,
         NEW t \in Tasks, Told(t), FindChat(t)
  PROVE  LifeInv' /\ Lifecycle!Next
<1>1. PICK r \in Task : r = task[t] /\ PlaceOK(r) /\ TaskOK(r)
  BY LifeFacts
<1>2. /\ r.at = "find" /\ r.frame = "message" /\ r.on \in Contacts
      /\ chat[r.on] \in Row \union {None}
      /\ UNCHANGED <<chat, mishap>>
  BY <1>1, TaskFacts DEF FindChat, PlaceOK
<1>3. PICK m : m = IF ~Exists(r.on)
                   THEN [Bot EXCEPT !.assignedTo = Undefined]
                   ELSE IF chat[r.on].status = "AUTO_RESPONDER" THEN Bot
                   ELSE View(chat[r.on])
  OBVIOUS
<1>4. PICK q : q = [r EXCEPT !.at = "save", !.then = "route", !.mem = m,
                      !.base = chat[r.on], !.kept = m.assignedTo]
  OBVIOUS
<1>5. Become(t, q)
  BY <1>1, <1>3, <1>4 DEF FindChat
<1>6. /\ q.at = "save" /\ q.then = "route" /\ q.mem = m /\ q.on = r.on
      /\ q.frame = "message"
  BY <1>2, <1>4 DEF Task
<1>7. LifeSave(q)
  <2>1. CASE ~Exists(r.on) \/ chat[r.on].status = "AUTO_RESPONDER"
    <3>1. m.status = "AUTO_RESPONDER" /\ m.assignedTo \in {None, Undefined}
      BY <1>3, <2>1 DEF Bot
    <3> QED
      BY <1>6, <2>1, <3>1 DEF LifeSave
  <2>2. CASE Exists(r.on) /\ chat[r.on].status # "AUTO_RESPONDER"
    <3>1. chat[r.on] \in Row /\ m = View(chat[r.on])
      BY <1>2, <1>3, <2>2 DEF Exists
    <3>2. /\ m.status = chat[r.on].status
          /\ m.assignedTo = IF chat[r.on].assignedTo \in registered
                            THEN chat[r.on].assignedTo ELSE None
      BY <3>1 DEF View, Row
    <3>3. Spotless(r.on) => chat[r.on].assignedTo \in registered \union {None}
      BY <1>2, <2>2 DEF PlacingInv, Attended
    <3>4. \/ m.assignedTo = chat[r.on].assignedTo
          \/ m.assignedTo = None /\ ~Spotless(r.on)
      BY <3>2, <3>3
    <3>5. LifeSave(q) <=>
             /\ m.status = chat[r.on].status
             /\ \/ m.assignedTo = chat[r.on].assignedTo
                \/ m.assignedTo = None /\ ~Spotless(r.on)
      BY <1>6, <2>2 DEF LifeSave
    <3> QED
      BY <3>2, <3>4, <3>5
  <2> QED
    BY <2>1, <2>2
<1>8. ~Agreeing(q) /\ ~Answering(q) /\ ~Promising(q)
  BY <1>6 DEF Agreeing, Answering, Promising
<1>9. LifeOK(q) /\ \A c : ~AnsweredBy(q, c)
  BY <1>6, <1>7, <1>8 DEF LifeOK, AnsweredBy, OnMessage
<1>10. \A c \in Contacts : Spotless(c)' => Spotless(c)
  BY <1>2 DEF Spotless
<1> QED
  BY <1>2, <1>5, <1>9, <1>10, LifeMove

\* The saves of the message handler's own entity.
LEMMA LifeSaveOwn ==
  ASSUME IInv, IInv', DutyInv, PlacingInv, LifeInv, Watch,
         NEW t \in Tasks, Told(t), NEW status, NEW label,
         SaveOwn(t, status, label), UNCHANGED <<chat, mishap>>,
         \/ /\ task[t].at = "route" /\ label = "autoAssign"
            /\ status = "PENDING_ASSIGNMENT"
         \/ /\ task[t].at = "route" /\ label = "flow"
            /\ status = "AUTO_RESPONDER" /\ task[t].own.status = "CLOSED"
         \/ /\ task[t].at = "apology" /\ label = "handoff"
            /\ status = "ACTIVE"
         \/ /\ task[t].at = "autoAssign" /\ label = "enqueue"
            /\ status = "PENDING_ASSIGNMENT"
  PROVE  LifeInv' /\ Lifecycle!Next
<1>1. PICK r \in Task : r = task[t] /\ PlaceOK(r) /\ LifeOK(r)
  BY LifeFacts
<1>2. PICK m : m = [status |-> status, assignedTo |-> r.kept]
  OBVIOUS
<1>3. PICK q : q = [r EXCEPT !.at = "save", !.then = label, !.base = r.own,
                             !.mem = m]
  OBVIOUS
<1>4. Become(t, q)
  BY <1>1, <1>2, <1>3 DEF SaveOwn
<1>5. /\ q.at = "save" /\ q.then = label /\ q.mem = m /\ q.on = r.on
      /\ q.frame = r.frame /\ q.kept = r.kept /\ m.status = status
  BY <1>2, <1>3 DEF Task
<1>6. r.at = "route" => r.frame = "message" /\ r.own = chat[r.on]
  BY <1>1 DEF PlaceOK, LifeOK
<1>7. r.at = "apology" => r.frame = "message"
  BY <1>1 DEF LifeOK
<1>8. LifeSave(q)
  BY <1>1, <1>5, <1>6, <1>7 DEF LifeSave, OnMessage
<1>9. /\ Agreeing(q) => Agreeing(r)
      /\ Answering(q) => Answering(r)
      /\ Promising(q) => Promising(r)
  BY <1>1, <1>5, <1>7 DEF Agreeing, Answering, Promising
<1>10. LifeOK(q) /\ \A c \in Contacts : AnsweredBy(q, c) => AnsweredBy(r, c)
  <2>1. r.frame \in OnMessage
    BY <1>1, <1>6, <1>7 DEF LifeOK, Agreeing, OnMessage
  <2> QED
    BY <1>1, <1>5, <1>8, <1>9, <2>1 DEF LifeOK, AnsweredBy
<1>11. \A c \in Contacts : Spotless(c)' => Spotless(c)
  BY DEF Spotless
<1> QED
  BY <1>1, <1>4, <1>10, <1>11, LifeMove

LEMMA LifeGoto ==
  ASSUME IInv, IInv', DutyInv, PlacingInv, LifeInv, Watch,
         NEW t \in Tasks, Told(t), NEW label,
         Goto(t, label), UNCHANGED <<chat, mishap>>,
         \/ /\ task[t].at = "route" /\ label = "flow"
            /\ task[t].own.status = "AUTO_RESPONDER"
         \/ task[t].at = "handoff" /\ label = "autoAssign"
         \/ task[t].at = "enqueue" /\ label = "note"
         \/ task[t].at = "reassign" /\ label = "release"
  PROVE  LifeInv' /\ Lifecycle!Next
<1>1. PICK r \in Task : r = task[t] /\ PlaceOK(r) /\ LifeOK(r)
  BY LifeFacts
<1>2. PICK q : q = [r EXCEPT !.at = label]
  OBVIOUS
<1>3. Become(t, q)
  BY <1>1, <1>2 DEF Goto
<1>4. /\ q.at = label /\ q.on = r.on /\ q.frame = r.frame
      /\ q.kept = r.kept
  BY <1>2 DEF Task
<1>5. r.at = "route" => r.frame = "message" /\ r.own = chat[r.on]
  BY <1>1 DEF PlaceOK, LifeOK
<1>6. /\ Agreeing(q) => Agreeing(r)
      /\ Answering(q) => Answering(r)
      /\ Promising(q) => Promising(r)
  BY <1>1, <1>4, <1>5 DEF Agreeing, Answering, Promising
<1>7. LifeOK(q) /\ \A c \in Contacts : AnsweredBy(q, c) => AnsweredBy(r, c)
  BY <1>1, <1>4, <1>5, <1>6 DEF LifeOK, AnsweredBy
<1>8. \A c \in Contacts : Spotless(c)' => Spotless(c)
  BY DEF Spotless
<1> QED
  BY <1>1, <1>3, <1>7, <1>8, LifeMove

LEMMA LifeEnd ==
  ASSUME IInv, IInv', DutyInv, LifeInv, Watch, NEW t \in Tasks,
         End(t), UNCHANGED chat,
         \A c \in Contacts : Spotless(c)' => Spotless(c)
  PROVE  LifeInv' /\ Lifecycle!Next
  BY IdlePlain, LifePlain DEF End

LEMMA LifeRoute ==
  ASSUME IInv, IInv', DutyInv, PlacingInv, LifeInv, Watch,
         NEW t \in Tasks, Told(t), Route(t)
  PROVE  LifeInv' /\ Lifecycle!Next
<1>1. task[t].at = "route" /\ UNCHANGED <<chat, mishap>>
      /\ \A c \in Contacts : Spotless(c)' => Spotless(c)
  BY DEF Route, Spotless
<1>2. \/ SaveOwn(t, "PENDING_ASSIGNMENT", "autoAssign")
      \/ /\ task[t].own.status = "CLOSED"
         /\ SaveOwn(t, "AUTO_RESPONDER", "flow")
      \/ End(t)
      \/ task[t].own.status = "AUTO_RESPONDER" /\ Goto(t, "flow")
  BY DEF Route
<1> QED
  BY <1>1, <1>2, LifeSaveOwn, LifeEnd, LifeGoto

\* The bot begins to answer.
LEMMA LifeFlow ==
  ASSUME IInv, IInv', DutyInv, PlacingInv, LifeInv, Watch,
         NEW t \in Tasks, Told(t), Flow(t)
  PROVE  LifeInv' /\ Lifecycle!Next
<1>1. PICK r \in Task : /\ r = task[t] /\ r.at = "flow" /\ LifeOK(r)
                        /\ r.on \in Contacts /\ Exists(r.on)
                        /\ r.frame = "message"
  BY LifeFacts DEF Flow, PlaceOK, TaskOK
<1>2. /\ chat[r.on] \in Row /\ chat[r.on].status = "AUTO_RESPONDER"
      /\ Assignee(r.on) = None /\ r.kept \in {None, Undefined}
  <2>1. chat[r.on] \in Row /\ chat[r.on].status = "AUTO_RESPONDER"
    BY <1>1 DEF LifeOK, Exists, IInv, TypeOK
  <2>2. Assignee(r.on) = None
    BY <1>1, <2>1 DEF LifeInv, RestFree, AtRest, Assignee, Followed, Told
  <2> QED
    BY <1>1, <2>1, <2>2 DEF LifeOK, Agreeing
<1>3. UNCHANGED <<chat, mishap>>
      /\ \A c \in Contacts : Spotless(c)' => Spotless(c)
  BY DEF Flow, Spotless
<1>4. PICK f \in Task : f = [r EXCEPT !.frame = "try"]
  BY <1>1 DEF Task
<1>5. f.on = r.on /\ f.own = r.own /\ f.kept = r.kept /\ f.frame = "try"
  BY <1>1, <1>4 DEF Task
<1>6. ASSUME NEW q, Become(t, q), q.on = r.on, q.kept = r.kept,
             q.frame = "try", q.at \in {"reply", "save"},
             q.at = "save" => LifeSave(q),
             q.at = "save" => q.then \in {"reply", "thanks", "handoff"}
      PROVE  LifeInv' /\ Lifecycle!Next
  <2>1. ~Agreeing(q)
    BY <1>6 DEF Agreeing
  <2>2. LifeOK(q)
    BY <1>2, <1>6, <2>1 DEF LifeOK, OnMessage
  <2>3. /\ task'[t] = q /\ UNCHANGED overtaken /\ r.on \in Followed
        /\ \A s \in Tasks \ {t} : task'[s] = task[s]
    BY <1>1, <1>3, <1>6, Becoming, LifeQuiet DEF Told, Followed
  <2>4. answers' = answers \union {r.on}
    <3>1. \A s \in Tasks \ {t}, c \in Contacts :
             AnsweredBy(task[s], c)' <=> AnsweredBy(task[s], c)
      BY <2>3 DEF AnsweredBy, Answering
    <3>2. \A c \in Contacts : /\ ~AnsweredBy(task[t], c)
                              /\ AnsweredBy(task[t], c)' <=> c = r.on
      BY <1>1, <1>6, <2>3 DEF AnsweredBy, Answering, OnMessage
    <3> QED
      BY <2>3, <3>1, <3>2 DEF answers, Followed
  <2>5. stages' = stages /\ holders' = holders /\ marks' = marks
    BY <1>3, <2>3
    DEF stages, holders, marks, Stage, Assignee, Exists, Followed
  <2>6. stages[r.on] = "bot"
    BY <1>1, <1>2, <2>3 DEF stages, Stage
  <2>7. Lifecycle!Answer(r.on)
    BY <1>1, <2>4, <2>5, <2>6, LifeMapping
    DEF Lifecycle!Answer, stages, holders, marks
  <2>8. Lifecycle!Next
    BY <1>1, <2>7 DEF Lifecycle!Next
  <2> QED
    BY <1>3, <1>6, <2>2, <2>8, LifeMove
<1>7. CASE End(t)
  BY <1>3, <1>7, LifeEnd
<1>8. CASE Become(t, [f EXCEPT !.at = "reply"])
  <2>1. PICK q : q = [f EXCEPT !.at = "reply"]
    OBVIOUS
  <2>2. /\ q.at = "reply" /\ q.on = r.on /\ q.kept = r.kept
        /\ q.frame = "try"
    BY <1>5, <2>1 DEF Task
  <2> QED
    BY <1>6, <1>8, <2>1, <2>2
<1>9. ASSUME NEW m, NEW label \in {"reply", "thanks", "handoff"}, NEW base,
             NEW q, Become(t, q),
             q = [f EXCEPT !.at = "save", !.then = label, !.mem = m,
                           !.base = base],
             \/ label = "reply" /\ Merge(m, chat[r.on]) = chat[r.on]
             \/ label = "thanks" /\ m = Closed(chat[r.on])
             \/ label = "handoff" /\ m.status = "ACTIVE"
      PROVE  LifeInv' /\ Lifecycle!Next
  <2>1. /\ q.at = "save" /\ q.then = label /\ q.mem = m /\ q.on = r.on
        /\ q.kept = r.kept /\ q.frame = "try"
    BY <1>5, <1>9 DEF Task
  <2>2. LifeSave(q)
    BY <1>2, <1>9, <2>1 DEF LifeSave, OnMessage
  <2> QED
    BY <1>6, <1>9, <2>1, <2>2
<1> DEFINE Saving(m, label) ==
             [f EXCEPT !.at = "save", !.then = label, !.mem = m,
                       !.base = chat[f.on]]
           active == [status |-> "ACTIVE", assignedTo |-> r.kept]
<1>10. CASE Become(t, Saving([chat[f.on] EXCEPT !.assignedTo = Undefined],
                             "reply"))
  <2>1. PICK m : m = [chat[f.on] EXCEPT !.assignedTo = Undefined]
    OBVIOUS
  <2>2. Merge(m, chat[f.on]) = chat[f.on]
    BY <1>2, <1>5, <2>1, NullRowAssumption DEF Merge, Row
  <2> QED
    BY <1>5, <1>9, <1>10, <2>1, <2>2
<1>11. CASE Become(t, Saving(Closed(chat[f.on]), "thanks"))
  BY <1>5, <1>9, <1>11
<1>12. CASE Become(t, [Saving(active, "handoff") EXCEPT !.base = f.own])
  <2>1. [Saving(active, "handoff") EXCEPT !.base = f.own]
          = [f EXCEPT !.at = "save", !.then = "handoff", !.mem = active,
                      !.base = f.own]
    BY <1>4 DEF Task
  <2>2. active.status = "ACTIVE"
    OBVIOUS
  <2> HIDE DEF active
  <2> QED
    BY <1>5, <1>9, <1>12, <2>1, <2>2
<1> QED
  BY <1>1, <1>4, <1>5, <1>7, <1>8, <1>10, <1>11, <1>12 DEF Flow

-----------------------------------------------------------------------------
(***************************************************************************)
(* The other steps that change no chat.                                    *)
(***************************************************************************)
LEMMA LifeRestart ==
  ASSUME IInv, LifeInv, Watch, Restart
  PROVE  LifeInv' /\ Lifecycle!Next
<1>1. /\ \A t \in Tasks : task'[t] = Idle
      /\ UNCHANGED chat
      /\ \A c \in Contacts : Spotless(c)' => Spotless(c)
  BY DEF Restart, Mark, Spotless
<1>2. Idle.at # "save" /\ LifeOK(Idle) /\ \A c : ~AnsweredBy(Idle, c)
  BY IdlePlain, PlainLife DEF Idle
<1>3. LifeOK(Idle)'
  BY <1>1, <1>2, IdleTask, LifeStays
<1>4. UNCHANGED overtaken
  BY <1>1, LifeQuiet
<1>5. LifeInv'
  BY <1>1, <1>3, <1>4 DEF LifeInv, RestFree, Exists, Followed
<1>6. answers' \subseteq answers
  BY <1>1, <1>2 DEF answers, AnsweredBy, Answering
<1> QED
  BY <1>1, <1>4, <1>5, <1>6, LifeDone

\* What happens around the handlers.
LEMMA LifeAround ==
  ASSUME IInv, DutyInv, LifeInv, Watch, UNCHANGED <<chat, task>>,
         \A c \in Contacts : Spotless(c)' => Spotless(c)
  PROVE  LifeInv' /\ Lifecycle!Next
<1>1. UNCHANGED overtaken
  BY LifeQuiet
<1>2. LifeInv'
  BY <1>1, LifeBystander DEF LifeInv, RestFree, Exists, Followed
<1>3. answers' \subseteq answers
  BY <1>1 DEF answers, AnsweredBy, Answering, Followed
<1> QED
  BY <1>1, <1>2, <1>3, LifeDone

LEMMA LifeOther ==
  ASSUME IInv, IInv', DutyInv, PlacingInv, LifeInv, Watch,
         NEW t \in Tasks, Told(t),
         \/ Reply(t) \/ Apologise(t) \/ HandOff(t) \/ Enqueue(t) \/ Note(t)
         \/ Arm(t)
  PROVE  LifeInv' /\ Lifecycle!Next
<1>1. UNCHANGED <<chat, mishap>>
      /\ \A c \in Contacts : Spotless(c)' => Spotless(c)
  BY DEF Reply, Apologise, HandOff, Enqueue, Note, Arm, Spotless
<1>2. CASE Reply(t) \/ Note(t) \/ Arm(t)
  BY <1>1, <1>2, LifeEnd DEF Reply, Note, Arm
<1>3. CASE Apologise(t)
  BY <1>1, <1>3, LifeSaveOwn DEF Apologise
<1>4. CASE HandOff(t) \/ Enqueue(t)
  BY <1>1, <1>4, LifeGoto DEF HandOff, Enqueue
<1> QED
  BY <1>2, <1>3, <1>4

LEMMA LifeAutoAssign ==
  ASSUME IInv, IInv', DutyInv, PlacingInv, LifeInv, Watch,
         NEW t \in Tasks, Told(t), AutoAssign(t)
  PROVE  LifeInv' /\ Lifecycle!Next
<1>1. task[t].at = "autoAssign" /\ UNCHANGED chat
      /\ \A c \in Contacts : Spotless(c)' => Spotless(c)
  BY DEF AutoAssign, Mark, Spotless
<1>2. CASE QueueUp(t) /\ UNCHANGED mishap
  BY <1>1, <1>2, LifeSaveOwn DEF QueueUp
<1>3. CASE \E a \in LeastLoaded(OnlineAgents) :
              Become(t, [task[t] EXCEPT !.at = "assign", !.who = a])
  <2>1. PICK a : Become(t, [task[t] EXCEPT !.at = "assign", !.who = a])
    BY <1>3
  <2>2. PICK q : q = [task[t] EXCEPT !.at = "assign", !.who = a]
    OBVIOUS
  <2>3. PICK r \in Task : r = task[t] /\ LifeOK(r)
    BY LifeFacts
  <2>4. /\ q.at = "assign" /\ q.on = r.on /\ q.frame = r.frame
        /\ q.kept = r.kept
    BY <2>2, <2>3 DEF Task
  <2>5. LifeOK(q) /\ \A c : AnsweredBy(q, c) => AnsweredBy(r, c)
    BY <2>3, <2>4, LifeOn
  <2> QED
    BY <1>1, <2>1, <2>2, <2>3, <2>5, LifeMove
<1>4. CASE End(t)
  BY <1>1, <1>4, LifeEnd
<1> QED
  BY <1>2, <1>3, <1>4 DEF AutoAssign

LEMMA LifeFail ==
  ASSUME IInv, IInv', DutyInv, PlacingInv, LifeInv, Watch,
         NEW t \in Tasks, Told(t), Fail(t)
  PROVE  LifeInv' /\ Lifecycle!Next
<1>1. PICK r \in Task : r = task[t] /\ LifeOK(r)
  BY LifeFacts
<1>2. CASE r.frame = "try" /\ r.at = "save" /\ r.then = "thanks"
  <2>1. PICK q : q = [r EXCEPT !.at = "thanks"]
    OBVIOUS
  <2>2. /\ q.at = "thanks" /\ q.on = r.on /\ q.frame = r.frame
        /\ q.kept = r.kept
    BY <2>1 DEF Task
  <2>3. LifeOK(q) /\ \A c : AnsweredBy(q, c) => AnsweredBy(r, c)
    BY <1>1, <2>2, LifeOn
  <2>4. Become(t, q) /\ UNCHANGED <<chat, mishap>>
    BY <1>1, <1>2, <2>1 DEF Fail, Goto
  <2> QED
    BY <1>1, <2>3, <2>4, LifeMove DEF Spotless
<1>3. CASE r.frame = "try" /\ ~(r.at = "save" /\ r.then = "thanks")
  <2>1. PICK q : q = [r EXCEPT !.at = "apology", !.frame = "message"]
    OBVIOUS
  <2>2. /\ q.at = "apology" /\ q.on = r.on /\ q.frame = "message"
        /\ q.kept = r.kept
    BY <2>1 DEF Task
  <2>3. Answering(r) /\ ~Agreeing(q) /\ ~Promising(q)
    BY <1>3, <2>2 DEF Answering, Agreeing, Promising
  <2>4. LifeOK(q) /\ \A c : AnsweredBy(q, c) => AnsweredBy(r, c)
    BY <1>1, <1>3, <2>2, <2>3 DEF LifeOK, AnsweredBy, OnMessage
  <2>5. Become(t, q) /\ UNCHANGED <<chat, mishap>>
    BY <1>1, <1>3, <2>1 DEF Fail
  <2> QED
    BY <1>1, <2>4, <2>5, LifeMove DEF Spotless
<1>4. CASE r.frame = "timer"
  BY <1>1, <1>4, LifeRestart DEF Fail
<1>5. CASE r.frame \notin {"try", "timer"}
  <2>1. PICK q : q = IF r.todo # {}
                     THEN [Idle EXCEPT !.at = "cron", !.todo = r.todo]
                     ELSE Idle
    OBVIOUS
  <2>2. Become(t, q) /\ Mark({r.on}, "fault") /\ UNCHANGED chat
    BY <1>1, <1>5, <2>1 DEF Fail
  <2>3. Plain(q)
    BY <2>1 DEF Plain, Idle
  <2>4. \A c \in Contacts : Spotless(c)' => Spotless(c)
    BY <2>2 DEF Mark, Spotless
  <2> QED
    BY <2>2, <2>3, <2>4, LifePlain
<1> QED
  BY <1>2, <1>3, <1>4, <1>5

LEMMA LifeAssign ==
  ASSUME IInv, IInv', DutyInv, PlacingInv, LifeInv, Watch,
         NEW t \in Tasks, Told(t), Assign(t)
  PROVE  LifeInv' /\ Lifecycle!Next
<1> DEFINE active == [status |-> "ACTIVE", assignedTo |-> task[t].who]
<1>1. CASE /\ task[t].at \in {"assign", "assignByHand"}
           /\ task[t].who \in registered
           /\ SaveFresh(t, active, "arm")
           /\ UNCHANGED <<chat, mishap>>
  <2>1. PICK r \in Task : r = task[t] /\ LifeOK(r)
    BY LifeFacts
  <2>2. PICK q : q = [r EXCEPT !.at = "save", !.then = "arm",
                               !.mem = active, !.base = chat[r.on]]
    OBVIOUS
  <2>3. /\ q.at = "save" /\ q.then = "arm" /\ q.mem = active /\ q.on = r.on
        /\ q.frame = r.frame /\ q.kept = r.kept /\ q.who = r.who
    BY <2>2 DEF Task
  <2>4. q.who \in Users
    BY <1>1, <2>1, <2>3 DEF IInv, TypeOK
  <2>5. LifeSave(q)
    BY <2>1, <2>3, <2>4 DEF LifeSave
  <2>6. /\ ~Agreeing(q) /\ ~Promising(q)
        /\ Answering(q) => Answering(r)
    BY <2>3 DEF Agreeing, Promising, Answering
  <2>7. LifeOK(q) /\ \A c : AnsweredBy(q, c) => AnsweredBy(r, c)
    BY <2>1, <2>3, <2>5, <2>6 DEF LifeOK, AnsweredBy
  <2>8. Become(t, q)
    BY <1>1, <2>1, <2>2 DEF SaveFresh
  <2> QED
    BY <1>1, <2>1, <2>7, <2>8, LifeMove DEF Spotless
<1>2. CASE Fail(t)
  BY <1>2, LifeFail
<1>3. CASE End(t) /\ UNCHANGED <<chat, mishap>>
  BY <1>3, LifeEnd DEF Spotless
<1> QED
  BY <1>1, <1>2, <1>3 DEF Assign

LEMMA LifeReassign ==
  ASSUME IInv, IInv', DutyInv, PlacingInv, LifeInv, Watch,
         NEW t \in Tasks, Told(t), Reassign(t)
  PROVE  LifeInv' /\ Lifecycle!Next
<1>1. PICK r \in Task : r = task[t] /\ r.frame \notin OnMessage
  BY LifeFacts DEF Reassign, PlaceOK
<1>2. UNCHANGED <<chat, mishap>>
      /\ \A c \in Contacts : Spotless(c)' => Spotless(c)
  BY DEF Reassign, Spotless
<1>3. CASE End(t)
  BY <1>2, <1>3, LifeEnd
<1>4. CASE \E a \in LeastLoaded(OnlineAgents \ {r.who}) :
              Become(t, [r EXCEPT !.at = "assign", !.who = a])
  <2>1. PICK a : Become(t, [r EXCEPT !.at = "assign", !.who = a])
    BY <1>4
  <2>2. PICK q : q = [r EXCEPT !.at = "assign", !.who = a]
    OBVIOUS
  <2>3. q.at = "assign" /\ q.frame = r.frame
    BY <2>2 DEF Task
  <2>4. Plain(q)
    BY <1>1, <2>3 DEF Plain, OnMessage
  <2> QED
    BY <1>2, <2>1, <2>2, <2>4, LifePlain
<1>5. CASE Goto(t, "release")
  <2>1. PICK q : q = [r EXCEPT !.at = "release"]
    OBVIOUS
  <2>2. q.at = "release" /\ q.frame = r.frame
    BY <2>1 DEF Task
  <2>3. Plain(q) /\ Become(t, q)
    BY <1>1, <1>5, <2>1, <2>2 DEF Plain, OnMessage, Goto
  <2> QED
    BY <1>2, <2>3, LifePlain
<1> QED
  BY <1>1, <1>3, <1>4, <1>5 DEF Reassign

LEMMA LifeRelease ==
  ASSUME IInv, IInv', DutyInv, PlacingInv, LifeInv, Watch,
         NEW t \in Tasks, Told(t), Release(t)
  PROVE  LifeInv' /\ Lifecycle!Next
<1>1. PICK r \in Task : r = task[t] /\ r.frame \notin OnMessage
  BY LifeFacts DEF Release, PlaceOK
<1>2. UNCHANGED <<chat, mishap>>
      /\ \A c \in Contacts : Spotless(c)' => Spotless(c)
  BY DEF Release, Spotless
<1>3. PICK label \in {"idle", "cron"} : SaveFresh(t, Bot, label)
  BY DEF Release, Released
<1>4. PICK q : q = [r EXCEPT !.at = "save", !.then = label, !.mem = Bot,
                             !.base = chat[r.on]]
  OBVIOUS
<1>5. /\ q.at = "save" /\ q.then = label /\ q.mem = Bot
      /\ q.frame = r.frame
  BY <1>4 DEF Task
<1>6. /\ ~Agreeing(q) /\ ~Answering(q) /\ ~Promising(q)
      /\ LifeSave(q)
  BY <1>1, <1>5 DEF Agreeing, Answering, Promising, LifeSave, OnMessage
<1>7. LifeOK(q) /\ \A c : ~AnsweredBy(q, c)
  BY <1>5, <1>6 DEF LifeOK, AnsweredBy
<1>8. Become(t, q)
  BY <1>1, <1>3, <1>4 DEF SaveFresh
<1> QED
  BY <1>2, <1>7, <1>8, LifeMove

LEMMA LifeCronPop ==
  ASSUME IInv, IInv', DutyInv, PlacingInv, LifeInv, Watch,
         NEW t \in Tasks, Told(t), CronNext(t) \/ Pop(t)
  PROVE  LifeInv' /\ Lifecycle!Next
<1>1. PICK r \in Task : r = task[t] /\ r.frame \notin OnMessage
  BY LifeFacts DEF CronNext, Pop, PlaceOK
<1>2. UNCHANGED <<chat, mishap>>
      /\ \A c \in Contacts : Spotless(c)' => Spotless(c)
  BY DEF CronNext, Pop, Spotless
<1>3. CASE End(t)
  BY <1>2, <1>3, LifeEnd
<1>4. CASE \E c : Become(t, [r EXCEPT !.at = "release", !.on = c,
                                      !.todo = @ \ {c}])
  <2>1. PICK c : Become(t, [r EXCEPT !.at = "release", !.on = c,
                                     !.todo = @ \ {c}])
    BY <1>4
  <2>2. PICK q : q = [r EXCEPT !.at = "release", !.on = c,
                               !.todo = @ \ {c}]
    OBVIOUS
  <2>3. q.at = "release" /\ q.frame = r.frame
    BY <2>2 DEF Task
  <2>4. Plain(q)
    BY <1>1, <2>3 DEF Plain, OnMessage
  <2> QED
    BY <1>2, <2>1, <2>2, <2>4, LifePlain
<1>5. CASE \E c : Become(t, [r EXCEPT !.at = "assign", !.on = c])
  <2>1. PICK c : Become(t, [r EXCEPT !.at = "assign", !.on = c])
    BY <1>5
  <2>2. PICK q : q = [r EXCEPT !.at = "assign", !.on = c]
    OBVIOUS
  <2>3. q.at = "assign" /\ q.frame = r.frame
    BY <2>2 DEF Task
  <2>4. Plain(q)
    BY <1>1, <2>3 DEF Plain, OnMessage
  <2> QED
    BY <1>2, <2>1, <2>2, <2>4, LifePlain
<1>6. CASE CronNext(t)
  BY <1>1, <1>4, <1>6 DEF CronNext
<1>7. CASE Pop(t)
  BY <1>1, <1>3, <1>5, <1>7 DEF Pop
<1> QED
  BY <1>6, <1>7

LEMMA LifeStart ==
  ASSUME IInv, IInv', DutyInv, LifeInv, Watch, NEW t \in Tasks, NEW q,
         Start(t, q), UNCHANGED <<chat, mishap>>, q.frame # "try",
         q.at \in {"find", "release", "reassign", "assignByHand", "cron",
                   "pop"}
  PROVE  LifeInv' /\ Lifecycle!Next
<1>1. Plain(q) /\ Become(t, q)
  BY DEF Plain, Start
<1> QED
  BY <1>1, LifePlain DEF Spotless

LEMMA LifeStarts ==
  ASSUME IInv, IInv', DutyInv, LifeInv, Watch, NEW t \in Tasks, Starts(t)
  PROVE  LifeInv' /\ Lifecycle!Next
<1>1. ASSUME NEW c \in Contacts, Receive(t, c)
      PROVE  LifeInv' /\ Lifecycle!Next
  <2>1. PICK q : q = [Request("find", c, None) EXCEPT !.frame = "message"]
    OBVIOUS
  <2>2. q.at = "find" /\ q.frame = "message"
    BY <2>1 DEF Request, Idle
  <2> QED
    BY <1>1, <2>1, <2>2, LifeStart DEF Receive
<1>2. ASSUME NEW c \in Contacts, TimerFires(t, c)
      PROVE  LifeInv' /\ Lifecycle!Next
  <2>1. PICK q : q = [Request("reassign", c, timer[c])
                        EXCEPT !.frame = "timer"]
    OBVIOUS
  <2>2. q.at = "reassign" /\ q.frame = "timer"
    BY <2>1 DEF Request, Idle
  <2> QED
    BY <1>2, <2>1, <2>2, LifeStart DEF TimerFires
<1>3. ASSUME NEW c \in Contacts, ReleaseByHand(t, c)
      PROVE  LifeInv' /\ Lifecycle!Next
  <2>1. PICK q : q = Request("release", c, None)
    OBVIOUS
  <2>2. q.at = "release" /\ q.frame = "none"
    BY <2>1 DEF Request, Idle
  <2> QED
    BY <1>3, <2>1, <2>2, LifeStart DEF ReleaseByHand
<1>4. ASSUME NEW c \in Contacts, NEW u \in Users, AssignByHand(t, c, u)
      PROVE  LifeInv' /\ Lifecycle!Next
  <2>1. PICK q : q = Request("assignByHand", c, u)
    OBVIOUS
  <2>2. q.at = "assignByHand" /\ q.frame = "none"
    BY <2>1 DEF Request, Idle
  <2> QED
    BY <1>4, <2>1, <2>2, LifeStart DEF AssignByHand
<1>5. ASSUME NEW C \in SUBSET Contacts, CronStarts(t, C)
      PROVE  LifeInv' /\ Lifecycle!Next
  <2>1. PICK q : q = [Idle EXCEPT !.at = "cron", !.todo = C]
    OBVIOUS
  <2>2. q.at = "cron" /\ q.frame = "none"
    BY <2>1 DEF Idle
  <2> QED
    BY <1>5, <2>1, <2>2, LifeStart DEF CronStarts
<1>6. ASSUME NEW u \in Users, Connect(t, u)
      PROVE  LifeInv' /\ Lifecycle!Next
  <2>1. PICK q : q = Request("pop", None, u)
    OBVIOUS
  <2>2. q.at = "pop" /\ q.frame = "none"
    BY <2>1 DEF Request, Idle
  <2>3. CASE Start(t, q)
    BY <1>6, <2>2, <2>3, LifeStart DEF Connect
  <2>4. CASE UNCHANGED task
    BY <1>6, <2>4, LifeAround DEF Connect, Spotless
  <2> QED
    BY <1>6, <2>1, <2>3, <2>4 DEF Connect
<1> QED
  BY <1>1, <1>2, <1>3, <1>4, <1>5, <1>6 DEF Starts

LEMMA LifeEnvironment ==
  ASSUME IInv, DutyInv, LifeInv, Watch, Environment
  PROVE  LifeInv' /\ Lifecycle!Next
<1>1. CASE Restart
  BY <1>1, LifeRestart
<1>2. CASE /\ UNCHANGED <<chat, task>>
           /\ \A c \in Contacts : Spotless(c)' => Spotless(c)
  BY <1>2, LifeAround
<1>3. CASE \E u \in Users : Disconnect(u) \/ RemoveUser(u) \/ RestoreUser(u)
  BY <1>2, <1>3 DEF Disconnect, RemoveUser, RestoreUser, Spotless, Mark
<1>4. CASE \E c \in Contacts, u \in Users :
              SendAgentMessage(c, u) \/ SendMediaMessage(c, u)
  BY <1>2, <1>4 DEF SendAgentMessage, SendMediaMessage, Spotless, Mark
<1>5. CASE WhatsappDown \/ WhatsappUp
  BY <1>2, <1>5 DEF WhatsappDown, WhatsappUp, Spotless
<1> QED
  BY <1>1, <1>3, <1>4, <1>5 DEF Environment, Crash

-----------------------------------------------------------------------------
(***************************************************************************)
(* A save: the only step that changes a chat, as the life of a chat has it.*)
(***************************************************************************)
\* The handler t, as r, saves row to the chat of c and becomes q.
Saves(t, r, c, row, q) ==
    /\ r = task[t] /\ r.at = "save" /\ r.on = c
    /\ row = Merge(r.mem, chat[c]) /\ row # None
    /\ chat' = [chat EXCEPT ![c] = row]
    /\ task'[t] = q /\ q.at \notin {"save", "apology"}
    /\ \A s \in Tasks \ {t} : task'[s] = task[s]
    /\ r.then = "idle" => q = Idle
    /\ r.then # "idle" =>
          /\ q.at = r.then /\ q.on = c /\ q.frame = r.frame
          /\ q.kept = r.kept
          /\ r.then \in OwnSaves => q.own = row
    /\ \A d \in Contacts : Spotless(d)' => Spotless(d)

LEMMA LifeSaves ==
  ASSUME IInv, DutyInv, PlacingInv, LifeInv, NEW t \in Tasks, Save(t)
  PROVE  \E r \in Task, c \in Contacts, row \in Row, q \in {task'[t]} :
            Saves(t, r, c, row, q)
<1>1. PICK r \in Task : /\ r = task[t] /\ TaskOK(r) /\ CarryOK(r)
                        /\ r.at = "save" /\ r.on \in Contacts
  BY LifeFacts DEF Save, TaskOK
<1>2. PICK row : row = Merge(r.mem, chat[r.on])
  OBVIOUS
<1>3. PICK q : q = AfterSave(r, row)
  OBVIOUS
<1>4. /\ chat' = [chat EXCEPT ![r.on] = row] /\ Become(t, q)
      /\ \A d \in Contacts : Spotless(d)' => Spotless(d)
  BY <1>1, <1>2, <1>3 DEF Save, AfterSave, Mark, Spotless
<1>5. task'[t] = q /\ \A s \in Tasks \ {t} : task'[s] = task[s]
  BY <1>4, Becoming
<1>6. row \in Row /\ row # None
  BY <1>1, <1>2, <1>4, SaveRow DEF IInv, TypeOK
<1>7. /\ r.then \notin {"save", "apology"}
      /\ r.then = "idle" => q = Idle
      /\ r.then # "idle" =>
            /\ q.at = r.then /\ q.on = r.on /\ q.frame = r.frame
            /\ q.kept = r.kept
            /\ r.then \in OwnSaves => q.own = row
  BY <1>1, <1>3 DEF AfterSave, Task, TaskOK, CarryOK
<1>8. q.at \notin {"save", "apology"}
  BY <1>7 DEF Idle
<1> QED
  BY <1>1, <1>2, <1>4, <1>5, <1>6, <1>7, <1>8 DEF Saves

\* What the chat is before the save, and what it becomes.
LEMMA LifeRow ==
  ASSUME IInv, DutyInv, PlacingInv, LifeInv, NEW t \in Tasks, Told(t),
         NEW r \in Task, NEW c \in Contacts, NEW row \in Row, NEW q,
         Saves(t, r, c, row, q)
  PROVE  /\ LifeSave(r)
         /\ r.then # "route" => Exists(c)
         /\ Exists(c) => chat[c] \in Row /\ Assignee(c) = chat[c].assignedTo
         /\ Exists(c) /\ chat[c].status \in AtRest => Assignee(c) = None
         /\ row.status = r.mem.status
         /\ r.mem.assignedTo # Undefined => row.assignedTo = r.mem.assignedTo
         /\ r.mem.assignedTo = Undefined => row.assignedTo = Assignee(c)
         /\ Agreeing(r) => r.kept \in {Undefined, Assignee(c)}
         /\ r.then \in OwnSaves => r.mem.assignedTo = r.kept
         /\ row.status \in AtRest => row.assignedTo = None
<1>1. /\ r = task[t] /\ r.at = "save" /\ r.on = c
      /\ row = Merge(r.mem, chat[c])
      /\ PlaceOK(r) /\ CarryOK(r) /\ LifeOK(r)
  BY LifeFacts DEF Saves
<1>2. LifeSave(r) /\ (r.then # "route" => Exists(c))
  BY <1>1 DEF LifeOK, PlaceOK
<1>3. Exists(c) => chat[c] \in Row /\ Assignee(c) = chat[c].assignedTo
  BY DEF IInv, TypeOK, Exists, Assignee
<1>4. Exists(c) /\ chat[c].status \in AtRest => Assignee(c) = None
  BY <1>1, <1>3 DEF LifeInv, RestFree, Followed, Told
<1>5. /\ row.status = r.mem.status
      /\ r.mem.assignedTo # Undefined => row.assignedTo = r.mem.assignedTo
      /\ r.mem.assignedTo = Undefined => row.assignedTo = Assignee(c)
  BY <1>1 DEF Merge, Assignee, Exists
<1>6. Agreeing(r) => r.kept \in {Undefined, Assignee(c)}
  BY <1>1 DEF LifeOK
<1>7. r.then \in OwnSaves => r.mem.assignedTo = r.kept
  BY <1>1 DEF CarryOK
<1>8. ASSUME row.status \in AtRest
      PROVE  row.assignedTo = None
  <2>1. CASE r.then = "route"
    <3>1. CASE Exists(c) /\ chat[c].status # "AUTO_RESPONDER"
      <4>1. /\ r.mem.status = chat[c].status
            /\ r.mem.assignedTo \in {None, chat[c].assignedTo}
        BY <1>1, <1>2, <2>1, <3>1 DEF LifeSave
      <4>2. chat[c].assignedTo = None
        BY <1>3, <1>4, <1>5, <1>8, <3>1, <4>1
      <4> QED
        BY <1>3, <1>5, <3>1, <4>1, <4>2
    <3>2. CASE ~(Exists(c) /\ chat[c].status # "AUTO_RESPONDER")
      <4>1. r.mem.assignedTo \in {None, Undefined}
        BY <1>1, <1>2, <2>1, <3>2 DEF LifeSave
      <4>2. Assignee(c) = None
        BY <1>4, <3>2 DEF Assignee, AtRest
      <4> QED
        BY <1>5, <4>1, <4>2
    <3> QED
      BY <3>1, <3>2
  <2>2. CASE r.then = "flow"
    <3>1. chat[c].status = "CLOSED" /\ Exists(c)
      BY <1>1, <1>2, <2>2 DEF LifeSave
    <3>2. Agreeing(r)
      BY <1>1, <2>2 DEF Agreeing
    <3> QED
      BY <1>4, <1>5, <1>6, <1>7, <2>2, <3>1, <3>2 DEF OwnSaves, AtRest
  <2>3. CASE r.then = "reply"
    <3>1. row = chat[c] /\ Exists(c)
      BY <1>1, <1>2, <2>3 DEF LifeSave
    <3> QED
      BY <1>3, <1>4, <1>8, <3>1
  <2>4. CASE r.then = "thanks"
    BY <1>1, <1>2, <1>5, <2>4, NullsAssumption DEF LifeSave, Closed
  <2>5. CASE r.then \in {"handoff", "autoAssign", "enqueue", "arm"}
    BY <1>2, <1>5, <1>8, <2>5 DEF LifeSave, AtRest
  <2>6. CASE r.then \in {"idle", "cron"}
    BY <1>2, <1>5, <2>6, NullsAssumption DEF LifeSave, Bot
  <2> QED
    BY <1>2, <2>1, <2>2, <2>3, <2>4, <2>5, <2>6 DEF LifeSave
<1> QED
  BY <1>2, <1>3, <1>4, <1>5, <1>6, <1>7, <1>8

\* The handler, after its save, knows the chat as it made it.
LEMMA LifeSaved ==
  ASSUME IInv, DutyInv, PlacingInv, LifeInv, NEW t \in Tasks, Told(t),
         NEW r \in Task, NEW c \in Contacts, NEW row \in Row, NEW q,
         Saves(t, r, c, row, q)
  PROVE  /\ LifeOK(q)'
         /\ \A d \in Contacts : AnsweredBy(q, d) => AnsweredBy(r, d)
<1>1. /\ r = task[t] /\ r.at = "save" /\ r.on = c
      /\ PlaceOK(r) /\ LifeOK(r)
      /\ q.at \notin {"save", "apology"}
  BY LifeFacts DEF Saves
<1>2. Exists(c)' /\ chat'[c] = row /\ Assignee(c)' = row.assignedTo
  BY DEF Saves, IInv, TypeOK, Exists, Assignee
<1>3. CASE r.then = "idle"
  <2>1. q = Idle
    BY <1>3 DEF Saves
  <2> QED
    BY <2>1 DEF LifeOK, Agreeing, Answering, Promising, AnsweredBy, Idle
<1>4. CASE r.then # "idle"
  <2>1. /\ q.at = r.then /\ q.on = c /\ q.frame = r.frame
        /\ q.kept = r.kept
        /\ r.then \in OwnSaves => q.own = row
    BY <1>4 DEF Saves
  <2>2. /\ LifeSave(r)
        /\ row.status = r.mem.status
        /\ r.mem.assignedTo # Undefined =>
              row.assignedTo = r.mem.assignedTo
        /\ r.mem.assignedTo = Undefined => row.assignedTo = Assignee(c)
    BY LifeRow
  <2>3. r.then \in OwnSaves => r.mem.assignedTo = r.kept
    BY LifeRow
  <2>4. q.at = "route" => q.own = chat'[q.on]
    BY <1>2, <2>1 DEF OwnSaves
  <2>5. q.at = "flow" => chat'[q.on].status = "AUTO_RESPONDER"
    BY <1>2, <2>1, <2>2 DEF LifeSave
  <2>6. Agreeing(q)' => q.kept \in {Undefined, Assignee(q.on)'}
    BY <1>1, <1>2, <2>1, <2>2, <2>3 DEF Agreeing, OwnSaves
  <2>7. Answering(q) => Answering(r)
    BY <1>1, <2>1 DEF Answering
  <2>8. Promising(q)' => Assignee(q.on)' = None
    <3>1. SUFFICES ASSUME Promising(q)
                   PROVE  row.assignedTo = None
      BY <1>2, <2>1 DEF Promising
    <3>2. r.frame = "try" /\ r.then \in {"handoff", "autoAssign"}
      BY <1>1, <2>1, <3>1 DEF Promising
    <3>3. r.then = "handoff"
      BY <2>2, <3>2 DEF LifeSave
    <3>4. Promising(r) /\ Answering(r)
      BY <1>1, <3>2, <3>3 DEF Promising, Answering
    <3>5. Assignee(c) = None /\ r.kept \in {None, Undefined}
      BY <1>1, <3>4 DEF LifeOK
    <3> QED
      BY <2>2, <2>3, <3>3, <3>5 DEF OwnSaves
  <2>9. ASSUME Answering(q)
        PROVE  /\ q.kept \in {None, Undefined}
               /\ row.assignedTo = None \/ row.status = "ACTIVE"
    <3>1. /\ Answering(r) /\ r.kept \in {None, Undefined}
          /\ \/ Assignee(c) = None
             \/ chat[c].status = "ACTIVE"
      BY <1>1, <2>7, <2>9 DEF LifeOK
    <3>2. r.frame = "try"
      BY <1>1, <2>1, <2>9 DEF Answering
    <3>3. CASE r.then = "reply"
      <4>1. row = chat[c] /\ Exists(c)
        BY <1>1, <2>2, <3>3, LifeRow DEF LifeSave, Saves
      <4> QED
        BY <2>1, <3>1, <4>1 DEF Assignee
    <3>4. CASE r.then = "thanks"
      BY <1>1, <2>1, <2>2, <3>1, <3>4, NullsAssumption
      DEF LifeSave, Closed
    <3>5. CASE r.then \in {"handoff", "arm"}
      BY <2>1, <2>2, <3>1, <3>5 DEF LifeSave
    <3>6. CASE r.then = "enqueue"
      <4>1. Promising(r)
        BY <1>1, <3>2, <3>6 DEF Promising
      <4> QED
        BY <1>1, <2>1, <2>2, <2>3, <3>1, <3>6, <4>1 DEF LifeOK, OwnSaves
    <3>7. r.then \in {"reply", "thanks", "handoff", "arm", "enqueue"}
      <4>1. r.then \notin {"route", "flow", "idle", "cron"}
        BY <1>1, <3>2 DEF PlaceOK, OnMessage
      <4> QED
        BY <2>2, <3>2, <4>1 DEF LifeSave
    <3> QED
      BY <3>3, <3>4, <3>5, <3>6, <3>7
  <2>10. Answering(q)' => /\ q.kept \in {None, Undefined}
                          /\ \/ Assignee(q.on)' = None
                             \/ chat'[q.on].status = "ACTIVE"
    BY <1>2, <2>1, <2>9 DEF Answering
  <2>11. LifeOK(q)'
    <3>1. r.frame \notin OnMessage => r.then \in {"arm", "idle", "cron"}
      BY <1>1 DEF LifeOK
    <3>2. q.frame \notin OnMessage => ~Agreeing(q)
      BY <1>1, <2>1, <3>1 DEF Agreeing
    <3>3. Agreeing(q)' <=> Agreeing(q)
      BY DEF Agreeing
    <3> QED
      BY <1>1, <2>4, <2>5, <2>6, <2>8, <2>10, <3>2, <3>3 DEF LifeOK
  <2> QED
    BY <1>1, <2>1, <2>7, <2>11 DEF AnsweredBy
<1> QED
  BY <1>3, <1>4

\* What the save is in the life of the chat.
LEMMA LifeOfSave ==
  ASSUME IInv, DutyInv, PlacingInv, LifeInv, UNCHANGED overtaken,
         NEW t \in Tasks, Told(t),
         NEW r \in Task, NEW c \in Contacts, NEW row \in Row, NEW q,
         Saves(t, r, c, row, q)
  PROVE  Lifecycle!Next
<1>1. /\ r = task[t] /\ r.at = "save" /\ r.on = c
      /\ PlaceOK(r) /\ LifeOK(r) /\ row # None
      /\ chat' = [chat EXCEPT ![c] = row]
      /\ chat \in [Contacts -> Row \union {None}]
      /\ \A d \in Contacts : Spotless(d)' => Spotless(d)
      /\ c \in Followed /\ Followed' = Followed
  BY LifeFacts DEF Saves, IInv, TypeOK, Told, Followed
<1>2. /\ LifeSave(r)
      /\ r.then # "route" => Exists(c)
      /\ Exists(c) => chat[c] \in Row /\ Assignee(c) = chat[c].assignedTo
      /\ row.status = r.mem.status
      /\ r.mem.assignedTo # Undefined => row.assignedTo = r.mem.assignedTo
      /\ r.mem.assignedTo = Undefined => row.assignedTo = Assignee(c)
      /\ row.status \in AtRest => row.assignedTo = None
  BY LifeRow
<1>3. answers' \subseteq answers
  <2>1. \A d \in Contacts : AnsweredBy(q, d) => AnsweredBy(r, d)
    BY LifeSaved
  <2>2. task'[t] = q /\ \A s \in Tasks \ {t} : task'[s] = task[s]
    BY DEF Saves
  <2>3. \A d \in Contacts, s \in Tasks :
           AnsweredBy(task[s], d)' => AnsweredBy(task[s], d)
    BY <1>1, <2>1, <2>2 DEF AnsweredBy, Answering
  <2> QED
    BY <1>1, <2>3 DEF answers, Followed
<1>4. Lifecycle!Fall
  BY <1>3, LifeMapping DEF Lifecycle!Fall
<1>5. /\ Lifecycle!Becomes(c, Stage(c)', row.assignedTo)
      /\ row.status = "AUTO_RESPONDER" => Stage(c)' = "bot"
      /\ row.status = "CLOSED" => Stage(c)' = "closed"
      /\ row.status = "PENDING_ASSIGNMENT" => Stage(c)' = "queued"
      /\ row.status = "ACTIVE" =>
            Stage(c)' = IF row.assignedTo = None THEN "promised" ELSE "held"
  BY <1>1, LifeBecomes
<1>6. CASE row = chat[c]
  <2>1. chat' = chat
    BY <1>1, <1>6
  <2> QED
    BY <1>1, <1>3, <2>1, LifeDone
<1>7. ASSUME Exists(c), row.status = "PENDING_ASSIGNMENT",
             \/ row.assignedTo = Assignee(c)
             \/ ~Spotless(c) /\ row.assignedTo = None
      PROVE  Lifecycle!Next
  <2>1. Stage(c) # "none"
    BY <1>2, <1>7 DEF Stage, Row, Status
  <2>2. Stage(c)' = "queued" /\ Lifecycle!Becomes(c, "queued", row.assignedTo)
    BY <1>5, <1>7
  <2>3. Lifecycle!Queue(c)
    <3>1. CASE row.assignedTo = Assignee(c)
      <4>1. Lifecycle!Becomes(c, "queued", Assignee(c))
        BY <2>2, <3>1 DEF Lifecycle!Becomes
      <4> QED
        BY <1>1, <1>4, <2>1, <4>1 DEF Lifecycle!Queue, Lifecycle!Becomes
    <3>2. CASE ~Spotless(c) /\ row.assignedTo = None
      <4>1. Lifecycle!Becomes(c, "queued", None) /\ mishap[c] # "none"
        BY <2>2, <3>2 DEF Spotless
      <4> QED
        BY <1>1, <1>4, <2>1, <4>1 DEF Lifecycle!Queue
    <3> QED
      BY <1>7, <3>1, <3>2
  <2> QED
    BY <2>3 DEF Lifecycle!Next
<1>8. ASSUME row.status = "AUTO_RESPONDER"
      PROVE  Lifecycle!Next
  <2>1. Lifecycle!ToBot(c)
    BY <1>2, <1>4, <1>5, <1>8 DEF Lifecycle!ToBot, AtRest
  <2> QED
    BY <2>1 DEF Lifecycle!Next
<1>9. CASE r.then = "route"
  <2>1. CASE ~(Exists(c) /\ chat[c].status # "AUTO_RESPONDER")
    <3>1. row.status = "AUTO_RESPONDER"
      BY <1>1, <1>2, <1>9, <2>1 DEF LifeSave
    <3> QED
      BY <1>8, <3>1
  <2>2. CASE Exists(c) /\ chat[c].status # "AUTO_RESPONDER"
    <3>1. /\ row.status = chat[c].status
          /\ \/ r.mem.assignedTo = chat[c].assignedTo
             \/ r.mem.assignedTo = None /\ ~Spotless(c)
      BY <1>1, <1>2, <1>9, <2>2 DEF LifeSave
    <3>2. CASE row.assignedTo = chat[c].assignedTo
      <4>1. row = chat[c]
        BY <1>2, <2>2, <3>1, <3>2 DEF Row
      <4> QED
        BY <1>6, <4>1
    <3>3. CASE row.assignedTo # chat[c].assignedTo
      <4>1. row.assignedTo = None /\ ~Spotless(c)
        BY <1>2, <2>2, <3>1, <3>3
      <4>2. row.status \notin AtRest
        BY <1>2, <2>2, <3>1, <3>3, <4>1, LifeRow
      <4>3. CASE row.status = "PENDING_ASSIGNMENT"
        BY <1>7, <2>2, <4>1, <4>3
      <4>4. CASE row.status = "ACTIVE"
        <5>1. Stage(c) = "held" /\ Stage(c)' = "promised"
          BY <1>5, <2>2, <3>1, <3>3, <4>1, <4>4 DEF Stage
        <5>2. Lifecycle!Lose(c)
          BY <1>1, <1>4, <1>5, <4>1, <5>1 DEF Lifecycle!Lose, Spotless
        <5> QED
          BY <5>2 DEF Lifecycle!Next
      <4> QED
        BY <4>2, <4>3, <4>4 DEF Row, Status, AtRest
    <3> QED
      BY <3>2, <3>3
  <2> QED
    BY <2>1, <2>2
<1>10. CASE r.then \in {"flow", "idle", "cron"}
  <2>1. row.status = "AUTO_RESPONDER"
    BY <1>2, <1>10 DEF LifeSave, Bot
  <2> QED
    BY <1>8, <2>1
<1>11. CASE r.then = "reply"
  <2>1. row = chat[c]
    BY <1>1, <1>2, <1>11 DEF LifeSave, Saves
  <2> QED
    BY <1>6, <2>1
<1>12. CASE r.then = "thanks"
  <2>1. /\ r.frame = "try" /\ chat[c].status = "AUTO_RESPONDER"
        /\ row.status = "CLOSED" /\ Exists(c)
    BY <1>1, <1>2, <1>12 DEF LifeSave, Closed
  <2>2. Stage(c) = "bot" /\ Stage(c)' = "closed" /\ row.assignedTo = None
    BY <1>2, <1>5, <2>1 DEF Stage, AtRest
  <2>3. c \in answers
    BY <1>1, <2>1 DEF answers, AnsweredBy, Answering, OnMessage
  <2>4. Lifecycle!Close(c)
    BY <1>4, <1>5, <2>2, <2>3, LifeMapping DEF Lifecycle!Close
  <2> QED
    BY <2>4 DEF Lifecycle!Next
<1>13. CASE r.then = "handoff"
  <2>1. /\ r.frame \in OnMessage /\ row.status = "ACTIVE" /\ Exists(c)
        /\ Answering(r)
    BY <1>1, <1>2, <1>13 DEF LifeSave, Answering
  <2>2. /\ r.kept \in {None, Undefined} /\ r.mem.assignedTo = r.kept
        /\ Assignee(c) = None \/ chat[c].status = "ACTIVE"
    BY <1>1, <1>13, <2>1, LifeRow DEF LifeOK, OwnSaves
  <2>3. CASE row.assignedTo = None
    <3>1. c \in answers
      BY <1>1, <2>1 DEF answers, AnsweredBy
    <3>2. Lifecycle!Promise(c)
      BY <1>4, <1>5, <2>1, <2>3, <3>1, LifeMapping DEF Lifecycle!Promise
    <3> QED
      BY <3>2 DEF Lifecycle!Next
  <2>4. CASE row.assignedTo # None
    <3>1. row.assignedTo = Assignee(c) /\ chat[c].status = "ACTIVE"
      BY <1>2, <2>2, <2>4, NullsAssumption
    <3>2. row = chat[c]
      BY <1>2, <2>1, <3>1 DEF Row
    <3> QED
      BY <1>6, <3>2
  <2> QED
    BY <2>3, <2>4
<1>14. CASE r.then \in {"autoAssign", "enqueue"}
  <2>1. Agreeing(r) /\ row.status = "PENDING_ASSIGNMENT" /\ Exists(c)
    BY <1>1, <1>2, <1>14 DEF Agreeing, LifeSave
  <2>2. row.assignedTo = Assignee(c)
    BY <1>2, <1>14, <2>1, LifeRow DEF OwnSaves
  <2> QED
    BY <1>7, <2>1, <2>2
<1>15. CASE r.then = "arm"
  <2>1. /\ r.who \in Users /\ r.who # None /\ r.who # Undefined
        /\ row.status = "ACTIVE" /\ row.assignedTo = r.who /\ Exists(c)
    BY <1>2, <1>15, NullsAssumption DEF LifeSave
  <2>2. Stage(c) # "none" /\ Stage(c)' = "held"
    BY <1>2, <1>5, <2>1 DEF Stage, Row, Status
  <2>3. Lifecycle!Hold(c, r.who)
    BY <1>4, <1>5, <2>1, <2>2 DEF Lifecycle!Hold
  <2> QED
    BY <2>1, <2>3 DEF Lifecycle!Next
<1> QED
  BY <1>2, <1>9, <1>10, <1>11, <1>12, <1>13, <1>14, <1>15 DEF LifeSave

\* A save that overtakes a message handler.
LEMMA LifeLeft ==
  ASSUME NEW t \in Tasks, NEW r \in Task, NEW c \in Contacts,
         NEW row \in Row, NEW q, Saves(t, r, c, row, q),
         chat \in [Contacts -> Row \union {None}],
         overtaken' = overtaken \union {c}
  PROVE  Lifecycle!Next
<1>1. /\ \A d \in Contacts \ {c} : chat'[d] = chat[d]
      /\ \A d \in Contacts : Spotless(d)' => Spotless(d)
      /\ task'[t] = q /\ r = task[t] /\ r.on = c
      /\ q = Idle \/ q.on = c
      /\ \A s \in Tasks \ {t} : task'[s] = task[s]
  BY DEF Saves
<1>2. Followed' = Followed \ {c}
  BY DEF Followed
<1>3. ASSUME NEW d \in Contacts \ {c}
      PROVE  Stage(d)' = Stage(d) /\ Assignee(d)' = Assignee(d)
  <2>1. PICK old : old = chat[d] /\ old = chat'[d]
    BY <1>1
  <2> QED
    BY <2>1 DEF Stage, Assignee, Exists
<1>4. /\ stages' = [stages EXCEPT ![c] = "untold"]
      /\ holders' = [holders EXCEPT ![c] = None]
  BY <1>2, <1>3 DEF stages, holders
<1>5. \A d \in Contacts \ {c}, s \in Tasks :
         AnsweredBy(task[s], d)' => AnsweredBy(task[s], d)
  BY <1>1 DEF AnsweredBy, Answering, Idle, OnMessage
<1>6. answers' \subseteq answers \ {c}
  BY <1>2, <1>5 DEF answers, Followed
<1>7. Lifecycle!Leave(c)
  BY <1>1, <1>4, <1>6, LifeMapping, MarksStay
  DEF Lifecycle!Leave, Lifecycle!Becomes, stages, holders, marks
<1> QED
  BY <1>7 DEF Lifecycle!Next

LEMMA LifeSaving ==
  ASSUME IInv, DutyInv, PlacingInv, LifeInv, Watch,
         NEW t \in Tasks, Told(t), Save(t)
  PROVE  LifeInv' /\ Lifecycle!Next
<1>1. PICK r \in Task, c \in Contacts, row \in Row, q \in {task'[t]} :
         Saves(t, r, c, row, q)
  BY LifeSaves
<1>2. /\ chat \in [Contacts -> Row \union {None}]
      /\ chat'[c] = row /\ \A d \in Contacts \ {c} : chat'[d] = chat[d]
      /\ task'[t] = q /\ \A s \in Tasks \ {t} : task'[s] = task[s]
      /\ \A d \in Contacts : Spotless(d)' => Spotless(d)
  BY <1>1 DEF Saves, IInv, TypeOK
<1>3. overtaken' = overtaken \/ overtaken' = overtaken \union {c}
  BY <1>2 DEF Watch, Overtakes
<1>4. Lifecycle!Next
  BY <1>1, <1>2, <1>3, LifeOfSave, LifeLeft
<1>5. \A s \in Tasks : Told(s)' => LifeOK(task[s])'
  <2>1. LifeOK(q)'
    BY <1>1, LifeSaved
  <2> QED
    BY <1>2, <2>1, LifeBystander
<1>6. RestFree'
  <2>1. row.status \in AtRest => row.assignedTo = None
    BY <1>1, LifeRow
  <2> QED
    BY <1>2, <1>3, <2>1 DEF LifeInv, RestFree, Exists, Followed
<1> QED
  BY <1>3, <1>4, <1>5, <1>6 DEF LifeInv

-----------------------------------------------------------------------------
(***************************************************************************)
(* A handler of a chat that is followed no further.                        *)
(***************************************************************************)
LEMMA LifeUntoldMove ==
  ASSUME IInv, IInv', DutyInv, LifeInv, Watch, NEW t \in Tasks, ~Told(t),
         NEW q, Become(t, q), q.on = task[t].on, UNCHANGED chat,
         \A c \in Contacts : Spotless(c)' => Spotless(c)
  PROVE  LifeInv' /\ Lifecycle!Next
<1>1. q.on \in overtaken
  BY DEF Told
<1>2. \A c \in Contacts : c \notin overtaken => ~AnsweredBy(q, c)
  BY <1>1 DEF AnsweredBy
<1> QED
  BY <1>1, <1>2, LifeMove

LEMMA LifeUntoldSave ==
  ASSUME IInv, DutyInv, PlacingInv, LifeInv, Watch,
         NEW t \in Tasks, ~Told(t), Save(t)
  PROVE  LifeInv' /\ Lifecycle!Next
<1>1. PICK r \in Task, c \in Contacts, row \in Row, q \in {task'[t]} :
         Saves(t, r, c, row, q)
  BY LifeSaves
<1>2. /\ \A d \in Contacts \ {c} : chat'[d] = chat[d]
      /\ task'[t] = q /\ \A s \in Tasks \ {t} : task'[s] = task[s]
      /\ q = Idle \/ q.on = c
      /\ \A d \in Contacts : Spotless(d)' => Spotless(d)
      /\ c \in overtaken
  BY <1>1 DEF Saves, IInv, TypeOK, Told
<1>3. UNCHANGED overtaken
  BY <1>2 DEF Watch, Overtakes
<1>4. \A s \in Tasks : Told(s)' => LifeOK(task[s])'
  <2>1. q = Idle => LifeOK(q)'
    BY DEF LifeOK, Agreeing, Answering, Promising, Idle
  <2>2. Told(t)' => q = Idle
    BY <1>2, <1>3 DEF Told
  <2> QED
    BY <1>2, <2>1, <2>2, LifeBystander
<1>5. LifeInv'
  BY <1>2, <1>3, <1>4 DEF LifeInv, RestFree, Exists, Followed
<1>6. \A d \in Contacts \ overtaken, s \in Tasks :
         AnsweredBy(task[s], d)' => AnsweredBy(task[s], d)
  BY <1>2 DEF AnsweredBy, Answering, Idle, OnMessage
<1>7. answers' \subseteq answers
  BY <1>3, <1>6 DEF answers, Followed
<1> QED
  BY <1>2, <1>3, <1>5, <1>7, LifeDone

LEMMA LifeUntold ==
  ASSUME IInv, IInv', DutyInv, PlacingInv, LifeInv, Watch,
         NEW t \in Tasks, ~Told(t), Step(t)
  PROVE  LifeInv' /\ Lifecycle!Next
<1>1. PICK r \in Task : r = task[t] /\ r.on = task[t].on
  BY LifeFacts
<1> DEFINE Goal == LifeInv' /\ Lifecycle!Next
           Kept == /\ UNCHANGED chat
                   /\ \A c \in Contacts : Spotless(c)' => Spotless(c)
<1>2. ASSUME NEW q, Become(t, q), q.on = r.on, Kept
      PROVE  Goal
  BY <1>1, <1>2, LifeUntoldMove
<1>3. CASE End(t) /\ Kept
  BY <1>3, LifeEnd
<1>4. ASSUME NEW label, Goto(t, label), Kept
      PROVE  Goal
  <2>1. PICK q : q = [r EXCEPT !.at = label]
    OBVIOUS
  <2>2. q.on = r.on
    BY <2>1 DEF Task
  <2> QED
    BY <1>1, <1>2, <1>4, <2>1, <2>2 DEF Goto
<1>5. ASSUME NEW status, NEW label, SaveOwn(t, status, label), Kept
      PROVE  Goal
  <2>1. PICK q : q = [r EXCEPT
                        !.at = "save", !.then = label, !.base = r.own,
                        !.mem = [status |-> status, assignedTo |-> r.kept]]
    OBVIOUS
  <2>2. q.on = r.on
    BY <2>1 DEF Task
  <2> QED
    BY <1>1, <1>2, <1>5, <2>1, <2>2 DEF SaveOwn
<1>6. ASSUME NEW m, NEW label, SaveFresh(t, m, label), Kept
      PROVE  Goal
  <2>1. PICK q : q = [r EXCEPT !.at = "save", !.then = label, !.mem = m,
                               !.base = chat[r.on]]
    OBVIOUS
  <2>2. q.on = r.on
    BY <2>1 DEF Task
  <2> QED
    BY <1>1, <1>2, <1>6, <2>1, <2>2 DEF SaveFresh
<1>7. ASSUME NEW a, Become(t, [r EXCEPT !.at = "assign", !.who = a]), Kept
      PROVE  Goal
  <2>1. PICK q : q = [r EXCEPT !.at = "assign", !.who = a]
    OBVIOUS
  <2>2. q.on = r.on
    BY <2>1 DEF Task
  <2> QED
    BY <1>2, <1>7, <2>1, <2>2
<1>8. CASE FindChat(t)
  <2>1. PICK m, q : /\ Become(t, q)
                    /\ q = [r EXCEPT !.at = "save", !.then = "route",
                              !.mem = m, !.base = chat[r.on],
                              !.kept = m.assignedTo]
    BY <1>1, <1>8 DEF FindChat
  <2>2. q.on = r.on
    BY <2>1 DEF Task
  <2> QED
    BY <1>2, <1>8, <2>1, <2>2 DEF FindChat, Spotless
<1>9. CASE Flow(t)
  <2>1. PICK f \in Task : f = [r EXCEPT !.frame = "try"]
    BY DEF Task
  <2>2. ASSUME NEW q, Become(t, q),
               \/ q = [f EXCEPT !.at = "reply"]
               \/ \E m, label, base :
                     q = [f EXCEPT !.at = "save", !.then = label, !.mem = m,
                                   !.base = base]
        PROVE  Goal
    <3>1. q.on = r.on
      BY <2>1, <2>2 DEF Task
    <3> QED
      BY <1>2, <1>9, <2>2, <3>1 DEF Flow, Spotless
  <2> DEFINE Saving(m, label) ==
               [f EXCEPT !.at = "save", !.then = label, !.mem = m,
                         !.base = chat[f.on]]
             active == [status |-> "ACTIVE", assignedTo |-> f.kept]
  <2>3. ASSUME NEW m, NEW label, Become(t, Saving(m, label))
        PROVE  Goal
    BY <2>2, <2>3
  <2>4. CASE Become(t, [Saving(active, "handoff") EXCEPT !.base = f.own])
    <3>1. [Saving(active, "handoff") EXCEPT !.base = f.own]
            = [f EXCEPT !.at = "save", !.then = "handoff", !.mem = active,
                        !.base = f.own]
      BY <2>1 DEF Task
    <3> HIDE DEF active
    <3> QED
      BY <2>2, <2>4, <3>1
  <2>5. CASE End(t)
    BY <1>3, <1>9, <2>5 DEF Flow, Spotless
  <2>6. CASE Become(t, [f EXCEPT !.at = "reply"])
    BY <2>2, <2>6
  <2>7. CASE \/ Become(t, Saving([chat[f.on] EXCEPT
                                    !.assignedTo = Undefined], "reply"))
             \/ Become(t, Saving(Closed(chat[f.on]), "thanks"))
    BY <2>3, <2>7
  <2> HIDE DEF Saving
  <2>8. \/ End(t) \/ Become(t, [f EXCEPT !.at = "reply"])
        \/ Become(t, Saving([chat[f.on] EXCEPT !.assignedTo = Undefined],
                            "reply"))
        \/ Become(t, Saving(Closed(chat[f.on]), "thanks"))
        \/ Become(t, [Saving(active, "handoff") EXCEPT !.base = f.own])
    BY <1>1, <1>9, <2>1 DEF Flow, Saving
  <2> QED
    BY <2>4, <2>5, <2>6, <2>7, <2>8
<1>10. CASE Fail(t)
  <2>1. CASE Restart
    BY <2>1, LifeRestart
  <2>2. CASE Goto(t, "thanks") /\ Kept
    BY <1>4, <2>2
  <2>3. CASE /\ Become(t, [r EXCEPT !.at = "apology", !.frame = "message"])
             /\ Kept
    <3>1. PICK q : q = [r EXCEPT !.at = "apology", !.frame = "message"]
      OBVIOUS
    <3>2. q.on = r.on
      BY <3>1 DEF Task
    <3> QED
      BY <1>2, <2>3, <3>1, <3>2
  <2>4. ASSUME NEW q, Become(t, q), Kept,
               q = IF r.todo # {}
                   THEN [Idle EXCEPT !.at = "cron", !.todo = r.todo]
                   ELSE Idle
        PROVE  Goal
    <3>1. Plain(q)
      BY <2>4 DEF Plain, Idle
    <3> QED
      BY <2>4, <3>1, LifePlain
  <2>5. UNCHANGED mishap \/ Mark({r.on}, "fault")
        => \A c \in Contacts : Spotless(c)' => Spotless(c)
    BY DEF Mark, Spotless
  <2> QED
    BY <1>1, <1>10, <2>1, <2>2, <2>3, <2>4, <2>5 DEF Fail
<1>11. CASE Route(t) \/ Reply(t) \/ Apologise(t) \/ HandOff(t)
            \/ Enqueue(t) \/ Note(t) \/ Arm(t)
  <2>1. Kept
    BY <1>11
    DEF Route, Reply, Apologise, HandOff, Enqueue, Note, Arm, Spotless
  <2> HIDE DEF Kept
  <2> QED
    BY <1>3, <1>4, <1>5, <1>11, <2>1
    DEF Route, Reply, Apologise, HandOff, Enqueue, Note, Arm
<1>12. CASE AutoAssign(t) \/ Reassign(t) \/ Release(t)
  <2>1. Kept
    BY <1>12 DEF AutoAssign, Reassign, Release, Mark, Spotless
  <2> HIDE DEF Kept
  <2> QED
    BY <1>1, <1>3, <1>4, <1>5, <1>6, <1>7, <1>12, <2>1
    DEF AutoAssign, QueueUp, Reassign, Release
<1>13. CASE Assign(t)
  <2>1. UNCHANGED <<chat, mishap>> => Kept
    BY DEF Spotless
  <2> HIDE DEF Kept
  <2> QED
    BY <1>1, <1>3, <1>6, <1>10, <1>13, <2>1 DEF Assign
<1>14. CASE CronNext(t) \/ Pop(t)
  <2>1. Kept
    BY <1>14 DEF CronNext, Pop, Spotless
  <2>2. r.frame \notin OnMessage
    BY <1>1, <1>14, LifeFacts DEF CronNext, Pop, PlaceOK
  <2>3. ASSUME NEW q, Become(t, q),
               \/ \E c : q = [r EXCEPT !.at = "release", !.on = c,
                                       !.todo = @ \ {c}]
               \/ \E c : q = [r EXCEPT !.at = "assign", !.on = c]
        PROVE  Goal
    <3>1. q.at \in {"release", "assign"} /\ q.frame = r.frame
      BY <2>3 DEF Task
    <3>2. Plain(q)
      BY <2>2, <3>1 DEF Plain, OnMessage
    <3> QED
      BY <2>1, <2>3, <3>2, LifePlain
  <2> HIDE DEF Kept
  <2> QED
    BY <1>1, <1>3, <1>14, <2>1, <2>3 DEF CronNext, Pop
<1>15. CASE Save(t)
  BY <1>15, LifeUntoldSave
<1> QED
  BY <1>8, <1>9, <1>10, <1>11, <1>12, <1>13, <1>14, <1>15 DEF Step, Throws

-----------------------------------------------------------------------------
(***************************************************************************)
(* The chats follow their life.                                            *)
(***************************************************************************)
LEMMA LifeStep ==
  ASSUME IInv, IInv', DutyInv, PlacingInv, LifeInv, Watch,
         NEW t \in Tasks, Told(t), Step(t)
  PROVE  LifeInv' /\ Lifecycle!Next
<1>1. CASE FindChat(t) \/ Save(t) \/ Route(t) \/ Flow(t)
  BY <1>1, LifeFind, LifeSaving, LifeRoute, LifeFlow
<1>2. CASE \/ Reply(t) \/ Apologise(t) \/ HandOff(t) \/ Enqueue(t)
           \/ Note(t) \/ Arm(t)
  BY <1>2, LifeOther
<1>3. CASE AutoAssign(t) \/ Assign(t) \/ Reassign(t) \/ Release(t)
  BY <1>3, LifeAutoAssign, LifeAssign, LifeReassign, LifeRelease
<1>4. CASE CronNext(t) \/ Pop(t)
  BY <1>4, LifeCronPop
<1>5. CASE Throws(t)
  BY <1>5, LifeFail DEF Throws
<1> QED
  BY <1>1, <1>2, <1>3, <1>4, <1>5 DEF Step

LEMMA LifeNext ==
  ASSUME IInv, IInv', DutyInv, PlacingInv, LifeInv, Watch,
         [Next]_vars
  PROVE  LifeInv' /\ Lifecycle!Next
<1>1. ASSUME NEW t \in Tasks, Step(t) \/ Starts(t)
      PROVE  LifeInv' /\ Lifecycle!Next
  BY <1>1, LifeStep, LifeUntold, LifeStarts
<1>2. CASE Environment
  BY <1>2, LifeEnvironment
<1>3. CASE UNCHANGED vars
  BY <1>3, LifeAround DEF vars, Spotless
<1> QED
  BY <1>1, <1>2, <1>3 DEF Next

LEMMA LifeInit ==
  ASSUME Init, overtaken = {}
  PROVE  LifeInv /\ Lifecycle!Init
<1>1. /\ \A t \in Tasks : task[t] = Idle
      /\ \A c \in Contacts : ~Exists(c) /\ mishap[c] = "none"
  BY DEF Init, Exists
<1>2. LifeInv
  BY <1>1, IdlePlain, PlainLife DEF LifeInv, RestFree, Followed
<1>3. answers = {}
  BY <1>1, IdlePlain, PlainLife DEF answers
<1>4. Lifecycle!Init
  BY <1>1, <1>3, LifeMapping DEF Lifecycle!Init, Stage, Assignee, Followed
<1> QED
  BY <1>2, <1>4

\* Handlers that overlap in any number take a chat through the stages of its
\* life and no others (chat.service.ts:73-396, 815-835), for any sets of
\* customers and users, and with every error, restart, outage and deactivated
\* account, until another handler changes the row under a message handler:
\* it is never closed under an agent or while it waits, never leaves an
\* agent for nobody but a deactivated one, and is promised to the agents or
\* closed only by the bot that answers in it.
THEOREM LifecycleIsFollowed == RaceSpec => FollowsLifecycle
<1> DEFINE Inv == IInv /\ DutyInv /\ PlacingInv /\ LifeInv
<1>1. Init /\ overtaken = {} => Inv /\ Lifecycle!Init
  BY IInvInit, DutyInvInit, PlacingInit, LifeInit
<1>2. Inv /\ [Next /\ Watch]_<<vars, races>>
      => Inv' /\ [Lifecycle!Next]_(Lifecycle!vars)
  <2> SUFFICES ASSUME Inv, [Next /\ Watch]_<<vars, races>>
               PROVE  Inv' /\ Lifecycle!Next
    OBVIOUS
  <2>1. [Next]_vars /\ Watch
    BY StepsWatched
  <2>2. IInv' /\ DutyInv' /\ PlacingInv'
    BY <2>1, IInvNext, DutyInvNext, PlacingNext
  <2> QED
    BY <2>1, <2>2, LifeNext
<1> QED
  BY <1>1, <1>2, PTL DEF RaceSpec, FollowsLifecycle, Lifecycle!Spec
=============================================================================
