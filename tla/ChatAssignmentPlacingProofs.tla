-------------------- MODULE ChatAssignmentPlacingProofs --------------------
(***************************************************************************)
(* A chat that waits for an agent, or is active without one, is in the     *)
(* queue or in the hands of a handler that will place it, for any sets of  *)
(* contacts, users and tasks and every choice of faults.                   *)
(*                                                                         *)
(* That alone is not inductive: a handler on its way saves copies of the   *)
(* chat, and ends when it has assigned or queued it.  The invariant says   *)
(* of every save what it may do to the chat, if it is no stale one, and    *)
(* that a handler about to start the timer of an assignment, or to queue   *)
(* an active chat, is never the only one the chat is left to.              *)
(***************************************************************************)
EXTENDS ChatAssignmentProofs

Spotless(c) == mishap[c] = "none"

\* The handler will give its chat an agent, or put it in the queue.
Carries(r) ==
    \/ r.at \in {"handoff", "apology", "autoAssign", "assign"}
    \/ r.at = "save" /\ r.then \in {"handoff", "autoAssign", "enqueue", "arm"}
CarriedBy(r, c) == r.on = c /\ Carries(r)
InHands(r, c) == r.on = c /\ (Carries(r) \/ r.at = "enqueue")

\* A message handler's own entity agrees with the row it saved last.
OwnOK(r) == r.own # None /\ r.kept \in {Undefined, r.own.assignedTo}

\* A save over the row the entity was read from keeps the holder.
KeepsHolder(m, base) ==
    base # None /\ m.assignedTo \in {Undefined, base.assignedTo}

\* What a save over the row it was read from does: it takes the chat from
\* the agents, changes nothing, or keeps it on its way to one.
SaveOK(r) ==
    \/ /\ r.mem.status \in AtRest
       /\ ~Carries(r)
       /\ r.mem.assignedTo \in {None, Undefined} \/ KeepsHolder(r.mem, r.base)
    \/ /\ ~Carries(r)
       /\ r.base # None /\ Merge(r.mem, r.base) = r.base
    \/ /\ r.then \in {"handoff", "autoAssign", "enqueue"}
       /\ r.mem.status = IF r.then = "handoff" THEN "ACTIVE"
                         ELSE "PENDING_ASSIGNMENT"
       /\ KeepsHolder(r.mem, r.base)
    \/ /\ r.then = "arm"
       /\ r.mem = [status |-> "ACTIVE", assignedTo |-> r.who]
       /\ r.who \in registered

CarryOK(r) ==
    /\ \/ r.at \in {"route", "flow", "handoff", "apology", "autoAssign",
                    "enqueue"}
       \/ r.frame = "try"
       => OwnOK(r)
    /\ r.at = "save" => r.then # "apology"
    /\ r.at = "save" /\ r.then \in OwnSaves => r.mem.assignedTo = r.kept
    /\ r.at = "save" /\ Spotless(r.on) => SaveOK(r)

\* The holder of a chat is not deactivated; a chat that waits is queued or
\* in someone's hands; an active one without an agent is on its way.
Attended(c) ==
    Exists(c) /\ Spotless(c) =>
       /\ chat[c].assignedTo \in registered \union {None}
       /\ chat[c].status = "PENDING_ASSIGNMENT" =>
             InQueue(c) \/ \E t \in Tasks : InHands(task[t], c)
       /\ chat[c].status = "ACTIVE" /\ chat[c].assignedTo = None =>
             \E t \in Tasks : CarriedBy(task[t], c)

PlacingInv == /\ \A t \in Tasks : CarryOK(task[t])
              /\ \A c \in Contacts : Attended(c)

\* A step of one handler that leaves the chats alone and drops none.
Forward(t) ==
    /\ \A s \in Tasks \ {t} : task'[s] = task[s]
    /\ UNCHANGED chat
    /\ registered \subseteq registered'
    /\ \A c \in Contacts : Spotless(c)' => Spotless(c)
    /\ CarryOK(task[t])'
    /\ \A c \in Contacts : Spotless(c)' =>
          /\ InQueue(c) => InQueue(c)' \/ CarriedBy(task'[t], c)
          /\ CarriedBy(task[t], c) => CarriedBy(task'[t], c)
          /\ InHands(task[t], c) => InQueue(c)' \/ CarriedBy(task'[t], c)

-----------------------------------------------------------------------------
(***************************************************************************)
(* What is kept, and by which steps.                                       *)
(***************************************************************************)
LEMMA IdleCarry == CarryOK(Idle) /\ CarryOK(Idle)'
  BY DEF CarryOK, Idle

\* A handler that takes no part in a step.
LEMMA CarryStays ==
  ASSUME NEW r \in Task, TaskOK(r), CarryOK(r),
         registered \subseteq registered',
         \A c \in Contacts : Spotless(c)' => Spotless(c)
  PROVE  CarryOK(r)'
<1>1. r.at = "save" => r.on \in Contacts
  BY DEF TaskOK
<1>2. OwnOK(r) => OwnOK(r)'
  BY DEF OwnOK
<1>3. SaveOK(r) => SaveOK(r)'
  BY DEF SaveOK, Carries, KeepsHolder, Merge
<1> QED
  BY <1>1, <1>2, <1>3 DEF CarryOK

LEMMA ForwardKeeps ==
  ASSUME IInv, PlacingInv, NEW t \in Tasks, Forward(t)
  PROVE  PlacingInv'
<1>1. ASSUME NEW s \in Tasks
      PROVE  CarryOK(task[s])'
  <2>1. CASE s = t
    BY <2>1 DEF Forward
  <2>2. CASE s # t
    <3>1. task'[s] = task[s] /\ task[s] \in Task /\ TaskOK(task[s])
          /\ CarryOK(task[s])
      BY <2>2, TaskFacts DEF Forward, PlacingInv
    <3>2. PICK r \in Task : r = task[s]
      BY <3>1
    <3>3. CarryOK(r)'
      BY <3>1, <3>2, CarryStays DEF Forward
    <3> QED
      BY <3>1, <3>2, <3>3
  <2> QED
    BY <2>1, <2>2
<1>2. ASSUME NEW c \in Contacts
      PROVE  Attended(c)'
  <2> SUFFICES ASSUME Exists(c)', Spotless(c)'
               PROVE  Attended(c)'
    BY DEF Attended
  <2>1. Exists(c) /\ Spotless(c) /\ chat'[c] = chat[c]
    BY DEF Forward, Exists
  <2>2. chat'[c].assignedTo \in registered' \union {None}
    BY <2>1 DEF PlacingInv, Attended, Forward
  <2>3. ASSUME chat'[c].status = "PENDING_ASSIGNMENT"
        PROVE  InQueue(c)' \/ \E s \in Tasks : InHands(task'[s], c)
    <3>1. CASE InQueue(c)
      BY <3>1 DEF Forward, CarriedBy, InHands
    <3>2. ASSUME NEW s \in Tasks, InHands(task[s], c)
          PROVE  InQueue(c)' \/ \E u \in Tasks : InHands(task'[u], c)
      BY <3>2 DEF Forward, CarriedBy, InHands
    <3> QED
      BY <2>1, <2>3, <3>1, <3>2 DEF PlacingInv, Attended
  <2>4. ASSUME chat'[c].status = "ACTIVE", chat'[c].assignedTo = None
        PROVE  \E s \in Tasks : CarriedBy(task'[s], c)
    <3>1. PICK s \in Tasks : CarriedBy(task[s], c)
      BY <2>1, <2>4 DEF PlacingInv, Attended
    <3> QED
      BY <3>1 DEF Forward
  <2>5. \A s \in Tasks : /\ InHands(task[s], c)' <=> InHands(task'[s], c)
                         /\ CarriedBy(task[s], c)' <=> CarriedBy(task'[s], c)
    BY DEF InHands, CarriedBy, Carries
  <2> QED
    BY <2>2, <2>3, <2>4, <2>5 DEF Attended
<1> QED
  BY <1>1, <1>2 DEF PlacingInv

\* A step that moves its handler and touches neither chats nor accounts.
LEMMA ForwardTo ==
  ASSUME IInv, NEW t \in Tasks, NEW q, Become(t, q), CarryOK(q),
         q.at = "save" => q.on \in Contacts,
         UNCHANGED <<chat, registered>>,
         \A c \in Contacts : Spotless(c)' => Spotless(c),
         \A c \in Contacts : Spotless(c)' =>
            /\ InQueue(c) => InQueue(c)' \/ CarriedBy(q, c)
            /\ CarriedBy(task[t], c) => CarriedBy(q, c)
            /\ InHands(task[t], c) => InQueue(c)' \/ CarriedBy(q, c)
  PROVE  Forward(t)
<1>1. task'[t] = q /\ \A s \in Tasks \ {t} : task'[s] = task[s]
  BY Becoming
<1>2. CarryOK(q)'
  BY DEF CarryOK, OwnOK, SaveOK, Carries, KeepsHolder, Merge
<1>3. CarryOK(task[t])'
  BY <1>1, <1>2 DEF CarryOK, OwnOK, SaveOK, Carries, KeepsHolder, Merge
<1> QED
  BY <1>1, <1>3 DEF Forward

\* The same for a handler that had nothing in its hands.
LEMMA ForwardFree ==
  ASSUME IInv, NEW t \in Tasks, NEW q, Become(t, q), CarryOK(q),
         q.at = "save" => q.on \in Contacts,
         ~Carries(task[t]), task[t].at # "enqueue",
         UNCHANGED <<chat, registered, queue>>,
         \A c \in Contacts : Spotless(c)' => Spotless(c)
  PROVE  Forward(t)
<1>1. \A c \in Contacts : /\ ~CarriedBy(task[t], c) /\ ~InHands(task[t], c)
                          /\ InQueue(c) => InQueue(c)'
  BY DEF CarriedBy, InHands, InQueue
<1> QED
  BY <1>1, ForwardTo

\* The same for one that keeps its chat in its hands.
LEMMA ForwardCarried ==
  ASSUME IInv, NEW t \in Tasks, NEW q, Become(t, q), CarryOK(q),
         Carries(q), q.on = task[t].on, q.on \in Contacts,
         UNCHANGED <<chat, registered, queue>>,
         \A c \in Contacts : Spotless(c)' => Spotless(c)
  PROVE  Forward(t)
<1>1. \A c \in Contacts : /\ InHands(task[t], c) => CarriedBy(q, c)
                          /\ CarriedBy(task[t], c) => CarriedBy(q, c)
                          /\ InQueue(c) => InQueue(c)'
  BY DEF CarriedBy, InHands, InQueue
<1> QED
  BY <1>1, ForwardTo

\* And for one that leaves its chat with a mark.
LEMMA ForwardMarked ==
  ASSUME IInv, NEW t \in Tasks, NEW q, Become(t, q), CarryOK(q),
         q.at # "save", Mark({task[t].on}, "fault"),
         UNCHANGED <<chat, registered, queue>>
  PROVE  Forward(t)
<1>1. \A c \in Contacts : Spotless(c)' => Spotless(c) /\ c # task[t].on
  BY DEF Mark, Spotless
<1>2. \A c \in Contacts : Spotless(c)' =>
         /\ ~CarriedBy(task[t], c) /\ ~InHands(task[t], c)
         /\ InQueue(c) => InQueue(c)'
  BY <1>1 DEF CarriedBy, InHands, InQueue
<1> QED
  BY <1>1, <1>2, ForwardTo

LEMMA PlacingFacts ==
  ASSUME IInv, PlacingInv, NEW t \in Tasks
  PROVE  task[t] \in Task /\ TaskOK(task[t]) /\ CarryOK(task[t])
  BY TaskFacts DEF PlacingInv

-----------------------------------------------------------------------------
(***************************************************************************)
(* The steps of a message handler.                                         *)
(***************************************************************************)
LEMMA EndForward ==
  ASSUME IInv, PlacingInv, NEW t \in Tasks, End(t),
         ~Carries(task[t]), task[t].at # "enqueue",
         UNCHANGED <<chat, registered, queue, mishap>>
  PROVE  Forward(t)
<1>1. \A c \in Contacts : Spotless(c)' => Spotless(c)
  BY DEF Spotless
<1>2. Idle.at # "save"
  BY DEF Idle
<1> QED
  BY <1>1, <1>2, IdleCarry, ForwardFree DEF End

LEMMA FindForward ==
  ASSUME IInv, DutyInv, PlacingInv, NEW t \in Tasks, FindChat(t)
  PROVE  Forward(t)
<1>1. PICK r \in Task : r = task[t]
  BY PlacingFacts
<1>2. /\ r.at = "find" /\ r.frame = "message" /\ r.on \in Contacts
      /\ chat[r.on] \in Row \union {None}
      /\ UNCHANGED <<chat, queue, people, mishap>>
  BY <1>1, PlaceFacts, TaskFacts DEF FindChat, PlaceOK
<1>3. PICK m : m = IF ~Exists(r.on)
                   THEN [Bot EXCEPT !.assignedTo = Undefined]
                   ELSE IF chat[r.on].status = "AUTO_RESPONDER" THEN Bot
                   ELSE View(chat[r.on])
  OBVIOUS
<1>4. PICK q : q = [r EXCEPT !.at = "save", !.then = "route", !.mem = m,
                      !.base = chat[r.on], !.kept = m.assignedTo]
  OBVIOUS
<1>5. Become(t, q)
  BY <1>1, <1>3, <1>4 DEF FindChat
<1>6. /\ q.at = "save" /\ q.then = "route" /\ q.mem = m /\ q.on = r.on
      /\ q.base = chat[r.on] /\ q.kept = m.assignedTo /\ q.frame = "message"
  BY <1>1, <1>2, <1>4 DEF Task
<1>7. ASSUME Spotless(r.on)
      PROVE  SaveOK(q)
  <2>1. ~Carries(q)
    BY <1>6 DEF Carries
  <2>2. CASE ~Exists(r.on) \/ chat[r.on].status = "AUTO_RESPONDER"
    <3>1. m.status = "AUTO_RESPONDER" /\ m.assignedTo \in {None, Undefined}
      BY <1>3, <2>2 DEF Bot
    <3> QED
      BY <1>6, <2>1, <3>1 DEF SaveOK, AtRest
  <2>3. CASE Exists(r.on) /\ chat[r.on].status # "AUTO_RESPONDER"
    <3>1. chat[r.on] \in Row /\ chat[r.on] # None
      BY <1>2, <2>3 DEF Exists
    <3>2. chat[r.on].assignedTo \in registered \union {None}
      BY <1>2, <1>7, <2>3 DEF PlacingInv, Attended
    <3>3. m = chat[r.on]
      BY <1>3, <2>3, <3>1, <3>2 DEF View, Row
    <3>4. Merge(m, chat[r.on]) = chat[r.on]
      BY <3>1, <3>3, NullsAssumption DEF Merge, Row
    <3> QED
      BY <1>6, <2>1, <3>1, <3>4 DEF SaveOK
  <2> QED
    BY <2>2, <2>3
<1>8. CarryOK(q)
  BY <1>6, <1>7 DEF CarryOK
<1>9. ~Carries(task[t]) /\ task[t].at # "enqueue"
  BY <1>1, <1>2 DEF Carries
<1> QED
  BY <1>2, <1>5, <1>6, <1>8, <1>9, ForwardFree DEF Spotless, people

\* The status that the message handler saves before each step.
HandedWith(label, status) ==
    \/ label = "flow" /\ status = "AUTO_RESPONDER"
    \/ label = "handoff" /\ status = "ACTIVE"
    \/ label \in {"autoAssign", "enqueue"} /\ status = "PENDING_ASSIGNMENT"

\* The message handler's own saves: the chat stays with who holds it.
LEMMA SaveOwnCarry ==
  ASSUME IInv, PlacingInv, NEW t \in Tasks,
         task[t].at \in {"route", "apology", "autoAssign"},
         NEW status, NEW label,
         HandedWith(label, status),
         NEW q, q = [task[t] EXCEPT
                        !.at = "save", !.then = label, !.base = task[t].own,
                        !.mem = [status |-> status,
                                 assignedTo |-> task[t].kept]]
  PROVE  /\ CarryOK(q) /\ q.on = task[t].on /\ q.on \in Contacts
         /\ label # "flow" => Carries(q)
<1>1. PICK r \in Task : r = task[t] /\ OwnOK(r) /\ r.on \in Contacts
  BY PlacingFacts DEF CarryOK, TaskOK
<1>2. /\ q.at = "save" /\ q.then = label /\ q.base = r.own /\ q.on = r.on
      /\ q.mem = [status |-> status, assignedTo |-> r.kept]
      /\ q.kept = r.kept /\ q.own = r.own
  BY <1>1 DEF Task
<1>3. OwnOK(q) /\ KeepsHolder(q.mem, q.base)
  BY <1>1, <1>2 DEF OwnOK, KeepsHolder
<1>4. SaveOK(q) /\ (label # "flow" => Carries(q))
  BY <1>2, <1>3 DEF SaveOK, Carries, AtRest, HandedWith
<1>5. q.then # "apology" /\ q.mem.assignedTo = q.kept
  BY <1>2 DEF HandedWith
<1> QED
  BY <1>1, <1>2, <1>3, <1>4, <1>5 DEF CarryOK

LEMMA RouteForward ==
  ASSUME IInv, PlacingInv, NEW t \in Tasks, Route(t)
  PROVE  Forward(t)
<1>1. /\ task[t].at = "route" /\ ~Carries(task[t])
      /\ UNCHANGED <<chat, registered, queue, mishap>>
      /\ \A c \in Contacts : Spotless(c)' => Spotless(c)
  BY DEF Route, Carries, people, Spotless
<1>2. CASE \/ SaveOwn(t, "PENDING_ASSIGNMENT", "autoAssign")
           \/ SaveOwn(t, "AUTO_RESPONDER", "flow")
  <2>1. PICK status, label :
           /\ SaveOwn(t, status, label)
           /\ HandedWith(label, status)
    BY <1>2 DEF HandedWith
  <2>2. PICK q : q = [task[t] EXCEPT
                        !.at = "save", !.then = label, !.base = task[t].own,
                        !.mem = [status |-> status,
                                 assignedTo |-> task[t].kept]]
    OBVIOUS
  <2>3. Become(t, q)
    BY <2>1, <2>2 DEF SaveOwn
  <2>4. CarryOK(q) /\ q.on \in Contacts
    BY <1>1, <2>1, <2>2, SaveOwnCarry
  <2> QED
    BY <1>1, <2>3, <2>4, ForwardFree
<1>3. CASE End(t)
  BY <1>1, <1>3, EndForward
<1>4. CASE Goto(t, "flow")
  <2>1. PICK q : q = [task[t] EXCEPT !.at = "flow"]
    OBVIOUS
  <2>2. /\ q.at = "flow" /\ q.own = task[t].own /\ q.kept = task[t].kept
    BY <2>1, PlacingFacts DEF Task
  <2>3. CarryOK(q)
    BY <1>1, <2>2, PlacingFacts DEF CarryOK, OwnOK
  <2> QED
    BY <1>1, <1>4, <2>1, <2>2, <2>3, ForwardFree DEF Goto
<1> QED
  BY <1>2, <1>3, <1>4 DEF Route

LEMMA FlowForward ==
  ASSUME IInv, PlacingInv, NEW t \in Tasks, Flow(t)
  PROVE  Forward(t)
<1>1. PICK r \in Task : r = task[t] /\ OwnOK(r) /\ r.at = "flow"
                        /\ r.on \in Contacts /\ Exists(r.on)
  BY PlacingFacts DEF Flow, CarryOK, TaskOK
<1>2. /\ ~Carries(task[t]) /\ task[t].at # "enqueue"
      /\ UNCHANGED <<chat, registered, queue, mishap>>
      /\ \A c \in Contacts : Spotless(c)' => Spotless(c)
      /\ chat[r.on] \in Row
  BY <1>1 DEF Flow, Carries, people, Spotless, Exists, IInv, TypeOK
<1>3. PICK f \in Task : f = [r EXCEPT !.frame = "try"]
  BY <1>1 DEF Task
<1>4. f.on = r.on /\ f.own = r.own /\ f.kept = r.kept
  BY <1>1, <1>3 DEF Task
<1>5. CASE End(t)
  BY <1>2, <1>5, EndForward
<1>6. CASE Become(t, [f EXCEPT !.at = "reply"])
  <2>1. PICK q : q = [f EXCEPT !.at = "reply"]
    OBVIOUS
  <2>2. q.at = "reply" /\ q.own = r.own /\ q.kept = r.kept
    BY <1>4, <2>1 DEF Task
  <2>3. CarryOK(q)
    BY <1>1, <2>2 DEF CarryOK, OwnOK
  <2> QED
    BY <1>2, <1>6, <2>1, <2>2, <2>3, ForwardFree
<1>7. ASSUME NEW m, NEW label \in {"reply", "thanks", "handoff"}, NEW base,
             NEW q, Become(t, q),
             q = [f EXCEPT !.at = "save", !.then = label, !.mem = m,
                           !.base = base],
             \/ label = "reply" /\ base # None /\ Merge(m, base) = base
             \/ label = "thanks" /\ m = Closed(chat[r.on])
             \/ /\ label = "handoff" /\ m.status = "ACTIVE"
                /\ m.assignedTo = r.kept /\ base = r.own
      PROVE  Forward(t)
  <2>1. /\ q.at = "save" /\ q.then = label /\ q.mem = m /\ q.base = base
        /\ q.own = r.own /\ q.kept = r.kept /\ q.on = r.on
    BY <1>4, <1>7 DEF Task
  <2>2. SaveOK(q)
    BY <1>1, <1>7, <2>1
    DEF SaveOK, Carries, AtRest, Closed, KeepsHolder, OwnOK
  <2>3. CarryOK(q)
    BY <1>1, <1>7, <2>1, <2>2 DEF CarryOK, OwnOK, OwnSaves
  <2> QED
    BY <1>1, <1>2, <1>7, <2>1, <2>3, ForwardFree
<1> DEFINE Saving(m, label) ==
             [f EXCEPT !.at = "save", !.then = label, !.mem = m,
                       !.base = chat[f.on]]
           active == [status |-> "ACTIVE", assignedTo |-> r.kept]
<1>8. CASE Become(t, Saving([chat[f.on] EXCEPT !.assignedTo = Undefined],
                            "reply"))
  <2>1. PICK m : m = [chat[f.on] EXCEPT !.assignedTo = Undefined]
    OBVIOUS
  <2>2. chat[f.on] # None /\ Merge(m, chat[f.on]) = chat[f.on]
    BY <1>2, <1>4, <2>1, NullRowAssumption DEF Merge, Row
  <2> QED
    BY <1>7, <1>8, <2>1, <2>2
<1>9. CASE Become(t, Saving(Closed(chat[f.on]), "thanks"))
  BY <1>4, <1>7, <1>9
<1>10. CASE Become(t, [Saving(active, "handoff") EXCEPT !.base = f.own])
  <2>1. [Saving(active, "handoff") EXCEPT !.base = f.own]
          = [f EXCEPT !.at = "save", !.then = "handoff", !.mem = active,
                      !.base = f.own]
    BY <1>3 DEF Task
  <2>2. active.status = "ACTIVE" /\ active.assignedTo = r.kept
    OBVIOUS
  <2> HIDE DEF active
  <2> QED
    BY <1>4, <1>7, <1>10, <2>1, <2>2
<1> QED
  BY <1>1, <1>3, <1>4, <1>5, <1>6, <1>8, <1>9, <1>10 DEF Flow

LEMMA OtherMessageForward ==
  ASSUME IInv, PlacingInv, NEW t \in Tasks,
         Reply(t) \/ Apologise(t) \/ HandOff(t) \/ Note(t)
  PROVE  Forward(t)
<1>1. /\ UNCHANGED <<chat, registered, queue, mishap>>
      /\ \A c \in Contacts : Spotless(c)' => Spotless(c)
  BY DEF Reply, Apologise, HandOff, Note, people, Spotless
<1>2. CASE Reply(t) \/ Note(t)
  BY <1>1, <1>2, EndForward DEF Reply, Note, Carries
<1>3. CASE Apologise(t)
  <2>0. PICK label, status :
           /\ label = "handoff" /\ status = "ACTIVE"
           /\ HandedWith(label, status)
    BY DEF HandedWith
  <2>1. PICK q : q = [task[t] EXCEPT
                        !.at = "save", !.then = label, !.base = task[t].own,
                        !.mem = [status |-> status,
                                 assignedTo |-> task[t].kept]]
    OBVIOUS
  <2>2. Become(t, q) /\ task[t].at = "apology"
    BY <1>3, <2>0, <2>1 DEF Apologise, SaveOwn
  <2>3. /\ CarryOK(q) /\ q.on = task[t].on /\ q.on \in Contacts
        /\ label # "flow" => Carries(q)
    BY <2>0, <2>1, <2>2, SaveOwnCarry
  <2>4. Carries(q)
    BY <2>0, <2>3
  <2> QED
    BY <1>1, <2>2, <2>3, <2>4, ForwardCarried
<1>4. CASE HandOff(t)
  <2>1. PICK q : q = [task[t] EXCEPT !.at = "autoAssign"]
    OBVIOUS
  <2>2. Become(t, q) /\ task[t].at = "handoff"
    BY <1>4, <2>1 DEF HandOff, Goto
  <2>3. /\ q.at = "autoAssign" /\ q.on = task[t].on /\ q.own = task[t].own
        /\ q.kept = task[t].kept
    BY <2>1, PlacingFacts DEF Task
  <2>4. CarryOK(q) /\ Carries(q) /\ q.on \in Contacts
    BY <2>2, <2>3, PlacingFacts DEF CarryOK, OwnOK, Carries, TaskOK
  <2> QED
    BY <1>1, <2>2, <2>3, <2>4, ForwardCarried
<1> QED
  BY <1>2, <1>3, <1>4

-----------------------------------------------------------------------------
(***************************************************************************)
(* The steps of an assignment.                                             *)
(***************************************************************************)
\* A handler that goes on about a user keeps its own entity.
LEMMA TurnCarry ==
  ASSUME IInv, PlacingInv, NEW t \in Tasks, NEW u, NEW q,
         q = [task[t] EXCEPT !.at = "assign", !.who = u]
  PROVE  CarryOK(q) /\ Carries(q) /\ q.on = task[t].on
<1>1. /\ q.at = "assign" /\ q.on = task[t].on /\ q.own = task[t].own
      /\ q.kept = task[t].kept /\ q.frame = task[t].frame
  BY PlacingFacts DEF Task
<1> QED
  BY <1>1, PlacingFacts DEF CarryOK, OwnOK, Carries

LEMMA AutoAssignForward ==
  ASSUME IInv, PlacingInv, NEW t \in Tasks, AutoAssign(t)
  PROVE  Forward(t)
<1>1. /\ task[t].at = "autoAssign" /\ task[t].on \in Contacts
      /\ UNCHANGED <<chat, registered, queue>>
  BY PlacingFacts DEF AutoAssign, people, TaskOK
<1>2. CASE QueueUp(t) /\ UNCHANGED mishap
  <2>0. PICK label, status :
           /\ label = "enqueue" /\ status = "PENDING_ASSIGNMENT"
           /\ HandedWith(label, status)
    BY DEF HandedWith
  <2>1. PICK q : q = [task[t] EXCEPT
                        !.at = "save", !.then = label, !.base = task[t].own,
                        !.mem = [status |-> status,
                                 assignedTo |-> task[t].kept]]
    OBVIOUS
  <2>2. Become(t, q)
    BY <1>2, <2>0, <2>1 DEF QueueUp, SaveOwn
  <2>3. /\ CarryOK(q) /\ q.on = task[t].on /\ q.on \in Contacts
        /\ label # "flow" => Carries(q)
    BY <1>1, <2>0, <2>1, SaveOwnCarry
  <2>4. Carries(q)
    BY <2>0, <2>3
  <2> QED
    BY <1>1, <1>2, <2>2, <2>3, <2>4, ForwardCarried DEF Spotless
<1>3. CASE /\ UNCHANGED mishap
           /\ \E a \in LeastLoaded(OnlineAgents) :
                 Become(t, [task[t] EXCEPT !.at = "assign", !.who = a])
  <2>1. PICK a : Become(t, [task[t] EXCEPT !.at = "assign", !.who = a])
    BY <1>3
  <2>2. PICK q : q = [task[t] EXCEPT !.at = "assign", !.who = a]
    OBVIOUS
  <2>3. CarryOK(q) /\ Carries(q) /\ q.on = task[t].on
    BY <2>2, TurnCarry
  <2> QED
    BY <1>1, <1>3, <2>1, <2>2, <2>3, ForwardCarried DEF Spotless
<1>4. CASE End(t) /\ Mark({task[t].on}, "fault")
  <2>1. Idle.at # "save"
    BY DEF Idle
  <2> QED
    BY <1>1, <1>4, <2>1, IdleCarry, ForwardMarked DEF End
<1> QED
  BY <1>2, <1>3, <1>4 DEF AutoAssign

LEMMA EnqueueForward ==
  ASSUME IInv, PlacingInv, NEW t \in Tasks, Enqueue(t)
  PROVE  Forward(t)
<1>1. /\ task[t].at = "enqueue" /\ task[t].on \in Contacts
      /\ UNCHANGED <<chat, registered, mishap>>
      /\ queue \in Seq(Contacts) /\ queue' = <<task[t].on>> \o queue
  BY PlacingFacts DEF Enqueue, people, TaskOK, IInv, TypeOK
<1>2. PICK q : q = [task[t] EXCEPT !.at = "note"]
  OBVIOUS
<1>3. /\ q.at = "note" /\ q.own = task[t].own /\ q.kept = task[t].kept
      /\ q.frame = task[t].frame
  BY <1>2, PlacingFacts DEF Task
<1>4. CarryOK(q) /\ Become(t, q)
  BY <1>2, <1>3, PlacingFacts DEF CarryOK, OwnOK, Enqueue, Goto
<1>5. 1 \in DOMAIN queue' /\ queue'[1] = task[t].on
  BY <1>1
<1>6. ASSUME NEW c \in Contacts, InQueue(c)
      PROVE  InQueue(c)'
  <2>1. PICK k \in DOMAIN queue : queue[k] = c
    BY <1>6 DEF InQueue
  <2>2. k + 1 \in DOMAIN queue' /\ queue'[k + 1] = c
    BY <1>1, <2>1
  <2> QED
    BY <2>2 DEF InQueue
<1>7. \A c \in Contacts : /\ ~CarriedBy(task[t], c)
                          /\ InHands(task[t], c) => InQueue(c)'
  BY <1>1, <1>5 DEF CarriedBy, Carries, InHands, InQueue
<1> QED
  BY <1>1, <1>3, <1>4, <1>6, <1>7, ForwardTo DEF Spotless

LEMMA SaveFreshCarry ==
  ASSUME IInv, PlacingInv, NEW t \in Tasks,
         task[t].at \in {"assign", "assignByHand", "release"},
         NEW m, NEW label \in {"arm", "cron", "idle"},
         \/ label = "arm" /\ task[t].who \in registered
            /\ m = [status |-> "ACTIVE", assignedTo |-> task[t].who]
         \/ label # "arm" /\ m = Bot,
         NEW q, q = [task[t] EXCEPT !.at = "save", !.then = label, !.mem = m,
                                    !.base = chat[task[t].on]]
  PROVE  /\ CarryOK(q) /\ q.on = task[t].on /\ q.on \in Contacts
         /\ label = "arm" => Carries(q)
<1>1. PICK r \in Task : r = task[t] /\ r.on \in Contacts /\ CarryOK(r)
  BY PlacingFacts DEF TaskOK
<1>2. /\ q.at = "save" /\ q.then = label /\ q.mem = m /\ q.on = r.on
      /\ q.own = r.own /\ q.kept = r.kept /\ q.frame = r.frame
      /\ q.who = r.who
  BY <1>1 DEF Task
<1>3. SaveOK(q) /\ (label = "arm" => Carries(q))
  BY <1>1, <1>2 DEF SaveOK, Carries, Bot, AtRest
<1>4. CarryOK(q)
  BY <1>1, <1>2, <1>3 DEF CarryOK, OwnOK, OwnSaves
<1> QED
  BY <1>1, <1>2, <1>3, <1>4

\* An exception leaves the chat with a mark, or with the apology.
LEMMA FailForward ==
  ASSUME IInv, PlacingInv, NEW t \in Tasks, Fail(t)
  PROVE  Forward(t) \/ Restart
<1>1. PICK r \in Task : r = task[t] /\ TaskOK(r) /\ CarryOK(r)
  BY PlacingFacts
<1>2. CASE r.frame = "try" /\ r.at = "save" /\ r.then = "thanks"
  <2>1. PICK q : q = [r EXCEPT !.at = "thanks"]
    OBVIOUS
  <2>2. /\ q.at = "thanks" /\ q.own = r.own /\ q.kept = r.kept
    BY <1>1, <2>1 DEF Task
  <2>3. CarryOK(q)
    BY <1>1, <1>2, <2>2 DEF CarryOK, OwnOK
  <2>4. Become(t, q) /\ UNCHANGED <<chat, registered, queue, mishap>>
    BY <1>1, <1>2, <2>1 DEF Fail, Goto, people
  <2>5. ~Carries(task[t]) /\ task[t].at # "enqueue"
    BY <1>1, <1>2 DEF Carries
  <2> QED
    BY <2>2, <2>3, <2>4, <2>5, ForwardFree DEF Spotless
<1>3. CASE r.frame = "try" /\ ~(r.at = "save" /\ r.then = "thanks")
  <2>1. PICK q : q = [r EXCEPT !.at = "apology", !.frame = "message"]
    OBVIOUS
  <2>2. /\ q.at = "apology" /\ q.own = r.own /\ q.kept = r.kept
        /\ q.on = r.on
    BY <1>1, <2>1 DEF Task
  <2>3. CarryOK(q) /\ Carries(q)
    BY <1>1, <1>3, <2>2 DEF CarryOK, OwnOK, Carries
  <2>4. Become(t, q) /\ UNCHANGED <<chat, registered, queue, mishap>>
    BY <1>1, <1>3, <2>1 DEF Fail, people
  <2>5. \A c \in Contacts : /\ InHands(task[t], c) => CarriedBy(q, c)
                            /\ CarriedBy(task[t], c) => CarriedBy(q, c)
                            /\ InQueue(c) => InQueue(c)'
    BY <1>1, <2>2, <2>3, <2>4 DEF InHands, CarriedBy, InQueue
  <2> QED
    BY <2>2, <2>3, <2>4, <2>5, ForwardTo DEF Spotless
<1>4. CASE r.frame = "timer"
  BY <1>1, <1>4 DEF Fail
<1>5. CASE r.frame \notin {"try", "timer"}
  <2>1. PICK q : q = IF r.todo # {}
                     THEN [Idle EXCEPT !.at = "cron", !.todo = r.todo]
                     ELSE Idle
    OBVIOUS
  <2>2. Become(t, q) /\ Mark({task[t].on}, "fault")
        /\ UNCHANGED <<chat, registered, queue>>
    BY <1>1, <1>5, <2>1 DEF Fail, people
  <2>3. CarryOK(q) /\ q.at # "save"
    BY <2>1 DEF CarryOK, Idle
  <2> QED
    BY <2>2, <2>3, ForwardMarked
<1> QED
  BY <1>2, <1>3, <1>4, <1>5

LEMMA AssignForward ==
  ASSUME IInv, PlacingInv, NEW t \in Tasks, Assign(t)
  PROVE  Forward(t) \/ Restart
<1> DEFINE m == [status |-> "ACTIVE", assignedTo |-> task[t].who]
<1>1. CASE /\ task[t].at \in {"assign", "assignByHand"}
           /\ task[t].who \in registered
           /\ SaveFresh(t, m, "arm")
           /\ UNCHANGED <<chat, registered, queue, mishap>>
  <2>1. PICK q : q = [task[t] EXCEPT !.at = "save", !.then = "arm",
                        !.mem = m, !.base = chat[task[t].on]]
    OBVIOUS
  <2>2. CarryOK(q) /\ q.on = task[t].on /\ q.on \in Contacts /\ Carries(q)
    BY <1>1, <2>1, SaveFreshCarry
  <2> QED
    BY <1>1, <2>1, <2>2, ForwardCarried DEF SaveFresh, Spotless
<1>2. CASE Fail(t)
  BY <1>2, FailForward
<1>3. CASE /\ task[t].at = "assignByHand" /\ End(t)
           /\ UNCHANGED <<chat, registered, queue, mishap>>
  BY <1>3, EndForward DEF Carries
<1> QED
  BY <1>1, <1>2, <1>3 DEF Assign, people

LEMMA ReassignForward ==
  ASSUME IInv, PlacingInv, NEW t \in Tasks, Reassign(t)
  PROVE  Forward(t)
<1>1. /\ task[t].at = "reassign" /\ task[t].on \in Contacts
      /\ ~Carries(task[t])
      /\ UNCHANGED <<chat, registered, queue, mishap>>
  BY PlacingFacts DEF Reassign, people, TaskOK, Carries
<1>2. CASE End(t)
  BY <1>1, <1>2, EndForward
<1>3. CASE \E a \in LeastLoaded(OnlineAgents \ {task[t].who}) :
              Become(t, [task[t] EXCEPT !.at = "assign", !.who = a])
  <2>1. PICK a : Become(t, [task[t] EXCEPT !.at = "assign", !.who = a])
    BY <1>3
  <2>2. PICK q : q = [task[t] EXCEPT !.at = "assign", !.who = a]
    OBVIOUS
  <2>3. CarryOK(q) /\ Carries(q) /\ q.on = task[t].on
    BY <2>2, TurnCarry
  <2> QED
    BY <1>1, <2>1, <2>2, <2>3, ForwardCarried DEF Spotless
<1>4. CASE Goto(t, "release")
  <2>1. PICK q : q = [task[t] EXCEPT !.at = "release"]
    OBVIOUS
  <2>2. /\ q.at = "release" /\ q.own = task[t].own /\ q.kept = task[t].kept
        /\ q.frame = task[t].frame
    BY <2>1, PlacingFacts DEF Task
  <2>3. CarryOK(q)
    BY <2>2, PlacingFacts DEF CarryOK, OwnOK
  <2> QED
    BY <1>1, <1>4, <2>1, <2>2, <2>3, ForwardFree DEF Goto, Spotless
<1> QED
  BY <1>2, <1>3, <1>4 DEF Reassign

-----------------------------------------------------------------------------
(***************************************************************************)
(* Releasing, connecting, new handlers, and what happens around them.      *)
(***************************************************************************)
LEMMA ReleaseForward ==
  ASSUME IInv, PlacingInv, NEW t \in Tasks, Release(t)
  PROVE  Forward(t)
<1>1. /\ task[t].at = "release" /\ ~Carries(task[t])
      /\ UNCHANGED <<chat, registered, queue, mishap>>
  BY DEF Release, people, Carries
<1>2. PICK label \in {"idle", "cron"} : SaveFresh(t, Bot, label)
  BY DEF Release, Released
<1>3. PICK q : q = [task[t] EXCEPT !.at = "save", !.then = label,
                      !.mem = Bot, !.base = chat[task[t].on]]
  OBVIOUS
<1>4. CarryOK(q) /\ q.on \in Contacts
  BY <1>1, <1>3, SaveFreshCarry
<1> QED
  BY <1>1, <1>2, <1>3, <1>4, ForwardFree DEF SaveFresh, Spotless

LEMMA CronForward ==
  ASSUME IInv, PlacingInv, NEW t \in Tasks, CronNext(t)
  PROVE  Forward(t)
<1>1. /\ task[t].at = "cron" /\ ~Carries(task[t])
      /\ UNCHANGED <<chat, registered, queue, mishap>>
  BY DEF CronNext, people, Carries
<1>2. PICK c : Become(t, [task[t] EXCEPT !.at = "release", !.on = c,
                                         !.todo = @ \ {c}])
  BY DEF CronNext
<1>3. PICK q : q = [task[t] EXCEPT !.at = "release", !.on = c,
                                   !.todo = @ \ {c}]
  OBVIOUS
<1>4. /\ q.at = "release" /\ q.own = task[t].own /\ q.kept = task[t].kept
      /\ q.frame = task[t].frame
  BY <1>3, PlacingFacts DEF Task
<1>5. CarryOK(q)
  BY <1>4, PlacingFacts DEF CarryOK, OwnOK
<1> QED
  BY <1>1, <1>2, <1>3, <1>4, <1>5, ForwardFree DEF Spotless

\* The chat that is popped is in the hands of the handler that popped it.
LEMMA PopForward ==
  ASSUME IInv, PlacingInv, NEW t \in Tasks, Pop(t)
  PROVE  Forward(t)
<1>1. /\ task[t].at = "pop" /\ ~Carries(task[t]) /\ queue \in Seq(Contacts)
      /\ UNCHANGED <<chat, registered, mishap>>
  BY DEF Pop, people, Carries, IInv, TypeOK
<1>2. CASE End(t) /\ UNCHANGED queue
  BY <1>1, <1>2, EndForward
<1>3. CASE /\ queue # <<>>
           /\ queue' = SubSeq(queue, 1, Len(queue) - 1)
           /\ Become(t, [task[t] EXCEPT !.at = "assign",
                                        !.on = queue[Len(queue)]])
  <2>1. PICK c : c = queue[Len(queue)]
    OBVIOUS
  <2>2. PICK q : q = [task[t] EXCEPT !.at = "assign", !.on = c]
    OBVIOUS
  <2>3. /\ q.at = "assign" /\ q.on = c /\ q.own = task[t].own
        /\ q.kept = task[t].kept /\ q.frame = task[t].frame
    BY <2>2, PlacingFacts DEF Task
  <2>4. CarryOK(q) /\ CarriedBy(q, c)
    BY <2>3, PlacingFacts DEF CarryOK, OwnOK, CarriedBy, Carries
  <2>5. ASSUME NEW d \in Contacts, InQueue(d)
        PROVE  InQueue(d)' \/ CarriedBy(q, d)
    <3>1. PICK k \in DOMAIN queue : queue[k] = d
      BY <2>5 DEF InQueue
    <3>2. CASE k = Len(queue)
      BY <2>1, <2>4, <3>1, <3>2
    <3>3. CASE k # Len(queue)
      <4>1. k \in DOMAIN queue' /\ queue'[k] = d
        BY <1>1, <1>3, <3>1, <3>3
      <4> QED
        BY <4>1 DEF InQueue
    <3> QED
      BY <3>2, <3>3
  <2>6. \A d \in Contacts : ~CarriedBy(task[t], d) /\ ~InHands(task[t], d)
    BY <1>1 DEF CarriedBy, InHands
  <2> QED
    BY <1>1, <1>3, <2>1, <2>2, <2>3, <2>4, <2>5, <2>6, ForwardTo
    DEF Spotless
<1> QED
  BY <1>2, <1>3 DEF Pop

\* The steps that begin a handler: it holds nothing yet.
LEMMA StartForward ==
  ASSUME IInv, NEW t \in Tasks, NEW q, Start(t, q),
         q.at \notin {"save", "route", "flow", "handoff", "apology",
                      "autoAssign", "enqueue"},
         q.frame # "try",
         UNCHANGED <<chat, registered, queue, mishap>>
  PROVE  Forward(t)
<1>1. CarryOK(q) /\ q.at # "save"
  BY DEF CarryOK
<1>2. ~Carries(task[t]) /\ task[t].at # "enqueue"
  BY DEF Start, Carries, Idle
<1> QED
  BY <1>1, <1>2, ForwardFree DEF Start, Spotless

LEMMA StartsForward ==
  ASSUME IInv, NEW t \in Tasks, Starts(t)
  PROVE  Forward(t) \/ UNCHANGED <<chat, registered, queue, mishap, task>>
<1>1. ASSUME NEW c \in Contacts, Receive(t, c)
      PROVE  Forward(t)
  <2>1. PICK q : q = [Request("find", c, None) EXCEPT !.frame = "message"]
    OBVIOUS
  <2>2. q.at = "find" /\ q.frame = "message"
    BY <2>1 DEF Request, Idle
  <2> QED
    BY <1>1, <2>1, <2>2, StartForward DEF Receive, people
<1>2. ASSUME NEW c \in Contacts, TimerFires(t, c)
      PROVE  Forward(t)
  <2>1. PICK q : q = [Request("reassign", c, timer[c])
                        EXCEPT !.frame = "timer"]
    OBVIOUS
  <2>2. q.at = "reassign" /\ q.frame = "timer"
    BY <2>1 DEF Request, Idle
  <2> QED
    BY <1>2, <2>1, <2>2, StartForward DEF TimerFires, people
<1>3. ASSUME NEW c \in Contacts, ReleaseByHand(t, c)
      PROVE  Forward(t)
  <2>1. PICK q : q = Request("release", c, None)
    OBVIOUS
  <2>2. q.at = "release" /\ q.frame = "none"
    BY <2>1 DEF Request, Idle
  <2> QED
    BY <1>3, <2>1, <2>2, StartForward DEF ReleaseByHand, people
<1>4. ASSUME NEW c \in Contacts, NEW u \in Users, AssignByHand(t, c, u)
      PROVE  Forward(t)
  <2>1. PICK q : q = Request("assignByHand", c, u)
    OBVIOUS
  <2>2. q.at = "assignByHand" /\ q.frame = "none"
    BY <2>1 DEF Request, Idle
  <2> QED
    BY <1>4, <2>1, <2>2, StartForward DEF AssignByHand, people
<1>5. ASSUME NEW C \in SUBSET Contacts, CronStarts(t, C)
      PROVE  Forward(t)
  <2>1. PICK q : q = [Idle EXCEPT !.at = "cron", !.todo = C]
    OBVIOUS
  <2>2. q.at = "cron" /\ q.frame = "none"
    BY <2>1 DEF Idle
  <2> QED
    BY <1>5, <2>1, <2>2, StartForward DEF CronStarts, people
<1>6. ASSUME NEW u \in Users, Connect(t, u)
      PROVE  Forward(t) \/ UNCHANGED <<chat, registered, queue, mishap, task>>
  <2>1. PICK q : q = Request("pop", None, u)
    OBVIOUS
  <2>2. q.at = "pop" /\ q.frame = "none"
    BY <2>1 DEF Request, Idle
  <2> QED
    BY <1>6, <2>1, <2>2, StartForward DEF Connect
<1> QED
  BY <1>1, <1>2, <1>3, <1>4, <1>5, <1>6 DEF Starts

\* What happens around the handlers, a deactivated account and a restart
\* left aside.
LEMMA AroundKeeps ==
  ASSUME IInv, PlacingInv, UNCHANGED <<chat, queue, task>>,
         registered \subseteq registered',
         \A c \in Contacts : Spotless(c)' => Spotless(c)
  PROVE  PlacingInv'
<1>1. ASSUME NEW s \in Tasks
      PROVE  CarryOK(task[s])'
  <2>1. PICK r \in Task : r = task[s] /\ TaskOK(r) /\ CarryOK(r)
    BY PlacingFacts
  <2>2. CarryOK(r)' /\ task'[s] = r
    BY <2>1, CarryStays
  <2> QED
    BY <2>1, <2>2
<1>2. ASSUME NEW c \in Contacts
      PROVE  Attended(c)'
  BY DEF PlacingInv, Attended, Exists, InQueue, InHands, CarriedBy, Carries
<1> QED
  BY <1>1, <1>2 DEF PlacingInv

\* A restart loses the handlers, and marks the chats they were about.
LEMMA RestartPlacing ==
  ASSUME IInv, PlacingInv, Restart
  PROVE  PlacingInv'
<1>1. \A s \in Tasks : task'[s] = Idle
  BY DEF Restart
<1>2. \A s \in Tasks : CarryOK(task[s])'
  BY <1>1, IdleCarry
<1>3. ASSUME NEW c \in Contacts, Exists(c)', Spotless(c)'
      PROVE  Attended(c)'
  <2>1. Spotless(c) /\ \A s \in Tasks : task[s].on # c
    BY <1>3 DEF Restart, Mark, Spotless
  <2>2. \A s \in Tasks : ~InHands(task[s], c) /\ ~CarriedBy(task[s], c)
    BY <2>1 DEF InHands, CarriedBy
  <2>3. Attended(c) /\ Exists(c)
        /\ UNCHANGED <<chat, queue, registered>>
    BY <1>3 DEF PlacingInv, Restart, Exists
  <2> QED
    BY <2>1, <2>2, <2>3 DEF Attended, InQueue
<1> QED
  BY <1>2, <1>3 DEF PlacingInv, Attended

\* A deactivated account marks the chats of its user, and those a handler
\* is about to give to that user.
LEMMA RemovalPlacing ==
  ASSUME IInv, PlacingInv, NEW u \in Users, RemoveUser(u)
  PROVE  PlacingInv'
<1>1. UNCHANGED <<chat, queue, task>> /\ registered' = registered \ {u}
  BY DEF RemoveUser
<1>2. ASSUME NEW c \in Contacts, Spotless(c)'
      PROVE  /\ Spotless(c) /\ Assignee(c) # u
             /\ \A s \in Tasks : task[s].on = c => task[s].who # u
  BY <1>2 DEF RemoveUser, Mark, Spotless
<1>3. ASSUME NEW s \in Tasks
      PROVE  CarryOK(task[s])'
  <2>1. PICK r \in Task : r = task[s] /\ TaskOK(r) /\ CarryOK(r)
    BY PlacingFacts
  <2>2. ASSUME r.at = "save", Spotless(r.on)'
        PROVE  SaveOK(r)'
    <3>1. Spotless(r.on) /\ r.who # u
      BY <1>2, <2>1, <2>2 DEF TaskOK
    <3>2. SaveOK(r)
      BY <2>1, <2>2, <3>1 DEF CarryOK
    <3> QED
      BY <1>1, <3>1, <3>2 DEF SaveOK, Carries, KeepsHolder, Merge
  <2>3. CarryOK(r)' /\ task'[s] = r
    BY <1>1, <2>1, <2>2 DEF CarryOK, OwnOK
  <2> QED
    BY <2>1, <2>3
<1>4. ASSUME NEW c \in Contacts, Exists(c)', Spotless(c)'
      PROVE  Attended(c)'
  <2>1. Spotless(c) /\ Exists(c) /\ Attended(c) /\ chat[c].assignedTo # u
    BY <1>1, <1>2, <1>4 DEF PlacingInv, Assignee, Exists
  <2> QED
    BY <1>1, <2>1 DEF Attended, InQueue, InHands, CarriedBy, Carries
<1> QED
  BY <1>3, <1>4 DEF PlacingInv, Attended

-----------------------------------------------------------------------------
(***************************************************************************)
(* A save.                                                                 *)
(***************************************************************************)
\* The handler after its save, as Save has it.
AfterSave(r, row) ==
    IF r.then = "idle" THEN Idle
    ELSE [r EXCEPT !.at = r.then, !.then = "idle", !.mem = Bot, !.base = None,
                   !.own = IF r.then \in OwnSaves THEN row ELSE @]

LEMMA SavedCarry ==
  ASSUME NEW r \in Task, TaskOK(r), CarryOK(r), r.at = "save",
         NEW row, row = Merge(r.mem, chat[r.on]), row # None,
         NEW q, q = AfterSave(r, row)
  PROVE  /\ CarryOK(q)
         /\ r.then # "idle" => q.at = r.then /\ q.on = r.on
<1>1. CASE r.then = "idle"
  BY <1>1, IdleCarry DEF AfterSave
<1>2. CASE r.then # "idle"
  <2>1. /\ q.at = r.then /\ q.on = r.on /\ q.frame = r.frame
        /\ q.kept = r.kept
        /\ q.own = IF r.then \in OwnSaves THEN row ELSE r.own
    BY <1>2 DEF Task, AfterSave
  <2>2. r.then \notin {"save", "apology"}
    BY DEF TaskOK, CarryOK
  <2>3. CASE r.then \in OwnSaves
    <3>1. r.kept \in {Undefined, row.assignedTo}
      BY <2>3 DEF CarryOK, Merge
    <3>2. OwnOK(q)
      BY <2>1, <2>3, <3>1 DEF OwnOK
    <3> QED
      BY <2>1, <2>2, <3>2 DEF CarryOK
  <2>4. CASE r.then \notin OwnSaves
    <3>1. q.at \notin {"route", "flow", "handoff", "apology", "autoAssign",
                       "enqueue", "save"}
      BY <2>1, <2>2, <2>4 DEF OwnSaves
    <3>2. q.frame = "try" => OwnOK(q)
      BY <2>1, <2>4 DEF CarryOK, OwnOK
    <3> QED
      BY <2>1, <3>1, <3>2 DEF CarryOK
  <2> QED
    BY <2>1, <2>3, <2>4
<1> QED
  BY <1>1, <1>2

\* The holder of a chat after a save that is not stale.
LEMMA SavedHolder ==
  ASSUME NullsAssumption, NEW c \in Contacts, Attended(c), Spotless(c),
         NEW m, NEW base, NEW row,
         row = Merge(m, chat[c]), row # None,
         chat[c] = base \/ row = chat[c],
         m.assignedTo \in {None, Undefined} \/ KeepsHolder(m, base)
  PROVE  row.assignedTo \in registered \union {None}
<1>1. CASE row = chat[c]
  BY <1>1 DEF Attended, Exists
<1>2. CASE chat[c] = base
  BY <1>2 DEF Attended, Exists, KeepsHolder, Merge
<1> QED
  BY <1>1, <1>2

LEMMA SavePlacing ==
  ASSUME IInv, IInv', PlacingInv, NEW t \in Tasks, Save(t)
  PROVE  PlacingInv'
<1>1. PICK r \in Task : /\ r = task[t] /\ TaskOK(r) /\ CarryOK(r)
                        /\ r.at = "save" /\ r.on \in Contacts
  BY PlacingFacts DEF Save, TaskOK
<1>2. PICK c \in Contacts : c = r.on
  BY <1>1
<1>3. PICK row : row = Merge(r.mem, chat[c])
  OBVIOUS
<1>4. PICK q : q = AfterSave(r, row)
  OBVIOUS
<1>5. /\ chat' = [chat EXCEPT ![c] = row] /\ Become(t, q)
      /\ UNCHANGED <<queue, registered>>
      /\ IF chat[c] # r.base /\ row # chat[c]
         THEN Mark({c}, "stale") ELSE UNCHANGED mishap
  BY <1>1, <1>2, <1>3, <1>4 DEF Save, people, AfterSave
<1>6. task'[t] = q /\ \A s \in Tasks \ {t} : task'[s] = task[s]
  BY <1>5, Becoming
<1>7. /\ chat'[c] = row
      /\ \A d \in Contacts \ {c} : chat'[d] = chat[d]
  BY <1>5 DEF IInv, TypeOK
<1>8. row # None
  BY <1>1, <1>2, <1>7, SaveRow
<1>9. \A d \in Contacts : Spotless(d)' => Spotless(d)
  BY <1>5 DEF Mark, Spotless
<1>10. Spotless(c)' => chat[c] = r.base \/ row = chat[c]
  BY <1>5 DEF Mark, Spotless
<1>11. /\ CarryOK(q)
       /\ r.then # "idle" => q.at = r.then /\ q.on = c
  <2>1. row = Merge(r.mem, chat[r.on])
    BY <1>2, <1>3
  <2>2. /\ CarryOK(q)
        /\ r.then # "idle" => q.at = r.then /\ q.on = r.on
    BY <1>1, <1>4, <1>8, <2>1, SavedCarry
  <2> QED
    BY <1>2, <2>2
<1>12. ASSUME NEW s \in Tasks
       PROVE  CarryOK(task[s])'
  <2>1. CASE s = t
    <3>1. CarryOK(q)'
      <4>1. q.at # "save"
        BY <1>1, <1>4, <1>11 DEF TaskOK, Idle, AfterSave
      <4> QED
        BY <1>11, <4>1 DEF CarryOK, OwnOK
    <3> QED
      BY <1>6, <2>1, <3>1
  <2>2. CASE s # t
    <3>1. PICK p \in Task : p = task[s] /\ TaskOK(p) /\ CarryOK(p)
      BY PlacingFacts
    <3>2. CarryOK(p)' /\ task'[s] = p
      BY <1>5, <1>6, <1>9, <2>2, <3>1, CarryStays
    <3> QED
      BY <3>1, <3>2
  <2> QED
    BY <2>1, <2>2
<1>13. ASSUME NEW d \in Contacts \ {c}, Exists(d)', Spotless(d)'
       PROVE  Attended(d)'
  <2>1. Exists(d) /\ Spotless(d) /\ Attended(d) /\ chat'[d] = chat[d]
    BY <1>7, <1>9, <1>13 DEF Exists, PlacingInv
  <2>2. ~CarriedBy(task[t], d) /\ ~InHands(task[t], d)
    BY <1>1, <1>2 DEF CarriedBy, InHands
  <2>3. \A s \in Tasks \ {t} : /\ CarriedBy(task'[s], d) <=> CarriedBy(task[s], d)
                               /\ InHands(task'[s], d) <=> InHands(task[s], d)
    BY <1>6
  <2>4. InQueue(d)' <=> InQueue(d)
    BY <1>5 DEF InQueue
  <2>5. \A s \in Tasks : /\ CarriedBy(task[s], d)' <=> CarriedBy(task'[s], d)
                         /\ InHands(task[s], d)' <=> InHands(task'[s], d)
    BY DEF CarriedBy, InHands, Carries
  <2> QED
    BY <1>5, <2>1, <2>2, <2>3, <2>4, <2>5 DEF Attended
<1>14. ASSUME Spotless(c)'
       PROVE  Attended(c)'
  <2>1. /\ Spotless(c) /\ Attended(c) /\ SaveOK(r)
        /\ chat[c] = r.base \/ row = chat[c]
    BY <1>1, <1>2, <1>9, <1>10, <1>14 DEF PlacingInv, CarryOK
  <2>2. /\ row.status = r.mem.status
        /\ r.mem.assignedTo # Undefined => row.assignedTo = r.mem.assignedTo
    BY <1>3 DEF Merge
  <2>3. \A s \in Tasks : /\ CarriedBy(task[s], c)' <=> CarriedBy(task'[s], c)
                         /\ InHands(task[s], c)' <=> InHands(task'[s], c)
    BY DEF CarriedBy, InHands, Carries
  <2>4. CASE /\ r.mem.status \in AtRest
             /\ r.mem.assignedTo \in {None, Undefined}
                \/ KeepsHolder(r.mem, r.base)
    <3>1. row.assignedTo \in registered \union {None}
      BY <1>3, <1>8, <2>1, <2>4, NullsAssumption, SavedHolder
    <3> QED
      BY <1>5, <1>7, <2>2, <2>4, <3>1 DEF Attended, AtRest
  <2>5. CASE /\ ~Carries(r)
             /\ r.base # None /\ Merge(r.mem, r.base) = r.base
    <3>1. chat'[c] = chat[c] /\ Exists(c)
      BY <1>3, <1>7, <1>8, <2>1, <2>5 DEF Exists
    <3>2. ~CarriedBy(task[t], c) /\ ~InHands(task[t], c)
      BY <1>1, <2>5 DEF CarriedBy, InHands
    <3>3. \A s \in Tasks \ {t} :
             /\ CarriedBy(task'[s], c) <=> CarriedBy(task[s], c)
             /\ InHands(task'[s], c) <=> InHands(task[s], c)
      BY <1>6
    <3>4. InQueue(c)' <=> InQueue(c)
      BY <1>5 DEF InQueue
    <3> QED
      BY <1>5, <2>1, <2>3, <3>1, <3>2, <3>3, <3>4 DEF Attended
  <2>6. CASE /\ r.then \in {"handoff", "autoAssign", "enqueue"}
             /\ r.mem.status = IF r.then = "handoff" THEN "ACTIVE"
                               ELSE "PENDING_ASSIGNMENT"
             /\ KeepsHolder(r.mem, r.base)
    <3>1. row.assignedTo \in registered \union {None}
      BY <1>3, <1>8, <2>1, <2>6, NullsAssumption, SavedHolder
    <3>2. q.at = r.then /\ q.on = c
      BY <1>11, <2>6
    <3>3. InHands(q, c) /\ (row.status = "ACTIVE" => CarriedBy(q, c))
      BY <2>2, <2>6, <3>2 DEF InHands, CarriedBy, Carries
    <3> QED
      BY <1>5, <1>6, <1>7, <2>3, <3>1, <3>3 DEF Attended
  <2>7. CASE /\ r.then = "arm"
             /\ r.mem = [status |-> "ACTIVE", assignedTo |-> r.who]
             /\ r.who \in registered
    <3>1. r.who \in Users /\ r.who # Undefined /\ r.who # None
      BY <2>7, NullsAssumption DEF IInv, TypeOK
    <3>2. row.status = "ACTIVE" /\ row.assignedTo = r.who
      BY <2>2, <2>7, <3>1
    <3> QED
      BY <1>5, <1>7, <2>7, <3>1, <3>2 DEF Attended
  <2> QED
    BY <2>1, <2>4, <2>5, <2>6, <2>7 DEF SaveOK
<1> QED
  BY <1>2, <1>12, <1>13, <1>14 DEF PlacingInv, Attended

-----------------------------------------------------------------------------
(***************************************************************************)
(* The invariant holds.                                                    *)
(***************************************************************************)
LEMMA StepForward ==
  ASSUME IInv, DutyInv, PlacingInv, NEW t \in Tasks, Step(t)
  PROVE  Save(t) \/ Forward(t) \/ Restart
<1>1. CASE FindChat(t) \/ Route(t) \/ Flow(t)
  BY <1>1, FindForward, RouteForward, FlowForward
<1>2. CASE Reply(t) \/ Apologise(t) \/ HandOff(t) \/ Note(t)
  BY <1>2, OtherMessageForward
<1>3. CASE AutoAssign(t) \/ Enqueue(t) \/ Assign(t) \/ Reassign(t)
  BY <1>3, AutoAssignForward, EnqueueForward, AssignForward, ReassignForward
<1>4. CASE Release(t) \/ CronNext(t) \/ Pop(t)
  BY <1>4, ReleaseForward, CronForward, PopForward
<1>5. CASE Arm(t)
  <2>1. /\ ~Carries(task[t]) /\ task[t].at # "enqueue" /\ End(t)
        /\ UNCHANGED <<chat, registered, queue, mishap>>
    BY <1>5 DEF Arm, Carries, people
  <2> QED
    BY <2>1, EndForward
<1>6. CASE Throws(t)
  BY <1>6, FailForward DEF Throws
<1> QED
  BY <1>1, <1>2, <1>3, <1>4, <1>5, <1>6 DEF Step

LEMMA EnvironmentPlacing ==
  ASSUME IInv, PlacingInv, Environment \/ UNCHANGED vars
  PROVE  PlacingInv'
<1>1. CASE Restart
  BY <1>1, RestartPlacing
<1>2. CASE \E u \in Users : RemoveUser(u)
  BY <1>2, RemovalPlacing
<1>3. CASE \E u \in Users : RestoreUser(u)
  BY <1>3, AroundKeeps DEF RestoreUser, Spotless
<1>4. CASE \E c \in Contacts, u \in Users :
              SendAgentMessage(c, u) \/ SendMediaMessage(c, u)
  <2>1. UNCHANGED <<chat, queue, task, registered>>
    BY <1>4 DEF SendAgentMessage, SendMediaMessage, people
  <2>2. \A c \in Contacts : Spotless(c)' => Spotless(c)
    BY <1>4 DEF SendAgentMessage, SendMediaMessage, Spotless, Mark
  <2> QED
    BY <2>1, <2>2, AroundKeeps
<1>5. CASE UNCHANGED <<chat, queue, task, registered, mishap>>
  BY <1>5, AroundKeeps DEF Spotless
<1> QED
  BY <1>1, <1>2, <1>3, <1>4, <1>5
  DEF Environment, Disconnect, WhatsappDown, WhatsappUp, Crash, vars

LEMMA PlacingNext ==
  IInv /\ DutyInv /\ IInv' /\ PlacingInv /\ [Next]_vars => PlacingInv'
<1> SUFFICES ASSUME IInv, DutyInv, IInv', PlacingInv, [Next]_vars
             PROVE  PlacingInv'
  OBVIOUS
<1>1. ASSUME NEW t \in Tasks, Step(t)
      PROVE  PlacingInv'
  BY <1>1, StepForward, SavePlacing, ForwardKeeps, RestartPlacing
<1>2. ASSUME NEW t \in Tasks, Starts(t)
      PROVE  PlacingInv'
  BY <1>2, StartsForward, ForwardKeeps, AroundKeeps DEF Spotless
<1> QED
  BY <1>1, <1>2, EnvironmentPlacing DEF Next

LEMMA PlacingInit == Init => PlacingInv
<1> SUFFICES ASSUME Init
             PROVE  PlacingInv
  OBVIOUS
<1>1. \A t \in Tasks : task[t] = Idle
  BY DEF Init
<1>2. \A c \in Contacts : ~Exists(c)
  BY DEF Init, Exists
<1> QED
  BY <1>1, <1>2, IdleCarry DEF PlacingInv, Attended

LEMMA PlacingHolds == Spec => []PlacingInv
<1>1. Init => IInv /\ DutyInv /\ PlacingInv
  BY IInvInit, DutyInvInit, PlacingInit
<1>2. IInv /\ DutyInv /\ PlacingInv /\ [Next]_vars
      => (IInv /\ DutyInv /\ PlacingInv)'
  BY IInvNext, DutyInvNext, PlacingNext
<1> QED
  BY <1>1, <1>2, PTL DEF Spec

\* Whoever has a chat in the hands is placing it.
LEMMA HandsPlace ==
  ASSUME NEW c \in Contacts, NEW t \in Tasks,
         InHands(task[t], c) \/ CarriedBy(task[t], c)
  PROVE  Placing(c) # {}
<1>1. t \in Placing(c)
  BY DEF Placing, InHands, CarriedBy, Carries
<1> QED
  BY <1>1

\* A chat that waits for an agent is in the queue or in the hands of a
\* handler, unless something went wrong on the way (chat.service.ts:149-155,
\* 196-216, chat.gateway.ts:50-55): for any number of customers, users and
\* handlers, in any order of connections, releases and hand-overs.
THEOREM WaitingAlwaysQueued == Spec => []WaitingIsQueued
<1>1. PlacingInv => WaitingIsQueued
  BY HandsPlace DEF PlacingInv, Attended, Spotless, WaitingIsQueued
<1> QED
  BY <1>1, PlacingHolds, PTL

\* An active chat without an agent is on its way to one
\* (chat.service.ts:182-216), however many handlers are about that chat.
THEOREM ActiveAlwaysAttended == Spec => []ActiveIsAttended
<1>1. PlacingInv => ActiveIsAttended
  <2> SUFFICES ASSUME PlacingInv, NEW c \in Contacts,
                      IsActive(c), Assignee(c) = None, Spotless(c)
               PROVE  Placing(c) # {}
    BY DEF ActiveIsAttended, Spotless
  <2>1. PICK t \in Tasks : CarriedBy(task[t], c)
    BY DEF PlacingInv, Attended, IsActive, Assignee
  <2> QED
    BY <2>1, HandsPlace
<1> QED
  BY <1>1, PlacingHolds, PTL
=============================================================================
