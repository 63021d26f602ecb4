------------------------ MODULE UnreadCounterProofs ------------------------
(***************************************************************************)
(* Proofs about UnreadCounter for any number of handlers in flight, any    *)
(* size of the pool and every fault.                                       *)
(*                                                                         *)
(* Room is the largest count that would still be right if every increment  *)
(* that is to come were made.  It never shrinks, so whatever a handler     *)
(* read earlier stays below it.  The messages to be counted are distinct,  *)
(* which is why as many of them are unread as there are increments to come *)
(* when a read mark leaves none but those.                                 *)
(***************************************************************************)
EXTENDS UnreadCounter, FiniteSetTheorems, TLAPS

Room == stored - Cardinality(Pending)

\* What a record holds, r.at = "increment" included.
RecordOK(r) == r.mem <= Room /\ r.own <= Room /\ r.msg <= stored

Distinct ==
    \A s, t \in Pending : task[s].msg = task[t].msg => s = t

IInv ==
    /\ TypeOK
    /\ \A t \in Tasks : RecordOK(task[t])
    /\ unreadCount <= Room
    /\ Distinct
    /\ CounterIsExact

row == <<unreadCount, stored, unread, drifted>>

-----------------------------------------------------------------------------
(***************************************************************************)
(* Counting the increments to come.                                        *)
(***************************************************************************)
LEMMA PendingIsFinite ==
    IsFiniteSet(Pending) /\ Cardinality(Pending) \in Nat
BY TasksAssumption, FS_Subset, FS_CardinalityType DEF Pending

LEMMA UnreadIsFinite ==
    ASSUME TypeOK
    PROVE  IsFiniteSet(unread) /\ Cardinality(unread) \in Nat
<1>1. IsFiniteSet(1 .. stored)
  BY FS_Interval DEF TypeOK
<1>2. QED
  BY <1>1, FS_Subset, FS_CardinalityType DEF TypeOK

\* There are as many messages to be counted as increments to come.
LEMMA OneMessageEach ==
    ASSUME Distinct
    PROVE  Cardinality(PendingMessages) = Cardinality(Pending)
<1> DEFINE f == [t \in Pending |-> task[t].msg]
<1>1. f \in Bijection(Pending, PendingMessages)
  <2>1. f \in Injection(Pending, PendingMessages)
    BY DEF Injection, IsInjective, PendingMessages, Distinct
  <2>2. f \in Surjection(Pending, PendingMessages)
    BY DEF Surjection, PendingMessages
  <2>3. QED
    BY <2>1, <2>2 DEF Bijection
<1>2. ExistsBijection(Pending, PendingMessages)
  BY <1>1 DEF ExistsBijection
<1>3. QED
  BY <1>2, PendingIsFinite, FS_Bijection

\* A step of one handler changes at most its own increment.
LEMMA Moving ==
    ASSUME TypeOK, NEW t \in Tasks, NEW q \in Task, Become(t, q)
    PROVE  /\ task' \in [Tasks -> Task]
           /\ task'[t] = q
           /\ \A s \in Tasks \ {t} : task'[s] = task[s]
           /\ t \in Pending <=> task[t].at = "increment"
           /\ Pending' = IF q.at = "increment" THEN Pending \union {t}
                         ELSE Pending \ {t}
BY DEF TypeOK, Become, Pending

LEMMA IdleIsTask ==
    /\ Idle \in Task
    /\ Idle.at = "idle" /\ Idle.mem = 0 /\ Idle.own = 0 /\ Idle.msg = 0
BY DEF Idle, Task, Labels, Queries, AfterSave

LEMMA Facts ==
    ASSUME IInv, NEW t \in Tasks
    PROVE  /\ task[t] \in Task
           /\ task[t].mem \in Nat /\ task[t].own \in Nat /\ task[t].msg \in Nat
           /\ task[t].mem <= Room /\ task[t].own <= Room
           /\ task[t].msg <= stored
           /\ unreadCount \in Nat /\ stored \in Nat /\ 0 <= Room /\ Room \in Int
           /\ unreadCount <= Room
<1>1. Room \in Int
  BY PendingIsFinite DEF IInv, TypeOK, Room
<1>2. QED
  BY <1>1 DEF IInv, TypeOK, Task, RecordOK

-----------------------------------------------------------------------------
(***************************************************************************)
(* Steps that leave the row and the increments to come as they are.        *)
(***************************************************************************)
LEMMA OnlyTask ==
    ASSUME IInv, NEW t \in Tasks, NEW q \in Task, Become(t, q), UNCHANGED row,
           \/ task[t].at = "increment" /\ q.at = "increment" /\ q.msg = task[t].msg
           \/ task[t].at # "increment" /\ q.at # "increment",
           q.mem <= Room, q.own <= Room, q.msg <= stored
    PROVE  IInv'
<1>1. /\ task' \in [Tasks -> Task]
      /\ task'[t] = q
      /\ \A s \in Tasks \ {t} : task'[s] = task[s]
      /\ Pending' = Pending
  BY Moving DEF IInv
<1>2. Room' = Room /\ Cardinality(Pending)' = Cardinality(Pending)
  BY <1>1 DEF Room, row
<1>3. \A s \in Tasks : RecordOK(task[s])'
  BY <1>1, <1>2 DEF IInv, RecordOK, row
<1>4. Distinct'
  <2>1. \A s \in Pending : task'[s].msg = task[s].msg
    BY <1>1 DEF Pending
  <2>2. QED
    BY <1>1, <2>1 DEF IInv, Distinct
<1>5. TypeOK' /\ CounterIsExact' /\ (unreadCount <= Room)'
  BY <1>1, <1>2 DEF IInv, TypeOK, CounterIsExact, row
<1>6. QED
  BY <1>3, <1>4, <1>5 DEF IInv

LEMMA EndsQuietly ==
    ASSUME IInv, NEW t \in Tasks, End(t), UNCHANGED row,
           task[t].at # "increment"
    PROVE  IInv'
BY OnlyTask, Facts, IdleIsTask DEF End

\* A save is prepared with a count the handler has read.
LEMMA SavesNext ==
    ASSUME IInv, NEW t \in Tasks, NEW then \in AfterSave, NEW count \in Nat,
           count <= Room, SaveNext(t, count, then), UNCHANGED row,
           task[t].at # "increment"
    PROVE  IInv'
<1> DEFINE q == [task[t] EXCEPT !.at = "save", !.then = then, !.mem = count,
                                !.conn = FALSE]
<1>1. /\ q \in Task /\ q.at = "save" /\ q.mem = count
      /\ q.own = task[t].own /\ q.msg = task[t].msg
  BY Facts DEF Task, Labels, Queries, AfterSave
<1>2. Become(t, q)
  BY DEF SaveNext
<1> HIDE DEF q
<1>3. QED
  BY <1>1, <1>2, OnlyTask, Facts

\* The next step is another query, or none.
LEMMA GoesOn ==
    ASSUME IInv, NEW t \in Tasks, NEW label \in Labels, Goto(t, label),
           UNCHANGED row, task[t].at # "increment", label # "increment"
    PROVE  IInv'
<1> DEFINE q == [task[t] EXCEPT !.at = label, !.mem = 0, !.msg = 0,
                                !.conn = FALSE]
<1>1. /\ q \in Task /\ q.at = label /\ q.mem = 0
      /\ q.own = task[t].own /\ q.msg = 0
  BY Facts DEF Task
<1>2. Become(t, q)
  BY DEF Goto
<1> HIDE DEF q
<1>3. QED
  BY <1>1, <1>2, OnlyTask, Facts

\* Steps that read, decide, or ask for a connection.
LEMMA Quiet ==
    ASSUME IInv, NEW t \in Tasks,
           \/ FindChat(t) \/ Touch(t) \/ Route(t) \/ Flow(t) \/ Reply(t) \/ Place(t)
           \/ ReadChat(t) \/ LoadMessages(t) \/ WriteMarks(t) \/ Requests(t)
           \/ Borrow(t)
    PROVE  IInv'
<1>1. CASE FindChat(t)
  <2> DEFINE q == [task[t] EXCEPT !.at = "save", !.then = "insert",
                                  !.mem = unreadCount, !.own = unreadCount,
                                  !.conn = FALSE]
  <2>1. /\ q \in Task /\ q.at = "save" /\ q.mem = unreadCount
        /\ q.own = unreadCount /\ q.msg = task[t].msg
    BY Facts DEF Task, Labels, Queries, AfterSave
  <2>2. Become(t, q) /\ UNCHANGED row /\ task[t].at = "find"
    BY <1>1 DEF FindChat, Runs, row
  <2> HIDE DEF q
  <2>3. QED
    BY <2>1, <2>2, OnlyTask, Facts
<1>2. CASE Route(t)
  <2>1. UNCHANGED row /\ task[t].at = "route"
    BY <1>2 DEF Route, row
  <2>2. CASE SaveOwn(t, "place") \/ SaveOwn(t, "flow")
    BY <2>1, <2>2, SavesNext, Facts DEF SaveOwn, AfterSave
  <2>3. CASE Goto(t, "flow")
    BY <2>1, <2>3, GoesOn DEF Labels
  <2>4. CASE End(t)
    BY <2>1, <2>4, EndsQuietly
  <2>5. QED
    BY <1>2, <2>2, <2>3, <2>4 DEF Route
<1>3. CASE Flow(t)
  <2>1. UNCHANGED row /\ task[t].at = "flow"
    BY <1>3 DEF Flow, row
  <2>2. PICK r : r = [task[t] EXCEPT !.frame = "try"]
    OBVIOUS
  <2>3. /\ r \in Task /\ r.mem = task[t].mem
        /\ r.own = task[t].own /\ r.msg = task[t].msg
    BY <2>2, Facts DEF Task
  <2>4. ASSUME NEW q, q = [r EXCEPT !.at = "reply"], Become(t, q)
        PROVE  IInv'
    <3>1. /\ q \in Task /\ q.at = "reply" /\ q.mem = r.mem
          /\ q.own = r.own /\ q.msg = r.msg
      BY <2>3, <2>4 DEF Task, Labels
    <3>2. QED
      BY <2>1, <2>3, <2>4, <3>1, OnlyTask, Facts
  <2>5. ASSUME NEW q, q = [r EXCEPT !.at = "read", !.then = "reply"],
               Become(t, q)
        PROVE  IInv'
    <3>1. /\ q \in Task /\ q.at = "read" /\ q.mem = r.mem
          /\ q.own = r.own /\ q.msg = r.msg
      BY <2>3, <2>5 DEF Task, Labels, Queries, AfterSave
    <3>2. QED
      BY <2>1, <2>3, <2>5, <3>1, OnlyTask, Facts
  <2>6. ASSUME NEW q, q = [r EXCEPT !.at = "save", !.then = "place",
                                    !.mem = r.own],
               Become(t, q)
        PROVE  IInv'
    <3>1. /\ q \in Task /\ q.at = "save" /\ q.mem = r.own
          /\ q.own = r.own /\ q.msg = r.msg
      BY <2>3, <2>6 DEF Task, Labels, Queries, AfterSave
    <3>2. QED
      BY <2>1, <2>3, <2>6, <3>1, OnlyTask, Facts
  <2>7. \/ End(t)
        \/ Become(t, [r EXCEPT !.at = "reply"])
        \/ Become(t, [r EXCEPT !.at = "read", !.then = "reply"])
        \/ Become(t, [r EXCEPT !.at = "save", !.then = "place", !.mem = r.own])
    BY <1>3, <2>2, Zenon DEF Flow
  <2>8. CASE End(t)
    BY <2>1, <2>8, EndsQuietly
  <2>9. QED
    BY <2>4, <2>5, <2>6, <2>7, <2>8, Zenon
<1>4. CASE Reply(t)
  BY <1>4, EndsQuietly DEF Reply, row
<1>5. CASE Place(t)
  <2>1. UNCHANGED row /\ task[t].at = "place"
    BY <1>5 DEF Place, row
  <2>2. CASE SaveOwn(t, "idle")
    BY <2>1, <2>2, SavesNext, Facts DEF SaveOwn, AfterSave
  <2>3. ASSUME NEW q, q = [task[t] EXCEPT !.at = "read", !.then = "idle"],
               Become(t, q)
        PROVE  IInv'
    <3>1. /\ q \in Task /\ q.at = "read" /\ q.mem = task[t].mem
          /\ q.own = task[t].own /\ q.msg = task[t].msg
      BY <2>3, Facts DEF Task, Labels, Queries, AfterSave
    <3>2. QED
      BY <2>1, <2>3, <3>1, OnlyTask, Facts
  <2>4. CASE End(t)
    BY <2>1, <2>4, EndsQuietly
  <2>5. QED
    BY <1>5, <2>2, <2>3, <2>4, Zenon DEF Place
<1>6. CASE ReadChat(t)
  <2>1. /\ task[t].at = "read" /\ task[t].then \in AfterSave
        /\ SaveNext(t, unreadCount, task[t].then) /\ UNCHANGED row
    BY <1>6, Facts DEF ReadChat, Runs, Task, row
  <2>2. QED
    BY <2>1, SavesNext, Facts
<1>7. CASE LoadMessages(t)
  <2> DEFINE label == IF unread = {} THEN "answer" ELSE "mark"
             q == [task[t] EXCEPT !.at = label, !.seen = unread, !.conn = FALSE]
  <2>1. unread \in SUBSET Nat
    BY Facts DEF IInv, TypeOK
  <2>2. /\ q \in Task /\ q.at # "increment" /\ q.mem = task[t].mem
        /\ q.own = task[t].own /\ q.msg = task[t].msg
    BY <2>1, Facts DEF Task, Labels, Queries, AfterSave
  <2>3. Become(t, q) /\ UNCHANGED row /\ task[t].at = "begin"
    BY <1>7 DEF LoadMessages, Runs, row
  <2> HIDE DEF q
  <2>4. QED
    BY <2>2, <2>3, OnlyTask, Facts
<1>8. CASE WriteMarks(t)
  BY <1>8, GoesOn DEF WriteMarks, row, Labels, Queries
<1>9. CASE Requests(t)
  <2>1. ASSUME NEW label \in {"find", "read", "begin"},
               NEW frame \in {"none", "message"},
               NEW q, q = [Idle EXCEPT !.at = label, !.frame = frame],
               task[t] = Idle, Become(t, q), UNCHANGED row
        PROVE  IInv'
    <3>1. /\ q \in Task /\ q.at = label /\ q.mem = 0 /\ q.own = 0 /\ q.msg = 0
      BY <2>1, IdleIsTask DEF Task, Labels, Queries, AfterSave
    <3>2. QED
      BY <2>1, <3>1, OnlyTask, Facts, IdleIsTask
  <2>2. QED
    BY <1>9, <2>1, Zenon
    DEF Requests, Receive, ChangeChat, MarkMessagesAsRead, Start, row
<1>10. CASE Borrow(t)
  <2> DEFINE q == [task[t] EXCEPT !.conn = TRUE]
  <2>1. /\ q \in Task /\ q.at = task[t].at /\ q.mem = task[t].mem
        /\ q.own = task[t].own /\ q.msg = task[t].msg
    BY Facts DEF Task
  <2>2. Become(t, q) /\ UNCHANGED row
    BY <1>10 DEF Borrow, row
  <2> HIDE DEF q
  <2>3. QED
    BY <2>1, <2>2, OnlyTask, Facts
<1>11. CASE Touch(t)
  BY <1>11, GoesOn DEF Touch, Runs, row, Labels
<1>12. QED
  BY <1>1, <1>2, <1>3, <1>4, <1>5, <1>6, <1>7, <1>8, <1>9, <1>10, <1>11

-----------------------------------------------------------------------------
(***************************************************************************)
(* Steps that change the row or the increments to come.                    *)
(***************************************************************************)
\* An increment is no longer to come.
LEMMA Leaving ==
    ASSUME IInv, NEW t \in Tasks, NEW q \in Task, Become(t, q),
           UNCHANGED stored,
           task[t].at = "increment", q.at # "increment",
           q.mem <= Room + 1, q.own <= Room + 1, q.msg <= stored
    PROVE  /\ task' \in [Tasks -> Task]
           /\ Cardinality(Pending)' = Cardinality(Pending) - 1
           /\ Room' = Room + 1
           /\ \A s \in Tasks : RecordOK(task[s])'
           /\ Distinct'
<1>1. /\ task' \in [Tasks -> Task]
      /\ task'[t] = q
      /\ \A s \in Tasks \ {t} : task'[s] = task[s]
      /\ t \in Pending /\ Pending' = Pending \ {t}
  BY Moving DEF IInv
<1>2. Cardinality(Pending)' = Cardinality(Pending) - 1
  BY <1>1, PendingIsFinite, FS_RemoveElement
<1>3. Room' = Room + 1
  BY <1>2, PendingIsFinite, Facts DEF Room
<1>4. \A s \in Tasks : RecordOK(task[s])'
  <2> SUFFICES ASSUME NEW s \in Tasks PROVE RecordOK(task[s])'
    OBVIOUS
  <2>1. task'[s].mem \in Nat /\ task'[s].own \in Nat
    BY <1>1 DEF Task
  <2>2. QED
    BY <1>1, <1>3, <2>1, Facts DEF RecordOK
<1>5. Distinct'
  <2>1. \A s \in Pending' : s \in Pending /\ task'[s].msg = task[s].msg
    BY <1>1 DEF Pending
  <2>2. QED
    BY <2>1 DEF IInv, Distinct
<1>6. QED
  BY <1>1, <1>2, <1>3, <1>4, <1>5

LEMMA Increments ==
    ASSUME IInv, NEW t \in Tasks, IncrementUnreadCount(t)
    PROVE  IInv'
<1> DEFINE q == [task[t] EXCEPT !.at = "touch", !.mem = 0, !.msg = 0,
                                !.conn = FALSE]
<1>1. /\ q \in Task /\ q.at = "touch" /\ q.mem = 0
      /\ q.own = task[t].own /\ q.msg = 0
  BY Facts DEF Task, Labels, Queries
<1>2. /\ Become(t, q) /\ task[t].at = "increment"
      /\ unreadCount' = unreadCount + 1 /\ UNCHANGED <<stored, unread, drifted>>
  BY DEF IncrementUnreadCount, Goto, Runs
<1> HIDE DEF q
<1>3. /\ task' \in [Tasks -> Task]
      /\ Cardinality(Pending)' = Cardinality(Pending) - 1
      /\ Room' = Room + 1
      /\ \A s \in Tasks : RecordOK(task[s])'
      /\ Distinct'
  BY <1>1, <1>2, Leaving, Facts
<1>4. TypeOK' /\ CounterIsExact' /\ (unreadCount <= Room)'
  BY <1>2, <1>3, Facts, PendingIsFinite DEF IInv, TypeOK, CounterIsExact
<1>5. QED
  BY <1>3, <1>4 DEF IInv

LEMMA Fails ==
    ASSUME IInv, NEW t \in Tasks, Fail(t)
    PROVE  IInv'
<1>1. ASSUME NEW q \in Task, Become(t, q), q.at # "increment",
             q.mem <= Room, q.own <= Room, q.msg <= stored
      PROVE  IInv'
  <2>1. UNCHANGED <<unreadCount, stored, unread>>
    BY DEF Fail
  <2>2. CASE task[t].at = "increment"
    <3>1. drifted'
      BY <2>2 DEF Fail
    <3>2. /\ task' \in [Tasks -> Task]
          /\ Cardinality(Pending)' = Cardinality(Pending) - 1
          /\ Room' = Room + 1
          /\ \A s \in Tasks : RecordOK(task[s])'
          /\ Distinct'
      <4>1. q.mem \in Nat /\ q.own \in Nat
        BY <1>1 DEF Task
      <4>2. q.mem <= Room + 1 /\ q.own <= Room + 1
        BY <1>1, <4>1, Facts
      <4>3. QED
        BY <1>1, <2>1, <2>2, <4>2, Leaving
    <3>3. drifted' \in BOOLEAN
      BY DEF Fail
    <3>4. TypeOK' /\ CounterIsExact' /\ (unreadCount <= Room)'
      BY <2>1, <3>1, <3>2, <3>3, Facts DEF IInv, TypeOK, CounterIsExact
    <3>5. QED
      BY <3>2, <3>4 DEF IInv
  <2>3. CASE task[t].at # "increment"
    <3>1. UNCHANGED row
      BY <2>1, <2>3 DEF Fail, row, IInv, TypeOK
    <3>2. QED
      BY <1>1, <2>3, <3>1, OnlyTask
  <2>4. QED
    BY <2>2, <2>3
<1>2. CASE task[t].frame = "try"
  <2> DEFINE q == [task[t] EXCEPT !.at = "save", !.then = "place",
                                  !.mem = task[t].own, !.conn = FALSE,
                                  !.frame = "message"]
  <2>1. /\ q \in Task /\ q.at = "save" /\ q.mem = task[t].own
        /\ q.own = task[t].own /\ q.msg = task[t].msg
    BY Facts DEF Task, Labels, Queries, AfterSave
  <2>2. Become(t, q)
    BY <1>2 DEF Fail
  <2> HIDE DEF q
  <2>3. QED
    BY <1>1, <2>1, <2>2, Facts
<1>3. CASE task[t].frame # "try"
  <2>1. Become(t, Idle)
    BY <1>3 DEF Fail, End
  <2>2. QED
    BY <1>1, <2>1, IdleIsTask, Facts
<1>4. QED
  BY <1>2, <1>3

LEMMA Saves ==
    ASSUME IInv, NEW t \in Tasks, Save(t)
    PROVE  IInv'
<1>1. /\ task[t].at = "save" /\ unreadCount' = task[t].mem
      /\ drifted' = (drifted \/ task[t].mem # unreadCount)
      /\ UNCHANGED <<stored, unread>>
  BY DEF Save, Runs
<1>2. PICK q \in Task : /\ Become(t, q) /\ q.mem = 0 /\ q.msg = 0
                        /\ q.own <= Room
                        /\ q.at = task[t].then \/ q.at = "idle"
  <2>1. CASE task[t].then = "idle"
    BY <2>1, IdleIsTask, Facts DEF Save, End
  <2>2. CASE task[t].then # "idle"
    <3> DEFINE p == [task[t] EXCEPT !.at = task[t].then, !.mem = 0, !.msg = 0,
                                    !.conn = FALSE]
    <3>1. /\ p \in Task /\ p.at = task[t].then /\ p.mem = 0
          /\ p.own = task[t].own /\ p.msg = 0
      BY Facts DEF Task, Labels, Queries, AfterSave
    <3>2. Become(t, p)
      BY <2>2 DEF Save, Goto
    <3> HIDE DEF p
    <3>3. QED
      BY <3>1, <3>2, Facts
  <2>3. QED
    BY <2>1, <2>2
<1>3. task[t].then # "increment"
  BY Facts DEF Task, AfterSave
<1>4. /\ task' \in [Tasks -> Task]
      /\ task'[t] = q
      /\ \A s \in Tasks \ {t} : task'[s] = task[s]
      /\ Pending' = Pending
  BY <1>1, <1>2, <1>3, Moving DEF IInv
<1>5. Room' = Room
  BY <1>1, <1>4 DEF Room
<1>6. \A s \in Tasks : RecordOK(task[s])'
  BY <1>1, <1>2, <1>4, <1>5, Facts DEF RecordOK
<1>7. Distinct'
  <2>1. \A s \in Pending : task'[s].msg = task[s].msg
    BY <1>1, <1>4 DEF Pending
  <2>2. QED
    BY <1>4, <2>1 DEF IInv, Distinct
<1>8. drifted' \in BOOLEAN /\ CounterIsExact'
  BY <1>1, <1>4 DEF IInv, TypeOK, CounterIsExact
<1>9. TypeOK' /\ (unreadCount <= Room)'
  BY <1>1, <1>4, <1>5, <1>8, Facts DEF IInv, TypeOK
<1>10. QED
  BY <1>6, <1>7, <1>8, <1>9 DEF IInv

LEMMA Inserts ==
    ASSUME IInv, NEW t \in Tasks, InsertMessage(t)
    PROVE  IInv'
<1> DEFINE q == [task[t] EXCEPT !.at = "increment", !.msg = stored + 1,
                                !.conn = FALSE]
<1>1. /\ task[t].at = "insert" /\ stored' = stored + 1
      /\ unread' = unread \union {stored + 1}
      /\ Become(t, q) /\ UNCHANGED <<unreadCount, drifted>>
  <2>1. /\ task[t].at = "insert" /\ stored' = stored + 1
        /\ unread' = unread \union {stored'}
        /\ Become(t, [task[t] EXCEPT !.at = "increment", !.msg = stored',
                                     !.conn = FALSE])
        /\ UNCHANGED <<unreadCount, drifted>>
    BY Zenon DEF InsertMessage, Runs
  <2>2. QED
    BY <2>1, Zenon
<1>2. /\ q \in Task /\ q.at = "increment" /\ q.mem = task[t].mem
      /\ q.own = task[t].own /\ q.msg = stored + 1
  <2>1. task[t] \in Task /\ stored + 1 \in Nat
    BY Facts
  <2>2. QED
    BY <2>1 DEF Task, Labels, Queries, AfterSave
<1> HIDE DEF q
<1>3. /\ task' \in [Tasks -> Task]
      /\ task'[t] = q
      /\ \A s \in Tasks \ {t} : task'[s] = task[s]
      /\ t \notin Pending /\ Pending' = Pending \union {t}
  BY <1>1, <1>2, Moving DEF IInv
<1>4. Cardinality(Pending)' = Cardinality(Pending) + 1
  BY <1>3, PendingIsFinite, FS_AddElement
<1>5. Room' = Room
  BY <1>1, <1>4, PendingIsFinite, Facts DEF Room
<1>6. \A s \in Tasks : RecordOK(task[s])'
  <2> SUFFICES ASSUME NEW s \in Tasks PROVE RecordOK(task[s])'
    OBVIOUS
  <2>1. CASE s = t
    BY <1>1, <1>2, <1>3, <1>5, <2>1, Facts DEF RecordOK
  <2>2. CASE s # t
    BY <1>1, <1>3, <1>5, <2>2, Facts DEF RecordOK
  <2>3. QED
    BY <2>1, <2>2
<1>7. Distinct'
  <2>1. \A s \in Pending : /\ task'[s].msg = task[s].msg
                           /\ task[s].msg # stored + 1
    BY <1>1, <1>3, Facts DEF Pending
  <2>2. task'[t].msg = stored + 1
    BY <1>2, <1>3
  <2>3. QED
    BY <1>3, <2>1, <2>2 DEF IInv, Distinct
<1>8. Cardinality(unread)' = Cardinality(unread) + 1
  <2>1. stored + 1 \notin unread
    BY DEF IInv, TypeOK
  <2>2. QED
    BY <1>1, <2>1, UnreadIsFinite, FS_AddElement DEF IInv
<1>9. TypeOK'
  BY <1>1, <1>3 DEF IInv, TypeOK
<1>10. CounterIsExact' /\ (unreadCount <= Room)'
  BY <1>1, <1>4, <1>5, <1>8, PendingIsFinite, UnreadIsFinite, Facts
  DEF IInv, CounterIsExact
<1>11. QED
  BY <1>6, <1>7, <1>9, <1>10 DEF IInv

\* A read mark that leaves only messages to be counted puts the counter
\* right.
LEMMA Commits ==
    ASSUME IInv, NEW t \in Tasks, Commit(t)
    PROVE  IInv'
<1> DEFINE seen == task[t].seen
<1>1. /\ task[t].at = "answer" /\ Become(t, Idle) /\ stored' = stored
      /\ unread' = unread \ seen
      /\ unreadCount' = IF seen = {} THEN unreadCount ELSE 0
      /\ drifted' = IF seen = {} THEN drifted ELSE unread \ seen # PendingMessages
  BY DEF Commit, Runs, End
<1>2. /\ task' \in [Tasks -> Task]
      /\ task'[t] = Idle
      /\ \A s \in Tasks \ {t} : task'[s] = task[s]
      /\ Pending' = Pending
  BY <1>1, Moving, IdleIsTask DEF IInv
<1>3. Room' = Room
  BY <1>1, <1>2 DEF Room
<1>4. \A s \in Tasks : RecordOK(task[s])'
  BY <1>1, <1>2, <1>3, IdleIsTask, Facts DEF RecordOK
<1>5. Distinct'
  <2>1. \A s \in Pending : task'[s].msg = task[s].msg
    BY <1>1, <1>2 DEF Pending
  <2>2. QED
    BY <1>2, <2>1 DEF IInv, Distinct
<1>6. drifted' \in BOOLEAN
  BY <1>1 DEF IInv, TypeOK
<1>7. TypeOK' /\ (unreadCount <= Room)'
  BY <1>1, <1>2, <1>3, <1>6, Facts DEF IInv, TypeOK
<1>8. CounterIsExact'
  <2>1. CASE seen = {}
    BY <1>1, <1>2, <2>1 DEF IInv, CounterIsExact
  <2>2. CASE seen # {}
    <3> SUFFICES ASSUME ~drifted'
                 PROVE  unreadCount' + Cardinality(Pending)' = Cardinality(unread)'
      BY DEF CounterIsExact
    <3>1. unread' = PendingMessages /\ unreadCount' = 0
      BY <1>1, <2>2
    <3>2. QED
      BY <1>2, <3>1, OneMessageEach, PendingIsFinite DEF IInv
  <2>3. QED
    BY <2>1, <2>2
<1>9. QED
  BY <1>4, <1>5, <1>7, <1>8 DEF IInv

LEMMA Crashes ==
    ASSUME IInv, Crash
    PROVE  IInv'
<1>1. /\ task' = [t \in Tasks |-> Idle]
      /\ drifted' = (drifted \/ Pending # {})
      /\ UNCHANGED <<unreadCount, stored, unread>>
  BY DEF Crash
<1>2. Pending' = {} /\ Cardinality(Pending)' = 0
  BY <1>1, IdleIsTask, FS_EmptySet DEF Pending
<1>3. Room' = stored /\ unreadCount <= stored
  BY <1>1, <1>2, PendingIsFinite DEF IInv, TypeOK, Room
<1>4. drifted' \in BOOLEAN /\ CounterIsExact'
  BY <1>1, <1>2 DEF IInv, TypeOK, CounterIsExact
<1>5. QED
  BY <1>1, <1>2, <1>3, <1>4, IdleIsTask DEF IInv, TypeOK, RecordOK, Distinct

-----------------------------------------------------------------------------
LEMMA Starting == Init => IInv
<1> SUFFICES ASSUME Init PROVE IInv
  OBVIOUS
<1>1. Pending = {} /\ Cardinality(Pending) = 0 /\ Cardinality(unread) = 0
  BY IdleIsTask, FS_EmptySet DEF Init, Pending
<1>2. TypeOK /\ Room = 0
  <2>1. TypeOK
    BY IdleIsTask DEF Init, TypeOK
  <2>2. Room = 0
    BY <1>1 DEF Init, Room
  <2>3. QED
    BY <2>1, <2>2
<1>3. Distinct /\ CounterIsExact
  BY <1>1 DEF Init, Distinct, CounterIsExact
<1>4. \A t \in Tasks : RecordOK(task[t])
  BY <1>2, IdleIsTask DEF Init, RecordOK
<1>5. QED
  BY <1>2, <1>3, <1>4 DEF IInv, Init

LEMMA Stepping == IInv /\ [Next]_vars => IInv'
<1> SUFFICES ASSUME IInv, [Next]_vars PROVE IInv'
  OBVIOUS
<1>1. CASE UNCHANGED vars
  BY <1>1 DEF vars, IInv, TypeOK, RecordOK, Room, Pending, Distinct,
              CounterIsExact
<1>2. ASSUME NEW t \in Tasks, Throws(t) \/ PoolTimesOut(t)
      PROVE  IInv'
  BY <1>2, Fails DEF Throws, PoolTimesOut
<1>3. QED
  BY <1>1, <1>2, Quiet, Saves, Inserts, Increments, Commits, Crashes
  DEF Next, Run

LEMMA Invariance == Spec => []IInv
  BY Starting, Stepping, PTL DEF Spec

\* The columns and handlers of the unread counter (chat.service.ts:73-216,
\* 492-552, 636-667) keep their types.
THEOREM TypeCorrect == Spec => []TypeOK
<1>1. IInv => TypeOK
  BY DEF IInv
<1>2. QED
  BY <1>1, Invariance, PTL

\* Unless an old count was saved, an increment was lost or a read mark
\* crossed a message, the counter and the increments to come are the unread
\* messages, however handlers, errors and restarts interleave
\* (chat.service.ts:96-106, 492-551, 636-667).
THEOREM ExactCounter == Spec => []CounterIsExact
<1>1. IInv => CounterIsExact
  BY DEF IInv
<1>2. QED
  BY <1>1, Invariance, PTL

\* The counter never exceeds the messages there have ever been, whichever
\* older counts are saved over newer ones (chat.service.ts:492, 551).
THEOREM CounterIsBounded == Spec => []NeverMoreThanStored
<1>1. IInv => NeverMoreThanStored
  BY PendingIsFinite DEF IInv, TypeOK, Room, NeverMoreThanStored
<1>2. QED
  BY <1>1, Invariance, PTL
=============================================================================
