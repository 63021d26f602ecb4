------------------------- MODULE MessageLockProofs -------------------------
(***************************************************************************)
(* Proofs about MessageLock for any sets of contacts, instances and slots. *)
(***************************************************************************)
EXTENDS MessageLock, TLAPS

-----------------------------------------------------------------------------
(***************************************************************************)
(* Type correctness.                                                       *)
(***************************************************************************)

\* The variables of the lock protocol (chat.service.ts:73-147) keep their
\* types.
THEOREM TypeCorrect == Spec => []TypeOK
<1>1. Init => TypeOK
  BY NoneAssumption DEF Init, TypeOK, Places
<1>2. TypeOK /\ [Next]_vars => TypeOK'
  <2> SUFFICES ASSUME TypeOK, [Next]_vars
               PROVE  TypeOK'
    OBVIOUS
  <2> USE NoneAssumption DEF TypeOK, Places, Handlers, InstanceOf
  <2>1. ASSUME NEW h \in Handlers, NEW c \in Contacts, AcquireLock(h, c)
        PROVE  TypeOK'
    BY <2>1 DEF AcquireLock
  <2>2. ASSUME NEW h \in Handlers, NEW c \in Contacts,
               IgnoreMessage(h, c) \/ AcquireFails(h, c)
        PROVE  TypeOK'
    BY <2>2 DEF IgnoreMessage, AcquireFails, Ignore
  <2>3. ASSUME NEW h \in Handlers, FindChat(h)
        PROVE  TypeOK'
    BY <2>3 DEF FindChat, Step
  <2>4. ASSUME NEW h \in Handlers, InsertChat(h)
        PROVE  TypeOK'
    BY <2>4 DEF InsertChat, Step
  <2>5. ASSUME NEW h \in Handlers, UpdateChat(h) \/ Finish(h) \/ Throw(h)
        PROVE  TypeOK'
    BY <2>5 DEF UpdateChat, Finish, Throw, Step
  <2>6. ASSUME NEW h \in Handlers, ReleaseLock(h) \/ ReleaseFails(h)
        PROVE  TypeOK'
    BY <2>6 DEF ReleaseLock, ReleaseFails, EndHandler, StillLapsed, Step
  <2>7. ASSUME NEW c \in Contacts, LockExpires(c)
        PROVE  TypeOK'
    BY <2>7 DEF LockExpires
  <2>8. ASSUME NEW i \in Instances, Crash(i)
        PROVE  TypeOK'
    BY <2>8 DEF Crash, StillLapsed
  <2>9. CASE UNCHANGED vars
    BY <2>9 DEF vars
  <2>10. QED
    BY <2>1, <2>2, <2>3, <2>4, <2>5, <2>6, <2>7, <2>8, <2>9 DEF Next, Work
<1>3. QED
  BY <1>1, <1>2, PTL DEF Spec

-----------------------------------------------------------------------------
(***************************************************************************)
(* Mutual exclusion.  A contact is exclusive when at most one handler      *)
(* works on it, under its lock.  Contacts stay exclusive until their lock  *)
(* expires under a handler, which only happens once the row is there.      *)
(***************************************************************************)
Exclusive(c) ==
    /\ \A g, h \in Busy(c) : g = h
    /\ Busy(c) # {} => c \in lock

ExclusiveUntilLapse ==
    \A c \in Contacts : rows[c] = 0 \/ c \notin lapsed => Exclusive(c)

InsertsIntoNothing ==
    \A h \in Handlers : at[h] = "inserting" => rows[on[h]] = 0

IInv == /\ TypeOK
        /\ OneChatPerContact
        /\ ExclusiveUntilLapse
        /\ InsertsIntoNothing

LEMMA IInvInit == Init => IInv
  BY NoneAssumption
  DEF Init, IInv, TypeOK, Places, OneChatPerContact, ExclusiveUntilLapse,
      Exclusive, Busy, InsertsIntoNothing

\* A step that leaves the rows alone, ends some handlers and starts none,
\* and keeps the lock of the others, preserves the invariant.
LEMMA EndingHandlers ==
  ASSUME IInv, TypeOK', UNCHANGED rows, lapsed' = StillLapsed,
         \A h \in Handlers : \/ at'[h] = at[h] /\ on'[h] = on[h]
                             \/ at'[h] = "idle" /\ on'[h] = None,
         \A c \in Contacts : c \in lock' \/ c \notin lock
                             \/ \E h \in Busy(c) : on'[h] = None
  PROVE  IInv'
<1>1. OneChatPerContact'
  BY DEF IInv, OneChatPerContact
<1>2. InsertsIntoNothing'
  BY DEF IInv, InsertsIntoNothing
<1>3. ASSUME NEW c \in Contacts, rows[c] = 0 \/ c \notin lapsed'
      PROVE  Exclusive(c)'
  <2>1. Busy(c)' \subseteq Busy(c)
    BY NoneAssumption DEF Busy
  <2>2. CASE rows[c] = 0 \/ c \notin lapsed
    <3>1. Exclusive(c)
      BY <2>2 DEF IInv, ExclusiveUntilLapse
    <3>2. ASSUME Busy(c)' # {}
          PROVE  c \in lock'
      BY <2>1, <3>1, <3>2, NoneAssumption DEF Exclusive, Busy
    <3>3. QED
      BY <2>1, <3>1, <3>2 DEF Exclusive
  <2>3. CASE c \in lapsed /\ c \notin lapsed'
    <3>1. Busy(c)' = {}
      BY <2>3 DEF StillLapsed, Busy
    <3>2. QED
      BY <3>1 DEF Exclusive
  <2>4. QED
    BY <1>3, <2>2, <2>3
<1>4. ExclusiveUntilLapse'
  BY <1>3 DEF ExclusiveUntilLapse
<1>5. QED
  BY <1>1, <1>2, <1>4 DEF IInv

\* A step that only moves a handler along preserves who is exclusive.
LEMMA MovingHandlers ==
  ASSUME IInv, TypeOK', UNCHANGED <<lock, on, lapsed>>,
         \A c \in Contacts : rows'[c] = 0 => rows[c] = 0
  PROVE  ExclusiveUntilLapse'
  BY DEF IInv, ExclusiveUntilLapse, Exclusive, Busy

LEMMA IInvNext == IInv /\ TypeOK' /\ [Next]_vars => IInv'
<1> SUFFICES ASSUME IInv, TypeOK', [Next]_vars
             PROVE  IInv'
  OBVIOUS
<1> USE NoneAssumption
<1>1. ASSUME NEW h \in Handlers, NEW c \in Contacts, AcquireLock(h, c)
      PROVE  IInv'
  <2>1. OneChatPerContact' /\ InsertsIntoNothing'
    BY <1>1 DEF AcquireLock, IInv, TypeOK, OneChatPerContact,
                InsertsIntoNothing
  <2>2. ASSUME NEW d \in Contacts, rows[d] = 0 \/ d \notin lapsed
        PROVE  Exclusive(d)'
    <3>1. Exclusive(d)
      BY <2>2 DEF IInv, ExclusiveUntilLapse
    <3>2. CASE d = c
      <4>1. Busy(c) = {}
        BY <1>1, <3>1, <3>2 DEF Exclusive, AcquireLock
      <4>2. Busy(c)' = {h} /\ c \in lock'
        BY <1>1, <4>1 DEF Busy, AcquireLock, IInv, TypeOK
      <4>3. QED
        BY <3>2, <4>2 DEF Exclusive
    <3>3. CASE d # c
      <4>1. Busy(d)' = Busy(d) /\ (d \in lock => d \in lock')
        BY <1>1, <3>3 DEF Busy, AcquireLock, IInv, TypeOK
      <4>2. QED
        BY <3>1, <4>1 DEF Exclusive
    <3>4. QED
      BY <3>2, <3>3
  <2>3. ExclusiveUntilLapse'
    BY <1>1, <2>2 DEF AcquireLock, ExclusiveUntilLapse
  <2>4. QED
    BY <2>1, <2>3 DEF IInv
<1>2. ASSUME NEW h \in Handlers, NEW c \in Contacts,
             IgnoreMessage(h, c) \/ AcquireFails(h, c)
      PROVE  IInv'
  <2>1. UNCHANGED <<rows, at, on, lapsed>> /\ lock \subseteq lock'
    BY <1>2 DEF IgnoreMessage, AcquireFails, Ignore
  <2>2. QED
    BY <2>1 DEF IInv, OneChatPerContact, InsertsIntoNothing,
                ExclusiveUntilLapse, Exclusive, Busy
<1>3. ASSUME NEW h \in Handlers, FindChat(h)
      PROVE  IInv'
  <2>1. ExclusiveUntilLapse'
    BY <1>3, MovingHandlers DEF FindChat, Step
  <2>2. OneChatPerContact' /\ InsertsIntoNothing'
    BY <1>3 DEF FindChat, Step, IInv, TypeOK, OneChatPerContact,
                InsertsIntoNothing
  <2>3. QED
    BY <2>1, <2>2 DEF IInv
<1>4. ASSUME NEW h \in Handlers, InsertChat(h)
      PROVE  IInv'
  <2> DEFINE c == on[h]
  <2>1. c \in Contacts /\ rows[c] = 0 /\ h \in Busy(c)
    BY <1>4 DEF InsertChat, Step, IInv, TypeOK, InsertsIntoNothing, Busy
  <2>2. rows' = [rows EXCEPT ![c] = 1]
    BY <1>4, <2>1 DEF InsertChat
  <2>3. OneChatPerContact'
    BY <2>1, <2>2 DEF IInv, TypeOK, OneChatPerContact
  <2>4. ExclusiveUntilLapse'
    BY <1>4, <2>1, <2>2, MovingHandlers
    DEF InsertChat, Step, IInv, TypeOK
  <2>5. ASSUME NEW g \in Handlers, at'[g] = "inserting"
        PROVE  rows'[on'[g]] = 0
    <3>1. at[g] = "inserting" /\ g # h /\ on'[g] = on[g]
      BY <1>4, <2>5 DEF InsertChat, Step, IInv, TypeOK
    <3>2. on[g] # c
      BY <2>1, <3>1 DEF IInv, ExclusiveUntilLapse, Exclusive, Busy
    <3>3. rows[on[g]] = 0 /\ on[g] \in Contacts
      BY <3>1 DEF IInv, TypeOK, InsertsIntoNothing
    <3>4. QED
      BY <2>2, <3>1, <3>2, <3>3 DEF IInv, TypeOK
  <2>6. QED
    BY <2>3, <2>4, <2>5 DEF IInv, InsertsIntoNothing
<1>5. ASSUME NEW h \in Handlers, UpdateChat(h) \/ Finish(h) \/ Throw(h)
      PROVE  IInv'
  <2>1. UNCHANGED <<lock, rows, on, lapsed>>
    BY <1>5 DEF UpdateChat, Finish, Throw
  <2>2. \A g \in Handlers : at'[g] = "inserting" => at[g] = "inserting"
    BY <1>5 DEF UpdateChat, Finish, Throw, Step, IInv, TypeOK
  <2>3. ExclusiveUntilLapse'
    BY <2>1, MovingHandlers
  <2>4. QED
    BY <2>1, <2>2, <2>3 DEF IInv, OneChatPerContact, InsertsIntoNothing
<1>6. ASSUME NEW h \in Handlers, ReleaseLock(h) \/ ReleaseFails(h)
      PROVE  IInv'
  <2>1. /\ UNCHANGED rows
        /\ lapsed' = StillLapsed
        /\ lock' = lock \ {on[h]} \/ lock' = lock
    BY <1>6 DEF ReleaseLock, ReleaseFails, EndHandler
  <2>2. at' = [at EXCEPT ![h] = "idle"] /\ on' = [on EXCEPT ![h] = None]
    BY <1>6 DEF ReleaseLock, ReleaseFails, EndHandler, Step
  <2>3. \A g \in Handlers : \/ at'[g] = at[g] /\ on'[g] = on[g]
                            \/ at'[g] = "idle" /\ on'[g] = None
    BY <2>2 DEF IInv, TypeOK
  <2>4. \A c \in Contacts : c \in lock' \/ c \notin lock
                            \/ \E g \in Busy(c) : on'[g] = None
    BY <2>1, <2>2 DEF IInv, TypeOK, Busy
  <2>5. QED
    BY <2>1, <2>3, <2>4, EndingHandlers
<1>7. ASSUME NEW c \in Contacts, LockExpires(c)
      PROVE  IInv'
  <2>1. UNCHANGED <<rows, at, on>>
    BY <1>7 DEF LockExpires
  <2>2. OneChatPerContact' /\ InsertsIntoNothing'
    BY <2>1 DEF IInv, OneChatPerContact, InsertsIntoNothing
  <2>3. ASSUME NEW d \in Contacts, rows[d] = 0 \/ d \notin lapsed'
        PROVE  Exclusive(d)'
    <3>1. Busy(d)' = Busy(d)
      BY <2>1 DEF Busy
    <3>2. Exclusive(d)
      BY <1>7, <2>3 DEF LockExpires, IInv, ExclusiveUntilLapse
    <3>3. CASE d = c
      BY <1>7, <2>3, <3>1, <3>2, <3>3
      DEF LockExpires, Exclusive, IInv, TypeOK
    <3>4. CASE d # c
      BY <1>7, <3>1, <3>2, <3>4 DEF LockExpires, Exclusive
    <3>5. QED
      BY <3>3, <3>4
  <2>4. QED
    BY <2>1, <2>2, <2>3 DEF IInv, ExclusiveUntilLapse
<1>8. ASSUME NEW i \in Instances, Crash(i)
      PROVE  IInv'
  <2>1. UNCHANGED <<rows, lock>> /\ lapsed' = StillLapsed
    BY <1>8 DEF Crash
  <2>2. \A g \in Handlers : \/ at'[g] = at[g] /\ on'[g] = on[g]
                            \/ at'[g] = "idle" /\ on'[g] = None
    BY <1>8 DEF Crash
  <2>3. QED
    BY <2>1, <2>2, EndingHandlers
<1>9. CASE UNCHANGED vars
  BY <1>9 DEF vars, IInv, OneChatPerContact, InsertsIntoNothing,
              ExclusiveUntilLapse, Exclusive, Busy
<1>10. QED
  BY <1>1, <1>2, <1>3, <1>4, <1>5, <1>6, <1>7, <1>8, <1>9 DEF Next, Work

LEMMA IInvHolds == Spec => []IInv
<1>1. IInv /\ TypeOK' /\ [Next]_vars => IInv'
  BY IInvNext
<1>2. QED
  BY <1>1, IInvInit, TypeCorrect, PTL DEF Spec

\* No contact ever has two chat rows (chat.service.ts:96-146).
THEOREM OneRow == Spec => []OneChatPerContact
<1>1. IInv => OneChatPerContact
  BY DEF IInv
<1>2. QED
  BY <1>1, IInvHolds, PTL

\* Two handlers share a contact only after its lock expired under one of
\* them (chat.service.ts:78-91).
THEOREM MutualExclusion == Spec => []OneAtATime
<1>1. IInv => OneAtATime
  BY DEF IInv, ExclusiveUntilLapse, Exclusive, OneAtATime
<1>2. QED
  BY <1>1, IInvHolds, PTL

-----------------------------------------------------------------------------
(***************************************************************************)
(* Refinement: the lock implements MessageDuty.                            *)
(***************************************************************************)
LEMMA EndsImplementDuty ==
  ASSUME TypeOK, UNCHANGED rows,
         \A h \in Handlers : on'[h] = on[h] \/ on'[h] = None,
         on' \in [Handlers -> Contacts \union {None}]
  PROVE  [Duty!Next]_(Duty!vars)
<1> DEFINE H == {h \in Handlers : on'[h] = None}
<1>1. on' = [h \in Handlers |-> IF h \in H THEN None ELSE on[h]]
  BY DEF TypeOK
<1>2. Duty!End(H)
  BY <1>1 DEF Duty!End
<1>3. QED
  BY <1>2 DEF Duty!Next

LEMMA StepImplementsDuty ==
  IInv /\ TypeOK' /\ [Next]_vars => [Duty!Next]_(Duty!vars)
<1> SUFFICES ASSUME IInv, TypeOK', [Next]_vars
             PROVE  [Duty!Next]_(Duty!vars)
  OBVIOUS
<1> USE NoneAssumption
<1>0. TypeOK
  BY DEF IInv
<1>1. ASSUME NEW h \in Handlers, NEW c \in Contacts, AcquireLock(h, c)
      PROVE  Duty!Begin(h, c)
  <2>1. on[h] = None /\ on' = [on EXCEPT ![h] = c] /\ UNCHANGED rows
    BY <1>0, <1>1 DEF AcquireLock, TypeOK
  <2>2. Busy(c) = {} \/ rows[c] = 1
    <3>1. CASE rows[c] = 0
      BY <1>1, <3>1 DEF AcquireLock, IInv, ExclusiveUntilLapse, Exclusive
    <3>2. CASE rows[c] # 0
      BY <1>0, <3>2 DEF IInv, OneChatPerContact, TypeOK
    <3>3. QED
      BY <3>1, <3>2
  <2>3. QED
    BY <2>1, <2>2 DEF Duty!Begin, Duty!OnDuty, Busy
<1>2. ASSUME NEW h \in Handlers, InsertChat(h)
      PROVE  Duty!Create(h, on[h]) /\ on[h] \in Contacts
  <2>1. on[h] \in Contacts /\ rows[on[h]] = 0 /\ h \in Busy(on[h])
    BY <1>0, <1>2 DEF InsertChat, Step, IInv, InsertsIntoNothing, TypeOK, Busy
  <2>2. Busy(on[h]) = {h}
    BY <2>1 DEF IInv, ExclusiveUntilLapse, Exclusive
  <2>3. rows' = [rows EXCEPT ![on[h]] = 1] /\ UNCHANGED on
    BY <1>0, <1>2, <2>1 DEF InsertChat, TypeOK
  <2>4. QED
    BY <2>1, <2>2, <2>3 DEF Duty!Create, Duty!OnDuty, Busy
<1>3. ASSUME NEW h \in Handlers, NEW c \in Contacts,
             IgnoreMessage(h, c) \/ AcquireFails(h, c)
      PROVE  UNCHANGED <<on, rows>>
  BY <1>3 DEF IgnoreMessage, AcquireFails, Ignore
<1>4. ASSUME NEW h \in Handlers,
             FindChat(h) \/ UpdateChat(h) \/ Finish(h) \/ Throw(h)
      PROVE  UNCHANGED <<on, rows>>
  BY <1>4 DEF FindChat, UpdateChat, Finish, Throw
<1>5. ASSUME NEW h \in Handlers, ReleaseLock(h) \/ ReleaseFails(h)
      PROVE  [Duty!Next]_(Duty!vars)
  <2>1. on' = [on EXCEPT ![h] = None] /\ UNCHANGED rows
    BY <1>5 DEF ReleaseLock, ReleaseFails, EndHandler
  <2>2. QED
    BY <1>0, <2>1, EndsImplementDuty DEF TypeOK
<1>6. ASSUME NEW i \in Instances, Crash(i)
      PROVE  [Duty!Next]_(Duty!vars)
  <2>1. /\ on' = [h \in Handlers |-> IF InstanceOf(h) = i THEN None ELSE on[h]]
        /\ UNCHANGED rows
    BY <1>6 DEF Crash
  <2>2. QED
    BY <1>0, <2>1, EndsImplementDuty DEF TypeOK
<1>7. ASSUME NEW c \in Contacts, LockExpires(c)
      PROVE  UNCHANGED <<on, rows>>
  BY <1>7 DEF LockExpires
<1>8. CASE UNCHANGED vars
  BY <1>8 DEF vars, Duty!vars
<1>9. QED
  BY <1>1, <1>2, <1>3, <1>4, <1>5, <1>6, <1>7, <1>8
  DEF Next, Work, Duty!Next, Duty!vars

\* With any number of instances, errors of Redis, crashes and expired locks,
\* the message handlers keep to MessageDuty: nobody joins the handler that
\* creates a chat, and it is created once (chat.service.ts:73-147).
THEOREM LockImplementsDuty == Spec => ImplementsDuty
<1>1. Init => Duty!Init
  BY DEF Init, Duty!Init
<1>2. QED
  BY <1>1, IInvHolds, TypeCorrect, StepImplementsDuty, PTL
  DEF Spec, ImplementsDuty, Duty!Spec
=============================================================================
