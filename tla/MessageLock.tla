---------------------------- MODULE MessageLock ----------------------------
(***************************************************************************)
(* The per-contact Redis lock around the handling of an incoming WhatsApp  *)
(* message (ChatService.handleIncomingMessage with RedisStateStore), run   *)
(* by several instances of the backend on one Redis and one database.      *)
(*                                                                         *)
(* A handler is one invocation of handleIncomingMessage.  It takes the     *)
(* lock `chat:processing:<contact>` (SET NX PX 30000), finds the chat of   *)
(* the contact, inserts or updates it, does the rest of the work and       *)
(* deletes the lock.  The table has no unique key on the contact, so only  *)
(* the lock stands between two handlers and two rows.  The lock carries no *)
(* owner: whoever finishes deletes whatever lock is there, and it also     *)
(* disappears when its 30 seconds are over.                                *)
(*                                                                         *)
(* Assumption on time: while a contact has no row yet, the lock does not   *)
(* expire under a handler (two statements against 30 seconds).  Once the   *)
(* row is there it may well expire during the rest of the work, which      *)
(* waits for WhatsApp, for typing delays and for an HTTP API.              *)
(***************************************************************************)
EXTENDS Naturals, FiniteSets

CONSTANTS Contacts,   \* phone numbers that write
          Instances,  \* backend processes that share Redis and the database
          Slots,      \* concurrent handlers within one instance
          None,       \* no contact
          Faults      \* which of "redisError" and "crash" may happen

ASSUME NoneAssumption == None \notin Contacts
ASSUME FaultsAssumption == Faults \subseteq {"redisError", "crash"}

Handlers == Instances \X Slots
InstanceOf(h) == h[1]

VARIABLES lock,    \* contacts whose lock key exists in Redis
          rows,    \* number of chat rows of each contact
          at,      \* where each handler is
          on,      \* the contact each handler works on
          ignored, \* <<instance, contact>> of the messages given up so far
          lapsed   \* ghost: contacts whose lock expired under a handler

vars == <<lock, rows, at, on, ignored, lapsed>>

Places == {"idle", "finding", "inserting", "updating", "processing", "releasing"}

Busy(c) == {h \in Handlers : on[h] = c}

(***************************************************************************)
(* Acquiring.  A handler that does not get the lock ends at once: the      *)
(* message is not stored and not retried.                                  *)
(***************************************************************************)
\* Mutant of AcquireLock: SET without NX.
AcquireWithoutNX(h, c) ==
    /\ at[h] = "idle"
    /\ lock' = lock \union {c}
    /\ at' = [at EXCEPT ![h] = "finding"]
    /\ on' = [on EXCEPT ![h] = c]
    /\ UNCHANGED <<rows, ignored, lapsed>>

AcquireLock(h, c) ==
    /\ at[h] = "idle"
    /\ c \notin lock
    /\ lock' = lock \union {c}
    /\ at' = [at EXCEPT ![h] = "finding"]
    /\ on' = [on EXCEPT ![h] = c]
    /\ UNCHANGED <<rows, ignored, lapsed>>

Ignore(h, c) ==
    /\ at[h] = "idle"
    /\ ignored' = ignored \union {<<InstanceOf(h), c>>}
    /\ UNCHANGED <<rows, at, on, lapsed>>

IgnoreMessage(h, c) == c \in lock /\ Ignore(h, c) /\ UNCHANGED lock

\* Mutant of AcquireFails: an error of Redis is taken for an acquired lock.
AcquireFailsOpen(h, c) ==
    /\ "redisError" \in Faults
    /\ at[h] = "idle"
    /\ at' = [at EXCEPT ![h] = "finding"]
    /\ on' = [on EXCEPT ![h] = c]
    /\ UNCHANGED <<lock, rows, ignored, lapsed>>

\* An error of Redis is caught and reported as "not acquired", whether it
\* came before or after the key was set.
AcquireFails(h, c) ==
    /\ "redisError" \in Faults
    /\ Ignore(h, c)
    /\ lock' \in {lock, lock \union {c}}

(***************************************************************************)
(* The work under the lock.                                                *)
(***************************************************************************)
Step(h, from, to) == at[h] = from /\ at' = [at EXCEPT ![h] = to]

FindChat(h) ==
    /\ Step(h, "finding", IF rows[on[h]] = 0 THEN "inserting" ELSE "updating")
    /\ UNCHANGED <<lock, rows, on, ignored, lapsed>>

InsertChat(h) ==
    /\ Step(h, "inserting", "processing")
    /\ rows' = [rows EXCEPT ![on[h]] = @ + 1]
    /\ UNCHANGED <<lock, on, ignored, lapsed>>

UpdateChat(h) ==
    /\ Step(h, "updating", "processing")
    /\ UNCHANGED <<lock, rows, on, ignored, lapsed>>

Finish(h) ==
    /\ Step(h, "processing", "releasing")
    /\ UNCHANGED <<lock, rows, on, ignored, lapsed>>

\* Any error of the work is logged and swallowed; `finally` still runs.
Throw(h) ==
    /\ at[h] \in {"finding", "inserting", "updating", "processing"}
    /\ at' = [at EXCEPT ![h] = "releasing"]
    /\ UNCHANGED <<lock, rows, on, ignored, lapsed>>

(***************************************************************************)
(* Releasing.                                                              *)
(***************************************************************************)
StillLapsed == {c \in lapsed : \E h \in Handlers : on'[h] = c}

\* Mutant of EndHandler: the handler ends but still counts on its contact.
EndHandlerHalfway(h) ==
    /\ Step(h, "releasing", "idle")
    /\ lapsed' = StillLapsed
    /\ UNCHANGED <<rows, on, ignored>>

EndHandler(h) ==
    /\ Step(h, "releasing", "idle")
    /\ on' = [on EXCEPT ![h] = None]
    /\ lapsed' = StillLapsed
    /\ UNCHANGED <<rows, ignored>>

\* DEL without looking at who holds the key.
ReleaseLock(h) == EndHandler(h) /\ lock' = lock \ {on[h]}

ReleaseFails(h) ==
    /\ "redisError" \in Faults
    /\ EndHandler(h)
    /\ UNCHANGED lock

(***************************************************************************)
(* The environment: time and crashes.                                      *)
(***************************************************************************)
\* Mutant of LockExpires: SET without PX.
LockNeverExpires(c) == c \in lock /\ FALSE /\ UNCHANGED vars

\* The 30 s of PX are over; the second conjunct is the assumption on time.
LockExpires(c) ==
    /\ c \in lock
    /\ rows[c] > 0 \/ Busy(c) = {}
    /\ lock' = lock \ {c}
    /\ lapsed' = IF Busy(c) = {} THEN lapsed ELSE lapsed \union {c}
    /\ UNCHANGED <<rows, at, on, ignored>>

Crash(i) ==
    /\ "crash" \in Faults
    /\ at' = [h \in Handlers |-> IF InstanceOf(h) = i THEN "idle" ELSE at[h]]
    /\ on' = [h \in Handlers |-> IF InstanceOf(h) = i THEN None ELSE on[h]]
    /\ lapsed' = StillLapsed
    /\ UNCHANGED <<lock, rows, ignored>>

Init ==
    /\ lock = {}
    /\ rows = [c \in Contacts |-> 0]
    /\ at = [h \in Handlers |-> "idle"]
    /\ on = [h \in Handlers |-> None]
    /\ ignored = {}
    /\ lapsed = {}

Work(h) == \/ FindChat(h) \/ InsertChat(h) \/ UpdateChat(h) \/ Finish(h)
           \/ ReleaseLock(h)

Next ==
    \/ \E h \in Handlers, c \in Contacts :
          AcquireLock(h, c) \/ IgnoreMessage(h, c) \/ AcquireFails(h, c)
    \/ \E h \in Handlers : Work(h) \/ Throw(h) \/ ReleaseFails(h)
    \/ \E c \in Contacts : LockExpires(c)
    \/ \E i \in Instances : Crash(i)

Spec == Init /\ [][Next]_vars

(***************************************************************************)
(* Fairness: a handler that runs goes on, and time passes.  Nothing is     *)
(* assumed of messages, errors or crashes.                                 *)
(***************************************************************************)
FairSpec ==
    /\ Spec
    /\ \A h \in Handlers : WF_vars(Work(h))
    /\ \A c \in Contacts : WF_vars(LockExpires(c))

-----------------------------------------------------------------------------
\* The variables keep their types (chat.service.ts:73-147 and
\* redis-state-store.ts:98-125 as a state machine).
TypeOK ==
    /\ lock \subseteq Contacts
    /\ rows \in [Contacts -> Nat]
    /\ at \in [Handlers -> Places]
    /\ on \in [Handlers -> Contacts \union {None}]
    /\ \A h \in Handlers : at[h] = "idle" <=> on[h] = None
    /\ ignored \subseteq Instances \X Contacts
    /\ lapsed \subseteq Contacts

\* A contact never has two chat rows, although nothing in the schema says
\* so (chat.entity.ts:23): the find and the insert of two handlers never
\* overlap, with any number of instances, crashes, errors of Redis, expired
\* locks, and locks deleted by a handler that no longer owned them.
OneChatPerContact == \A c \in Contacts : rows[c] <= 1

\* Two handlers work on one contact only after a lock expired under one of
\* them; failed deletions and crashes alone never let a second one in.
OneAtATime ==
    \A c \in Contacts \ lapsed : \A g, h \in Busy(c) : g = h

\* Whatever becomes of locks, instances and Redis, the handlers keep to
\* what the rest of the backend relies on (chat.service.ts:73-147).
Duty == INSTANCE MessageDuty WITH duty <- on
ImplementsDuty == Duty!Spec

\* The lock of a contact never outlives its use for good: whatever happened
\* to the instance that took it, it disappears (chat.service.ts:89-91, and
\* the PX of redis-state-store.ts:101).
LockFreed == \A c \in Contacts : c \in lock ~> c \notin lock

\* What chat.service.ts:81 logs when a message is ignored: the chat "esta
\* siendo procesado por otra instancia" (is being processed by another
\* instance).
IgnoredOnlyForAnotherInstance ==
    [][\A m \in ignored' \ ignored :
          \E h \in Busy(m[2]) : InstanceOf(h) # m[1]]_vars
=============================================================================
