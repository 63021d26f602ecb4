---------------------------- MODULE MessageDuty ----------------------------
(***************************************************************************)
(* What the rest of the backend may rely on while incoming messages are    *)
(* handled (ChatService.handleIncomingMessage): a handler is on duty for   *)
(* one contact; nobody joins it before the contact has its chat; the chat  *)
(* is created once, by a handler on duty, and never goes away.             *)
(*                                                                         *)
(* MessageLock implements it with a lock that can lapse, on any number of  *)
(* instances.  ChatAssignment, which has no lock, keeps to it.             *)
(***************************************************************************)
CONSTANTS Contacts, Handlers, None

VARIABLES duty, \* the contact each handler is on duty for, or None
          rows  \* number of chats of each contact

vars == <<duty, rows>>

OnDuty(c) == {h \in Handlers : duty[h] = c}

Init ==
    /\ duty = [h \in Handlers |-> None]
    /\ rows = [c \in Contacts |-> 0]

Begin(h, c) ==
    /\ duty[h] = None
    /\ OnDuty(c) = {} \/ rows[c] = 1
    /\ duty' = [duty EXCEPT ![h] = c]
    /\ UNCHANGED rows

\* The only handler on duty creates the chat.
Create(h, c) ==
    /\ OnDuty(c) = {h}
    /\ rows[c] = 0
    /\ rows' = [rows EXCEPT ![c] = 1]
    /\ UNCHANGED duty

\* Handlers end, one by one or all those of an instance that goes down.
End(H) ==
    /\ duty' = [h \in Handlers |-> IF h \in H THEN None ELSE duty[h]]
    /\ UNCHANGED rows

Next ==
    \/ \E h \in Handlers, c \in Contacts : Begin(h, c) \/ Create(h, c)
    \/ \E H \in SUBSET Handlers : End(H)

Spec == Init /\ [][Next]_vars
=============================================================================
