------------------------------ MODULE DeskRaces ------------------------------
(***************************************************************************)
(* What the assignment desk keeps to when its handlers overlap, and where  *)
(* that ends.                                                              *)
(*                                                                         *)
(* As far as these properties go, two handlers get in each other's way     *)
(* with a chat in two ways, and two history variables remember the chats   *)
(* it happened to.  A message handler is overtaken when another handler    *)
(* changes the row between its query and its end: it goes on with the      *)
(* entity and the status it read (chat.service.ts:125-206).  A response    *)
(* timer is crossed when the chat changes hands between the save of        *)
(* assignChat and the start of the timer for the agent it was given to     *)
(* (chat.service.ts:247-256).                                              *)
(***************************************************************************)
EXTENDS ChatAssignment

VARIABLES overtaken, \* history: chats whose row changed under a message handler
          crossed    \* history: chats that changed hands under Arm

races == <<overtaken, crossed>>

\* Another handler than t takes this step, and t goes on as if it had not.
Unaware(t) == task'[t] = task[t]

Overtakes(c) ==
    /\ chat'[c] # chat[c]
    /\ \E t \in HandlersOf(c) : task[t].at # "find" /\ Unaware(t)

Crosses(c) ==
    /\ Assignee(c)' # Assignee(c)
    /\ \E t \in Tasks : task[t].on = c /\ task[t].at = "arm" /\ Unaware(t)

Watch ==
    /\ overtaken' = overtaken \union {c \in Contacts : Overtakes(c)}
    /\ crossed' = crossed \union {c \in Contacts : Crosses(c)}

RaceSpec ==
    /\ Init /\ overtaken = {} /\ crossed = {}
    /\ [][Next /\ Watch]_<<vars, races>>

-----------------------------------------------------------------------------
(***************************************************************************)
(* Properties.                                                             *)
(***************************************************************************)
\* An agent who holds a chat and has not written in it since is watched by
\* the response timer of that chat, unless a handler is at work on it, a
\* fault met it or its timer was crossed (chat.service.ts:256, 398-450).
\* Assignments, releases, fired timers and hand-overs may overlap in any
\* other order.
SilentAgentIsTimed ==
    \A c \in Contacts \ crossed :
       /\ \A t \in Tasks : task[t].on # c
       /\ IsActive(c) /\ Assignee(c) # None
       /\ c \notin answered /\ mishap[c] = "none"
       => timer[c] = Assignee(c)

\* The stage of a chat for the people of the panel.
Stage(c) ==
    IF ~Exists(c) THEN "none"
    ELSE CASE chat[c].status = "AUTO_RESPONDER" -> "bot"
           [] chat[c].status = "CLOSED" -> "closed"
           [] chat[c].status = "PENDING_ASSIGNMENT" -> "queued"
           [] chat[c].status = "ACTIVE" ->
                 IF chat[c].assignedTo = None THEN "promised" ELSE "held"

\* Handlers that overlap, with every error, restart, outage and deactivated
\* account, take a chat through the stages of its life and no others
\* (chat.service.ts:73-396, 815-835), until a message handler is overtaken:
\* it is never closed under an agent or while it waits, and never leaves an
\* agent for nobody.
Followed == Contacts \ overtaken
Lifecycle == INSTANCE ChatLifecycle WITH
    stage <- [c \in Contacts |->
                 IF c \in Followed THEN Stage(c) ELSE "untold"],
    holder <- [c \in Contacts |->
                 IF c \in Followed THEN Assignee(c) ELSE None],
    answering <- {c \in Followed : \E t \in HandlersOf(c) :
                    \/ task[t].frame = "try" \/ task[t].at = "apology"
                    \/ task[t].at = "save" /\ task[t].then = "handoff"},
    marred <- {c \in Contacts : mishap[c] # "none"}
FollowsLifecycle == Lifecycle!Spec
=============================================================================
