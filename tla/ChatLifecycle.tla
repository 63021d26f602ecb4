--------------------------- MODULE ChatLifecycle ---------------------------
(***************************************************************************)
(* The life of a chat as the people of the panel understand it: the stages *)
(* a chat goes through, who holds it and whether the bot is answering a    *)
(* message, without handlers, queries, timers or entities in memory.  A    *)
(* chat is with the bot, promised to the agents, queued for them, held by  *)
(* one, or closed.                                                         *)
(*                                                                         *)
(* The life of a chat is told until two handlers get in each other's way   *)
(* with it: DeskRaces says when that is, and implements this.              *)
(***************************************************************************)
CONSTANTS Contacts, Users, None

VARIABLES stage,      \* of each contact's chat, "none" before the first message
                      \* and "untold" when it is told no further
          holder,     \* the user each chat is assigned to, or None
          answering,  \* contacts whose message the bot is answering
          marred      \* contacts about whose chat something went wrong

vars == <<stage, holder, answering, marred>>

Init ==
    /\ stage = [c \in Contacts |-> "none"]
    /\ holder = [c \in Contacts |-> None]
    /\ answering = {}
    /\ marred = {}

Becomes(c, s, u) ==
    /\ stage' = [stage EXCEPT ![c] = s]
    /\ holder' = [holder EXCEPT ![c] = u]
    /\ marred \subseteq marred'

\* The bot answers only for a chat it has.
Answer(c) ==
    /\ stage[c] = "bot"
    /\ answering' = answering \union {c}
    /\ UNCHANGED <<stage, holder, marred>>

\* It is done, or gives up, or something else goes wrong, at any time.
Fall == answering' \subseteq answering
Done == Fall /\ UNCHANGED <<stage, holder>> /\ marred \subseteq marred'

\* A chat begins with the bot, and comes back to it when it is reopened or
\* released: nobody holds it then.
ToBot(c) == Becomes(c, "bot", None) /\ Fall

\* The bot promises an agent; when it fails after that, or after the closing
\* of the chat, it does so again, whatever came of the first time.
Promise(c) == c \in answering /\ Becomes(c, "promised", None) /\ Fall

\* The bot closes the chat after a survey, and only a chat it has.
Close(c) ==
    /\ c \in answering
    /\ stage[c] = "bot"
    /\ Becomes(c, "closed", None)
    /\ Fall

\* It waits for an agent; whoever held it still does.
Queue(c) ==
    /\ stage[c] # "none"
    /\ \/ Becomes(c, "queued", holder[c])
       \/ c \in marred /\ Becomes(c, "queued", None)
    /\ Fall

Hold(c, u) == stage[c] # "none" /\ Becomes(c, "held", u) /\ Fall

\* It is left to nobody, which is what a deactivated holder comes to.
Lose(c) ==
    /\ c \in marred
    /\ stage[c] = "held"
    /\ Becomes(c, "promised", None)
    /\ Fall

\* Two handlers are in each other's way.
Leave(c) ==
    /\ Becomes(c, "untold", None)
    /\ answering' \subseteq answering \ {c}

Next ==
    \/ \E c \in Contacts :
          \/ Answer(c) \/ ToBot(c) \/ Promise(c) \/ Close(c) \/ Queue(c)
          \/ Lose(c) \/ Leave(c)
          \/ \E u \in Users : Hold(c, u)
    \/ Done

Spec == Init /\ [][Next]_vars
=============================================================================
