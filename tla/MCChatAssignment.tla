-------------------------- MODULE MCChatAssignment --------------------------
(***************************************************************************)
(* Instances of ChatAssignment for TLC.                                    *)
(***************************************************************************)
EXTENDS ChatAssignment, TLC

Symmetry == Permutations(Agents) \union Permutations(Tasks)
                \union Permutations(Contacts)

\* With one handler in flight nobody is in its way: the histories of
\* DeskRaces stay empty and excuse nothing.
OneHandler == INSTANCE DeskRaces WITH overtaken <- {}, crossed <- {}

\* An agent who holds a chat and has not written in it since is watched by
\* its response timer, unless a handler is at work on it or a fault met it
\* (chat.service.ts:256, 398-450).
SilentAgentIsTimed == OneHandler!SilentAgentIsTimed

\* With every error, restart, outage and deactivated account a chat goes
\* through the stages of its life and no others (chat.service.ts:73-396,
\* 815-835).
FollowsLifecycle == OneHandler!FollowsLifecycle
=============================================================================
