----------------------- MODULE ConversationFlowProofs -----------------------
(***************************************************************************)
(* For any number of timers and every choice of faults: the variables of   *)
(* ConversationFlow keep their types, no debt is shown without consent, no *)
(* rating is stored without its question, and no session loses its timer.  *)
(***************************************************************************)
EXTENDS ConversationFlow, TLAPS

-----------------------------------------------------------------------------
(***************************************************************************)
(* Types.                                                                  *)
(***************************************************************************)
\* getUserState returns and leaves a state (redis-state-store.ts:49-71).
LEMMA ReadIsState ==
    ASSUME TypeOK, NEW s \in UserState, GetUserState(s)
    PROVE  conv' \in UserState \union {None}
BY DEF TypeOK, GetUserState, Stored, UserState, DefaultState, Steps

\* The steps of the timer's callback leave the map of timers in order
\* (chat.service.ts:462-487).
LEMMA AdvanceType ==
    ASSUME TypeOK, NEW t \in Timers, NEW from \in TimerPlaces,
           NEW to \in TimerPlaces \ {"off"}, Advance(t, from, to)
    PROVE  /\ timer' \in [Timers -> TimerPlaces]
           /\ handle' \in Timers \union {None}
           /\ handle' # None => timer'[handle'] # "off"
BY DEF TypeOK, Advance

LEMMA EndTimerType ==
    ASSUME TypeOK, NEW t \in Timers, EndTimer(t)
    PROVE  /\ timer' \in [Timers -> TimerPlaces]
           /\ handle' \in Timers \union {None}
           /\ handle' # None => timer'[handle'] # "off"
BY DEF TypeOK, EndTimer, TimerPlaces

\* startAutoResponderTimer puts a timer that runs in the map
\* (chat.service.ts:452-490).
LEMMA ArmType ==
    ASSUME TypeOK, NEW t \in Timers, Arm(t)
    PROVE  /\ timer' \in [Timers -> TimerPlaces]
           /\ handle' \in Timers \union {None}
           /\ handle' # None => timer'[handle'] # "off"
           /\ unwatched' = FALSE
<1>1. Cleared \in [Timers -> TimerPlaces]
  BY DEF TypeOK, Cleared, TimerPlaces
<1>2. timer' = [Cleared EXCEPT ![t] = "running"]
  BY DEF Arm
<1>3. timer' \in [Timers -> TimerPlaces] /\ timer'[t] = "running"
  BY <1>1, <1>2 DEF TimerPlaces
<1> QED
  BY <1>3 DEF Arm

\* The catch block of handleAutoResponderFlow (chat.service.ts:173-179).
LEMMA CaughtType ==
    ASSUME TypeOK, Caught
    PROVE  /\ bot' \in Bot
           /\ status' \in {"AUTO_RESPONDER", "ACTIVE", "CLOSED"}
           /\ named' \in BOOLEAN
           /\ unwatched' = TRUE
BY DEF TypeOK, Caught, Bot, BotIdle, BotPlaces, Replies, UserState,
       DefaultState, Steps, Questions

LEMMA DefaultStateType == DefaultState \in UserState
BY DEF DefaultState, UserState, Steps

LEMMA BotIdleType == BotIdle \in Bot
BY DEF Bot, BotIdle, BotPlaces, Replies, UserState, DefaultState, Steps,
       Questions

\* An answer carries a state to write (conversation-flow.service.ts:30-65).
LEMMA AnswerType ==
    ASSUME TypeOK, NEW next \in BotPlaces, NEW s \in UserState,
           NEW reply \in Replies, Answer(next, s, reply)
    PROVE  bot' \in Bot
BY DEF TypeOK, Answer, Bot

LEMMA BotGoesType ==
    ASSUME TypeOK, NEW place \in BotPlaces, BotGoes(place)
    PROVE  bot' \in Bot
BY DEF TypeOK, BotGoes, Bot

LEMMA ToStepType ==
    ASSUME TypeOK, NEW step \in Steps
    PROVE  ToStep(step) \in UserState
BY DEF TypeOK, ToStep, Bot, UserState

\* What a question becomes when it is sent or lost
\* (chat.service.ts:161-179, 557-572).
LEMMA QuestionIsType ==
    ASSUME TypeOK, NEW tag \in Questions, QuestionIs(tag)
    PROVE  question' \in Questions
BY DEF TypeOK, QuestionIs

LEMMA ResetType ==
    ASSUME Reset
    PROVE  conv' \in UserState /\ question' \in Questions
BY DefaultStateType DEF Reset, Questions

LEMMA TypeInit == Init => TypeOK
<1> SUFFICES ASSUME Init PROVE TypeOK
  OBVIOUS
<1>1. bot \in Bot
  BY BotIdleType DEF Init
<1>2. desk \in Desk
  BY DEF Init, DeskIdle, Desk, Questions
<1>3. timer \in [Timers -> TimerPlaces]
  BY DEF Init, TimerPlaces
<1>4. named \in BOOLEAN /\ consent \in BOOLEAN /\ unwatched \in BOOLEAN
  BY Zenon DEF Init
<1>5. /\ conv \in UserState \union {None}
      /\ status \in {"AUTO_RESPONDER", "ACTIVE", "CLOSED"}
      /\ handle \in Timers \union {None}
      /\ question \in Questions
  BY DEF Init, Questions
<1>6. handle # None => timer[handle] # "off"
  BY DEF Init
<1> QED
  BY <1>1, <1>2, <1>3, <1>4, <1>5, <1>6 DEF TypeOK

\* A message is taken and read (chat.service.ts:94-123).
LEMMA TypeReceive ==
    ASSUME TypeOK,
           (\E text \in Texts : Receive(text)) \/ Route \/ ReadState
              \/ RereadFails
    PROVE  TypeOK'
<1>1. CASE \E text \in Texts : Receive(text)
  BY <1>1, BotIdleType
  DEF TypeOK, Receive, convVars, timerVars, ghosts, Bot, BotPlaces
<1>2. CASE Route
  <2>1. CASE \E t \in Timers :
                /\ Arm(t)
                /\ bot' = [bot EXCEPT !.at = "read", !.named = named,
                                      !.armed = t]
    <3> PICK t \in Timers :
              /\ Arm(t)
              /\ bot' = [bot EXCEPT !.at = "read", !.named = named,
                                    !.armed = t]
      BY <2>1
    <3>1. bot' \in Bot
      BY DEF TypeOK, Bot, BotPlaces
    <3>2. status' \in {"AUTO_RESPONDER", "ACTIVE"}
      BY <1>2 DEF Route
    <3> QED
      BY <1>2, <3>1, <3>2, ArmType DEF TypeOK, Route, convVars
  <2>2. CASE /\ status' = "ACTIVE" /\ bot' = BotIdle /\ unwatched' = TRUE
             /\ UNCHANGED timerVars
    BY <1>2, <2>2, BotIdleType DEF TypeOK, Route, convVars, timerVars
  <2> QED
    BY <1>2, <2>1, <2>2 DEF Route
<1>3. CASE ReadState
  <2> PICK s \in UserState :
            /\ GetUserState(s)
            /\ bot' = [bot EXCEPT !.at = "think", !.state = s,
                         !.question = IF s.step = "SURVEY" THEN question
                                      ELSE "none"]
    BY <1>3 DEF ReadState
  <2>1. bot' \in Bot
    BY DEF TypeOK, Bot, BotPlaces, Questions
  <2> QED
    BY <1>3, <2>1, ReadIsState DEF TypeOK, ReadState, timerVars, ghosts
<1>4. CASE RereadFails
  BY <1>4, CaughtType DEF TypeOK, RereadFails, timerVars
<1> QED
  BY <1>1, <1>2, <1>3, <1>4
\* The conversation answers (conversation-flow.service.ts:30-316).
LEMMA TypeThink ==
    ASSUME TypeOK,
           ExitCommand \/ StartStep \/ NameStep \/ MainMenuStep
              \/ DisclaimerStep \/ CedulaStep \/ SurveyStep
    PROVE  TypeOK'
<1>0. /\ bot.state \in UserState
      /\ \A step \in Steps : ToStep(step) \in UserState
      /\ \A step \in Steps, b \in BOOLEAN :
            [step |-> step, termsAccepted |-> b] \in UserState
  BY ToStepType DEF TypeOK, Bot, UserState
<1>1. CASE ExitCommand
  <2>1. bot' \in Bot
    BY <1>0, <1>1, AnswerType DEF ExitCommand, BotPlaces, Replies, Steps
  <2> QED
    BY <1>1, <2>1 DEF ExitCommand, TypeOK, convVars, timerVars, ghosts
<1>2. CASE StartStep
  <2>1. bot' \in Bot
    BY <1>0, <1>2, AnswerType DEF StartStep, BotPlaces, Replies, Steps
  <2> QED
    BY <1>2, <2>1 DEF StartStep, TypeOK, convVars, timerVars, ghosts
<1>3. CASE NameStep
  <2>1. bot' \in Bot
    BY <1>0, <1>3, AnswerType DEF NameStep, BotPlaces, Replies, Steps
  <2>2. named' \in BOOLEAN
    BY <1>3 DEF NameStep, TypeOK
  <2> QED
    BY <1>3, <2>1, <2>2 DEF NameStep, TypeOK, timerVars, ghosts
<1>4. CASE MainMenuStep
  <2>1. bot' \in Bot
    BY <1>0, <1>4, AnswerType
    DEF MainMenuStep, Consult, BotPlaces, Replies, Steps
  <2> QED
    BY <1>4, <2>1 DEF MainMenuStep, TypeOK, convVars, timerVars, ghosts
<1>5. CASE DisclaimerStep
  <2>1. bot' \in Bot
    BY <1>0, <1>5, AnswerType DEF DisclaimerStep, BotPlaces, Replies, Steps
  <2>2. consent' \in BOOLEAN
    BY <1>5 DEF DisclaimerStep, TypeOK
  <2> QED
    BY <1>5, <2>1, <2>2 DEF DisclaimerStep, TypeOK, convVars, timerVars
<1>6. CASE CedulaStep
  <2>1. bot' \in Bot
    BY <1>0, <1>6, AnswerType DEF CedulaStep, BotPlaces, Replies, Steps
  <2> QED
    BY <1>6, <2>1 DEF CedulaStep, TypeOK, convVars, timerVars, ghosts
<1>7. CASE SurveyStep
  <2>1. bot' \in Bot
    BY <1>0, <1>7, AnswerType DEF SurveyStep, BotPlaces, Replies
  <2> QED
    BY <1>7, <2>1 DEF SurveyStep, TypeOK, convVars, timerVars, ghosts
<1> QED
  BY <1>1, <1>2, <1>3, <1>4, <1>5, <1>6, <1>7

\* What follows the answer (conversation-flow.service.ts:297-315,
\* chat.service.ts:161-179).
LEMMA TypeFollow ==
    ASSUME TypeOK,
           WriteState \/ RecordSurvey \/ FinalizeChat \/ ResetState \/ Reply
    PROVE  TypeOK'
<1> USE BotIdleType, CaughtType
<1>1. CASE WriteState
  <2>1. CASE /\ conv' = bot.state
             /\ BotGoes("reply")
             /\ consent' = (consent /\ bot.reply # "restart")
             /\ question' = IF bot.reply = "question" THEN "unasked"
                            ELSE "none"
             /\ UNCHANGED <<status, named, unwatched>>
    <3>1. bot' \in Bot /\ conv' \in UserState
      BY <2>1, BotGoesType DEF BotPlaces, TypeOK, Bot
    <3>2. consent' \in BOOLEAN
      BY <2>1 DEF TypeOK
    <3>3. question' \in Questions
      BY <2>1 DEF Questions
    <3> QED
      BY <1>1, <2>1, <3>1, <3>2, <3>3 DEF WriteState, TypeOK, timerVars
  <2>2. CASE Caught /\ UNCHANGED <<conv, consent, question>>
    BY <1>1, <2>2 DEF WriteState, TypeOK, timerVars
  <2> QED
    BY <1>1, <2>1, <2>2 DEF WriteState
<1>2. CASE RecordSurvey
  <2>1. bot' \in Bot
    BY <1>2, BotGoesType DEF RecordSurvey, BotPlaces
  <2>2. question' \in Questions
    BY <1>2 DEF RecordSurvey, TypeOK, Questions
  <2> QED
    BY <1>2, <2>1, <2>2 DEF RecordSurvey, TypeOK, convVars, timerVars
<1>3. CASE FinalizeChat
  <2>1. bot' \in Bot
    BY <1>3, BotGoesType DEF FinalizeChat, BotPlaces
  <2> QED
    BY <1>3, <2>1 DEF FinalizeChat, TypeOK, convVars, timerVars, ghosts
<1>4. CASE ResetState
  <2>1. CASE Reset /\ BotGoes("reply") /\ UNCHANGED <<status, named, unwatched>>
    <3>1. bot' \in Bot
      BY <2>1, BotGoesType DEF BotPlaces
    <3> QED
      BY <1>4, <2>1, <3>1, ResetType DEF ResetState, TypeOK, timerVars
  <2>2. CASE /\ Caught /\ UNCHANGED conv
             /\ question' = IF question = "rated" THEN "unreset" ELSE question
    <3>1. question' \in Questions
      BY <2>2 DEF TypeOK, Questions
    <3> QED
      BY <1>4, <2>2, <3>1 DEF ResetState, TypeOK, timerVars
  <2> QED
    BY <1>4, <2>1, <2>2 DEF ResetState
<1>5. CASE Reply
  <2>1. /\ bot' \in Bot
        /\ status' \in {"AUTO_RESPONDER", "ACTIVE", "CLOSED"}
        /\ named' \in BOOLEAN /\ unwatched' \in BOOLEAN
    <3>1. CASE Caught
      BY <3>1
    <3>2. CASE bot' = BotIdle /\ UNCHANGED <<status, named, unwatched>>
      BY <3>2 DEF TypeOK
    <3>3. CASE /\ bot' = BotIdle /\ status' = "ACTIVE"
               /\ named' = bot.named /\ unwatched' = TRUE
      BY <3>3 DEF TypeOK, Bot
    <3> QED
      BY <1>5, <3>1, <3>2, <3>3 DEF Reply
  <2>2. question' \in Questions
    BY <1>5, QuestionIsType DEF Reply, TypeOK, Questions
  <2> QED
    BY <1>5, <2>1, <2>2 DEF Reply, TypeOK, timerVars
<1> QED
  BY <1>1, <1>2, <1>3, <1>4, <1>5

\* The inactivity timer (chat.service.ts:462-487).
LEMMA TypeTimer ==
    ASSUME TypeOK, NEW t \in Timers, Fire(t) \/ TimerStep(t)
    PROVE  TypeOK'
<1> USE AdvanceType, EndTimerType DEF TimerPlaces
<1>1. CASE Fire(t)
  BY <1>1 DEF Fire, TypeOK, convVars, ghosts
<1>2. CASE CheckChat(t)
  BY <1>2 DEF CheckChat, TypeOK, convVars, ghosts
<1>3. CASE CheckState(t)
  <2> PICK s \in UserState :
            /\ GetUserState(s)
            /\ \/ s.step = "START" /\ EndTimer(t)
               \/ s.step # "START" /\ Advance(t, "reading", "warning")
            /\ unwatched' = (unwatched \/ s # Stored)
    BY <1>3 DEF CheckState
  <2>1. conv' \in UserState \union {None}
    BY ReadIsState
  <2>2. unwatched' \in BOOLEAN
    BY DEF TypeOK
  <2>3. /\ timer' \in [Timers -> TimerPlaces]
        /\ handle' \in Timers \union {None}
        /\ handle' # None => timer'[handle'] # "off"
    OBVIOUS
  <2> QED
    BY <1>3, <2>1, <2>2, <2>3 DEF CheckState, TypeOK
<1>4. CASE Warn(t)
  <2>1. unwatched' \in BOOLEAN
    BY <1>4 DEF Warn, TypeOK
  <2> QED
    BY <1>4, <2>1 DEF Warn, TypeOK, convVars
<1>5. CASE Expire(t)
  <2>1. unwatched' \in BOOLEAN
    BY <1>5 DEF Expire, TypeOK
  <2>2. conv' \in UserState \union {None} /\ question' \in Questions
    BY <1>5, ResetType DEF Expire, TypeOK
  <2> QED
    BY <1>5, <2>1, <2>2 DEF Expire, TypeOK
<1> QED
  BY <1>1, <1>2, <1>3, <1>4, <1>5 DEF TimerStep

\* The agents (chat.service.ts:299-338, 364-396).
LEMMA TypeDesk ==
    ASSUME TypeOK, DeskStep \/ Requests
    PROVE  TypeOK'
<1>1. CASE Take
  BY <1>1 DEF Take, TypeOK, convVars, timerVars
<1>2. CASE Release \/ Unassign
  <2>1. desk' \in Desk
    BY <1>2 DEF Release, Unassign, DeskGoes, TypeOK, Desk
  <2>2. unwatched' \in BOOLEAN
    BY <1>2 DEF Release, Unassign, TypeOK
  <2> QED
    BY <1>2, <2>1, <2>2 DEF Release, Unassign, TypeOK, convVars, timerVars
<1>3. CASE ReleaseQuietly
  BY <1>3 DEF ReleaseQuietly, TypeOK, convVars, timerVars, ghosts
<1>4. CASE AskSurvey
  <2>1. desk' \in Desk
    <3>1. CASE desk' = DeskIdle
      BY <3>1 DEF DeskIdle, Desk, Questions
    <3>2. CASE desk' = [desk EXCEPT !.at = "read", !.question = "asked"]
      BY <3>2 DEF TypeOK, Desk, Questions
    <3> QED
      BY <1>4, <3>1, <3>2 DEF AskSurvey
  <2> QED
    BY <1>4, <2>1 DEF AskSurvey, TypeOK, convVars, timerVars, ghosts
<1>5. CASE ReadForSurvey
  <2>1. desk' \in Desk /\ conv' \in UserState \union {None}
    BY <1>5, ReadIsState DEF ReadForSurvey, TypeOK, Desk, UserState
  <2> QED
    BY <1>5, <2>1 DEF ReadForSurvey, TypeOK, timerVars, ghosts
<1>6. CASE MarkSurvey
  <2>1. desk' \in Desk
    BY <1>6 DEF MarkSurvey, DeskIdle, Desk, Questions
  <2>2. conv' \in UserState \union {None}
    <3>1. [step |-> "SURVEY", termsAccepted |-> desk.termsAccepted]
             \in UserState
      BY DEF TypeOK, Desk, UserState, Steps
    <3> QED
      BY <1>6, <3>1 DEF MarkSurvey, TypeOK
  <2>3. question' \in Questions
    BY <1>6 DEF MarkSurvey, TypeOK, Desk
  <2> QED
    BY <1>6, <2>1, <2>2, <2>3 DEF MarkSurvey, TypeOK, timerVars
<1>7. CASE Forget
  <2>1. desk' \in Desk
    BY <1>7 DEF Forget, DeskIdle, Desk, Questions
  <2>2. conv' \in UserState \union {None} /\ question' \in Questions
    BY <1>7, ResetType DEF Forget, TypeOK
  <2> QED
    BY <1>7, <2>1, <2>2 DEF Forget, TypeOK, timerVars
<1> QED
  BY <1>1, <1>2, <1>3, <1>4, <1>5, <1>6, <1>7 DEF DeskStep, Requests

\* Redis forgets, the process restarts.
LEMMA TypeEnvironment ==
    ASSUME TypeOK, StateExpires \/ Crash
    PROVE  TypeOK'
<1>1. CASE StateExpires
  BY <1>1 DEF StateExpires, TypeOK, timerVars, Questions
<1>2. CASE Crash
  <2>1. desk' \in Desk /\ bot' \in Bot /\ timer' \in [Timers -> TimerPlaces]
    BY <1>2, BotIdleType DEF Crash, DeskIdle, Desk, TimerPlaces, Questions
  <2>2. question' \in Questions
    BY <1>2 DEF Crash, TypeOK, Questions
  <2> QED
    BY <1>2, <2>1, <2>2 DEF Crash, TypeOK, convVars
<1> QED
  BY <1>1, <1>2

LEMMA TypeNext == TypeOK /\ [Next]_vars => TypeOK'
<1> SUFFICES ASSUME TypeOK, [Next]_vars PROVE TypeOK'
  OBVIOUS
<1>1. CASE UNCHANGED vars
  BY <1>1 DEF TypeOK, vars
<1>2. CASE Next
  BY <1>2, TypeReceive, TypeThink, TypeFollow, TypeTimer, TypeDesk,
     TypeEnvironment DEF Next, BotStep
<1> QED
  BY <1>1, <1>2

\* The variables of the conversation keep their types, and the map of
\* inactivity timers (chat.service.ts:452-490) holds no timer that is over.
THEOREM TypeCorrect == Spec => []TypeOK
  BY TypeInit, TypeNext, PTL DEF Spec

-----------------------------------------------------------------------------
(***************************************************************************)
(* Consent.  Every copy of the state, in Redis or in the message handler,  *)
(* is honest: who is asked for a cedula accepted the terms, and terms that *)
(* count as accepted were, unless the conversation is in the survey, from  *)
(* where no command leads to a debt without a reset.  An agent's release   *)
(* may write back an acceptance taken back meanwhile, but only with the    *)
(* survey step.                                                            *)
(***************************************************************************)
Honest(s) == /\ s.step = "PEDIR_CEDULA" => s.termsAccepted
             /\ s.termsAccepted => consent \/ s.step = "SURVEY"

Unanswered == {"idle", "route", "read", "think"}

IInv == /\ TypeOK
        /\ conv # None => Honest(conv)
        /\ Honest(bot.state)
        /\ bot.reply = "restart" => ~bot.state.termsAccepted
        /\ bot.at \in Unanswered => bot.reply = "none"
        /\ DebtsNeedConsent

LEMMA DefaultIsHonest == Honest(DefaultState)
BY DEF Honest, DefaultState

LEMMA IInvInit == Init => IInv
<1> SUFFICES ASSUME Init PROVE IInv
  OBVIOUS
<1>1. TypeOK
  BY TypeInit
<1>2. bot.state = DefaultState /\ bot.reply = "none" /\ conv = None
  BY DEF Init, BotIdle
<1> QED
  BY <1>1, <1>2, DefaultIsHonest DEF IInv, DebtsNeedConsent

\* What getUserState returns and leaves is honest
\* (redis-state-store.ts:49-71).
LEMMA ReadIsHonest ==
    ASSUME IInv, NEW s \in UserState, GetUserState(s)
    PROVE  Honest(s) /\ (conv' # None => conv' = conv \/ conv' = DefaultState)
<1>1. Stored = conv \/ Stored = DefaultState
  BY DEF Stored
<1>2. Honest(Stored)
  BY DefaultIsHonest DEF Stored, IInv
<1> QED
  BY <1>1, <1>2, DefaultIsHonest DEF GetUserState

\* A step that leaves the consent alone, writes nothing that is not honest,
\* and leaves the message handler alone or at rest.
LEMMA Onward ==
    ASSUME IInv, TypeOK', consent' = consent,
           conv' # None => \/ conv' = conv \/ conv' = DefaultState
                           \/ conv'.step = "SURVEY",
           \/ bot' = bot \/ bot' = BotIdle
           \/ /\ bot'.state = bot.state /\ bot'.reply = bot.reply
              /\ bot'.at \in Unanswered => bot.at \in Unanswered
    PROVE  IInv'
<1>1. (conv # None => Honest(conv))'
  <2>1. CASE conv' = conv
    BY <2>1 DEF IInv, Honest
  <2>2. CASE conv' = DefaultState
    BY <2>2 DEF DefaultState, Honest
  <2>3. CASE conv'.step = "SURVEY"
    BY <2>3 DEF Honest
  <2> QED
    BY <2>1, <2>2, <2>3
<1>2. /\ Honest(bot.state)'
      /\ (bot.reply = "restart" => ~bot.state.termsAccepted)'
      /\ (bot.at \in Unanswered => bot.reply = "none")'
      /\ DebtsNeedConsent'
  <2>1. CASE /\ bot'.state = bot.state /\ bot'.reply = bot.reply
             /\ bot'.at \in Unanswered => bot.at \in Unanswered
    BY <2>1 DEF IInv, Honest, DebtsNeedConsent
  <2>2. CASE bot' = BotIdle
    BY <2>2 DEF BotIdle, DefaultState, Honest, DebtsNeedConsent
  <2> QED
    BY <2>1, <2>2
<1> QED
  BY <1>1, <1>2 DEF IInv

\* A message is taken and the state read (chat.service.ts:94-123).
LEMMA ConsentReceive ==
    ASSUME IInv, TypeOK',
           (\E text \in Texts : Receive(text)) \/ Route \/ ReadState
              \/ RereadFails
    PROVE  IInv'
<1>1. CASE \E text \in Texts : Receive(text)
  <2>1. bot'.state = DefaultState /\ bot'.reply = "none"
    BY <1>1 DEF Receive, BotIdle
  <2>2. conv' = conv /\ consent' = consent
    BY <1>1 DEF Receive, convVars, ghosts
  <2> QED
    BY <2>1, <2>2 DEF IInv, Honest, DefaultState, DebtsNeedConsent
<1>2. CASE Route
  <2>1. \/ bot' = BotIdle
        \/ /\ bot'.state = bot.state /\ bot'.reply = bot.reply
           /\ bot.at \in Unanswered
    <3>1. CASE bot' = BotIdle
      BY <3>1
    <3>2. CASE \E t \in Timers :
                  bot' = [bot EXCEPT !.at = "read", !.named = named,
                                     !.armed = t]
      BY <1>2, <3>2 DEF Route, IInv, TypeOK, Bot, Unanswered
    <3> QED
      BY <1>2, <3>1, <3>2 DEF Route
  <2>2. conv' = conv /\ consent' = consent
    BY <1>2 DEF Route, convVars
  <2> QED
    BY <2>1, <2>2, Onward
<1>3. CASE ReadState
  <2> PICK s \in UserState :
            /\ GetUserState(s)
            /\ bot' = [bot EXCEPT !.at = "think", !.state = s,
                         !.question = IF s.step = "SURVEY" THEN question
                                      ELSE "none"]
    BY <1>3 DEF ReadState
  <2>1. bot'.state = s /\ bot'.reply = "none"
    BY <1>3 DEF ReadState, IInv, TypeOK, Bot, Unanswered
  <2>2. consent' = consent
    BY <1>3 DEF ReadState, ghosts
  <2>3. Honest(s) /\ (conv' # None => conv' = conv \/ conv' = DefaultState)
    BY ReadIsHonest
  <2>4. (conv # None => Honest(conv))'
    BY <2>2, <2>3, DefaultIsHonest DEF IInv, Honest
  <2>5. Honest(bot.state)'
    BY <2>1, <2>2, <2>3 DEF Honest
  <2> QED
    BY <2>1, <2>4, <2>5 DEF IInv, DebtsNeedConsent
<1>4. CASE RereadFails
  BY <1>4, Onward DEF RereadFails, Caught
<1> QED
  BY <1>1, <1>2, <1>3, <1>4

\* An answer with an honest state (conversation-flow.service.ts:30-65).
LEMMA AnswerIsHonest ==
    ASSUME IInv, TypeOK', conv' = conv, consent => consent',
           NEW next \in BotPlaces \ Unanswered, NEW s \in UserState,
           NEW reply \in Replies, Answer(next, s, reply),
           s.step = "PEDIR_CEDULA" => s.termsAccepted,
           s.termsAccepted => consent' \/ s.step = "SURVEY",
           reply = "restart" => ~s.termsAccepted,
           reply = "debt" => consent'
    PROVE  IInv'
<1>1. bot'.at = next /\ bot'.state = s /\ bot'.reply = reply
  BY DEF Answer, IInv, TypeOK, Bot
<1>2. (conv # None => Honest(conv))'
  BY DEF IInv, Honest
<1>3. Honest(bot.state)'
  BY <1>1 DEF Honest
<1> QED
  BY <1>1, <1>2, <1>3 DEF IInv, DebtsNeedConsent

\* The conversation (conversation-flow.service.ts:30-316).
LEMMA ConsentThink ==
    ASSUME IInv, TypeOK',
           ExitCommand \/ StartStep \/ NameStep \/ MainMenuStep
              \/ DisclaimerStep \/ CedulaStep \/ SurveyStep
    PROVE  IInv'
<1>0. /\ bot.state \in UserState
      /\ bot.state.step = "PEDIR_CEDULA" => bot.state.termsAccepted
      /\ bot.state.termsAccepted => consent \/ bot.state.step = "SURVEY"
      /\ TypeOK
  BY DEF IInv, Honest, TypeOK, Bot
<1>1. \A step \in Steps : /\ ToStep(step) \in UserState
                          /\ ToStep(step).step = step
                          /\ ToStep(step).termsAccepted
                                = bot.state.termsAccepted
  BY <1>0 DEF ToStep, UserState
<1>2. \A step \in Steps, b \in BOOLEAN :
         [step |-> step, termsAccepted |-> b] \in UserState
  BY DEF UserState
<1> USE DEF Unanswered, BotPlaces, Replies, Steps
<1>3. CASE ExitCommand
  BY <1>0, <1>1, <1>2, <1>3, AnswerIsHonest
  DEF ExitCommand, convVars, ghosts
<1>4. CASE StartStep
  BY <1>0, <1>1, <1>4, AnswerIsHonest
  DEF StartStep, Thinking, convVars, ghosts
<1>5. CASE NameStep
  BY <1>0, <1>1, <1>5, AnswerIsHonest DEF NameStep, Thinking, ghosts
<1>6. CASE MainMenuStep
  BY <1>0, <1>1, <1>6, AnswerIsHonest
  DEF MainMenuStep, Consult, Thinking, convVars, ghosts
<1>7. CASE DisclaimerStep
  <2>1. CASE /\ Answer("write", [step |-> "PEDIR_CEDULA",
                               termsAccepted |-> TRUE], "text")
             /\ consent' = TRUE
    BY <1>2, <1>7, <2>1, AnswerIsHonest DEF DisclaimerStep, convVars
  <2>2. CASE /\ \/ Answer("write", ToStep("MAIN_MENU"), "text")
                \/ Answer("write", bot.state, "text")
             /\ UNCHANGED consent
    BY <1>0, <1>1, <1>7, <2>2, AnswerIsHonest
    DEF DisclaimerStep, Thinking, convVars
  <2> QED
    BY <1>7, <2>1, <2>2 DEF DisclaimerStep
<1>8. CASE CedulaStep
  BY <1>0, <1>1, <1>8, AnswerIsHonest
  DEF CedulaStep, Thinking, convVars, ghosts
<1>9. CASE SurveyStep
  BY <1>0, <1>9, AnswerIsHonest DEF SurveyStep, Thinking, convVars, ghosts
<1> QED
  BY <1>3, <1>4, <1>5, <1>6, <1>7, <1>8, <1>9

\* The state is written; a survey is recorded and the conversation reset
\* (conversation-flow.service.ts:41-63, 297-315, chat.service.ts:161-179).
LEMMA ConsentFollow ==
    ASSUME IInv, TypeOK',
           WriteState \/ RecordSurvey \/ FinalizeChat \/ ResetState \/ Reply
    PROVE  IInv'
<1>0. \A place \in BotPlaces \ Unanswered :
         BotGoes(place) => /\ bot'.state = bot.state
                           /\ bot'.reply = bot.reply
                           /\ bot'.at \notin Unanswered
  BY DEF BotGoes, IInv, TypeOK, Bot
<1> USE DEF BotPlaces, Unanswered
<1>1. CASE WriteState
  <2>1. CASE /\ conv' = bot.state
             /\ BotGoes("reply")
             /\ consent' = (consent /\ bot.reply # "restart")
    <3>1. /\ bot'.state = bot.state /\ bot'.reply = bot.reply
          /\ bot'.at \notin Unanswered
      BY <1>0, <2>1
    <3>2. (Honest(bot.state))'
      BY <2>1, <3>1 DEF IInv, Honest
    <3>3. (conv # None => Honest(conv))'
      BY <2>1, <3>1, <3>2 DEF Honest
    <3>4. DebtsNeedConsent'
      BY <2>1, <3>1 DEF IInv, DebtsNeedConsent
    <3> QED
      BY <3>1, <3>2, <3>3, <3>4 DEF IInv
  <2>2. CASE Caught /\ UNCHANGED <<conv, consent, question>>
    BY <2>2, Onward DEF Caught
  <2> QED
    BY <1>1, <2>1, <2>2 DEF WriteState
<1>2. CASE RecordSurvey
  BY <1>0, <1>2, Onward DEF RecordSurvey, convVars
<1>3. CASE FinalizeChat
  BY <1>0, <1>3, Onward DEF FinalizeChat, convVars, ghosts
<1>4. CASE ResetState
  BY <1>0, <1>4, Onward DEF ResetState, Reset, Caught
<1>5. CASE Reply
  BY <1>5, Onward DEF Reply, Caught
<1> QED
  BY <1>1, <1>2, <1>3, <1>4, <1>5

\* Timers, agents, Redis and restarts leave the consent alone, and write the
\* default state or a survey (chat.service.ts:299-338, 364-396, 452-490).
LEMMA ConsentElsewhere ==
    ASSUME IInv, TypeOK',
           \/ \E t \in Timers : Fire(t) \/ TimerStep(t)
           \/ DeskStep \/ Requests \/ StateExpires \/ Crash
    PROVE  IInv'
<1>1. CASE \E t \in Timers : Fire(t) \/ TimerStep(t)
  <2> PICK t \in Timers : Fire(t) \/ TimerStep(t)
    BY <1>1
  <2>1. bot' = bot /\ consent' = consent
    BY DEF Fire, TimerStep, CheckChat, CheckState, Warn, Expire, ghosts
  <2>2. CASE CheckState(t)
    BY <2>1, <2>2, ReadIsHonest, Onward DEF CheckState
  <2>3. CASE ~CheckState(t)
    <3>1. conv' = conv \/ conv' = DefaultState
      BY <2>3
      DEF Fire, TimerStep, CheckChat, Warn, Expire, Reset, convVars
    <3> QED
      BY <2>1, <3>1, Onward
  <2> QED
    BY <2>2, <2>3
<1>2. CASE DeskStep
  <2>1. bot' = bot /\ consent' = consent
    BY <1>2 DEF DeskStep, AskSurvey, ReadForSurvey, MarkSurvey, Forget, ghosts
  <2>2. CASE ReadForSurvey
    BY <2>1, <2>2, ReadIsHonest, Onward DEF ReadForSurvey
  <2>3. CASE AskSurvey \/ MarkSurvey \/ Forget
    <3>1. conv' = conv \/ conv' = DefaultState \/ conv'.step = "SURVEY"
      BY <2>3 DEF AskSurvey, MarkSurvey, Forget, Reset, convVars
    <3> QED
      BY <2>1, <3>1, Onward
  <2> QED
    BY <1>2, <2>2, <2>3 DEF DeskStep
<1>3. CASE Requests
  BY <1>3, Onward
  DEF Requests, Take, Release, ReleaseQuietly, Unassign, convVars, ghosts
<1>4. CASE StateExpires
  BY <1>4, Onward DEF StateExpires, ghosts
<1>5. CASE Crash
  BY <1>5, Onward DEF Crash, convVars
<1> QED
  BY <1>1, <1>2, <1>3, <1>4, <1>5

LEMMA IInvNext == IInv /\ [Next]_vars => IInv'
<1> SUFFICES ASSUME IInv, [Next]_vars PROVE IInv'
  OBVIOUS
<1>1. TypeOK'
  BY TypeNext DEF IInv
<1>2. CASE UNCHANGED vars
  BY <1>1, <1>2, Onward DEF vars
<1>3. CASE Next
  BY <1>1, <1>3, ConsentReceive, ConsentThink, ConsentFollow,
     ConsentElsewhere DEF Next, BotStep
<1> QED
  BY <1>2, <1>3

\* No debt is shown to a customer who did not accept the terms, whatever
\* copies of older states are written back meanwhile
\* (conversation-flow.service.ts:162-235).
THEOREM ConsentBeforeDebts == Spec => []DebtsNeedConsent
<1>1. IInv => DebtsNeedConsent
  BY DEF IInv
<1> QED
  BY <1>1, IInvInit, IInvNext, PTL DEF Spec

-----------------------------------------------------------------------------
(***************************************************************************)
(* Surveys.  Whenever Redis says that the conversation is in its survey,   *)
(* something became of the question behind it, and a message finds it sent *)
(* or lost but neither rated nor still to be sent: the handler that begins *)
(* or rates the survey has the conversation to itself until it has sent    *)
(* the question or reset the state.  A release asks before it marks.       *)
(***************************************************************************)
Answerable == {"asked", "unsent", "unreset"}

QuestionFits ==
    /\ Stored.step = "SURVEY" => question # "none"
    /\ question = "unasked" => bot.at = "reply" /\ bot.reply = "question"
    /\ question = "rated" => bot.at \in {"close", "reset"}

BotFits ==
    /\ bot.at = "think" /\ bot.state.step = "SURVEY"
          => bot.question \in Answerable
    /\ bot.at = "record" => bot.question \in Answerable
    /\ bot.at = "write" /\ bot.state.step = "SURVEY" => bot.reply = "question"

DeskFits == desk.at \in {"read", "mark"} => desk.question = "asked"

QuestionsInv == TypeOK /\ QuestionFits /\ BotFits /\ DeskFits

LEMMA ReadKeepsStored ==
    ASSUME NEW s, GetUserState(s)
    PROVE  Stored' = Stored /\ s \in {Stored, DefaultState}
BY DEF GetUserState, Stored

\* A step of the timers, the agents or Redis: it leaves the message handler
\* alone, or ends it where it holds no question.
LEMMA QuestionsAround ==
    ASSUME QuestionsInv, TypeOK',
           \/ Stored' \in {Stored, DefaultState} /\ question' = question
           \/ Stored' = DefaultState /\ question' = "none"
           \/ question' = "asked",
           \/ bot' = bot
           \/ bot' = BotIdle /\ bot.at \notin {"reply", "close", "reset"},
           \/ desk' = desk
           \/ desk'.at \notin {"read", "mark"}
           \/ desk'.question = "asked"
    PROVE  QuestionsInv'
<1>1. DefaultState.step = "START" /\ BotIdle.at = "idle"
  BY DEF DefaultState, BotIdle
<1>2. QuestionFits'
  BY <1>1 DEF QuestionsInv, QuestionFits
<1>3. BotFits'
  BY <1>1 DEF QuestionsInv, BotFits
<1>4. DeskFits'
  BY DEF QuestionsInv, DeskFits
<1> QED
  BY <1>2, <1>3, <1>4 DEF QuestionsInv

\* A step of the message handler on its way to an answer.
LEMMA QuestionsOnward ==
    ASSUME QuestionsInv, TypeOK', desk' = desk, Stored' = Stored,
           question' = question,
           bot.at \notin {"reply", "close", "reset"}, BotFits'
    PROVE  QuestionsInv'
<1>1. QuestionFits'
  BY DEF QuestionsInv, QuestionFits
<1> QED
  BY <1>1 DEF QuestionsInv, DeskFits

\* A message is taken and the state read (chat.service.ts:94-123).
LEMMA QuestionsReceive ==
    ASSUME QuestionsInv, TypeOK',
           (\E text \in Texts : Receive(text)) \/ Route \/ ReadState
              \/ RereadFails
    PROVE  QuestionsInv'
<1>0. bot \in Bot
  BY DEF QuestionsInv, TypeOK
<1>1. CASE \E text \in Texts : Receive(text)
  <2>1. bot'.at = "route" /\ bot.at = "idle"
    BY <1>1 DEF Receive, BotIdle
  <2>2. UNCHANGED <<conv, desk, question>>
    BY <1>1 DEF Receive, convVars, ghosts
  <2> QED
    BY <2>1, <2>2, QuestionsOnward DEF BotFits, Stored
<1>2. CASE Route
  <2>1. bot.at = "route" /\ bot'.at \in {"read", "idle"}
        /\ UNCHANGED <<conv, desk, question>>
    <3>1. CASE \E t \in Timers :
                  bot' = [bot EXCEPT !.at = "read", !.named = named,
                                     !.armed = t]
      BY <1>0, <1>2, <3>1 DEF Route, convVars, Bot
    <3>2. CASE bot' = BotIdle
      BY <1>2, <3>2 DEF Route, convVars, BotIdle
    <3> QED
      BY <1>2, <3>1, <3>2 DEF Route
  <2> QED
    BY <2>1, QuestionsOnward DEF BotFits, Stored
<1>3. CASE ReadState
  <2> PICK s \in UserState :
            /\ GetUserState(s)
            /\ bot' = [bot EXCEPT !.at = "think", !.state = s,
                         !.question = IF s.step = "SURVEY" THEN question
                                      ELSE "none"]
    BY <1>3 DEF ReadState
  <2>1. /\ bot.at = "read" /\ bot'.at = "think" /\ bot'.state = s
        /\ s.step = "SURVEY" => bot'.question = question
        /\ UNCHANGED <<desk, question>>
    BY <1>0, <1>3 DEF ReadState, Bot, ghosts
  <2>2. Stored' = Stored /\ s \in {Stored, DefaultState}
    BY ReadKeepsStored
  <2>3. s.step = "SURVEY" => question \in Answerable
    BY <2>1, <2>2
    DEF QuestionsInv, QuestionFits, TypeOK, Questions, Answerable, DefaultState
  <2> QED
    BY <2>1, <2>2, <2>3, QuestionsOnward DEF BotFits
<1>4. CASE RereadFails
  <2>1. /\ bot.at = "think" /\ bot' = BotIdle
        /\ UNCHANGED <<conv, desk, question>>
    BY <1>4 DEF RereadFails, Caught
  <2> QED
    BY <2>1, QuestionsAround DEF Stored
<1> QED
  BY <1>1, <1>2, <1>3, <1>4

\* An answer leads to the survey only with its question, and to a rating only
\* from the survey (conversation-flow.service.ts:30-65).
LEMMA AnswerQuestions ==
    ASSUME QuestionsInv, TypeOK', UNCHANGED <<conv, desk, question>>,
           bot.at = "think",
           NEW next \in {"write", "reply", "record", "reset"}, NEW s,
           NEW reply, Answer(next, s, reply),
           next = "record" => bot.state.step = "SURVEY",
           next = "write" /\ s.step = "SURVEY" => reply = "question"
    PROVE  QuestionsInv'
<1>1. /\ bot'.at = next /\ bot'.state = s /\ bot'.reply = reply
      /\ bot'.question = bot.question
  BY DEF Answer, QuestionsInv, TypeOK, Bot
<1>2. BotFits'
  BY <1>1 DEF QuestionsInv, BotFits
<1> QED
  BY <1>2, QuestionsOnward DEF Stored

\* The conversation (conversation-flow.service.ts:30-316).
LEMMA QuestionsThink ==
    ASSUME QuestionsInv, TypeOK',
           ExitCommand \/ StartStep \/ NameStep \/ MainMenuStep
              \/ DisclaimerStep \/ CedulaStep \/ SurveyStep
    PROVE  QuestionsInv'
<1>1. \A step \in Steps : ToStep(step).step = step
  BY DEF ToStep, QuestionsInv, TypeOK, Bot, UserState
<1> USE DEF Thinking, Steps
<1>2. CASE ExitCommand
  BY <1>1, <1>2, AnswerQuestions DEF ExitCommand, convVars, ghosts
<1>3. CASE StartStep
  BY <1>1, <1>3, AnswerQuestions DEF StartStep, convVars, ghosts
<1>4. CASE NameStep
  BY <1>1, <1>4, AnswerQuestions DEF NameStep, ghosts
<1>5. CASE MainMenuStep
  BY <1>1, <1>5, AnswerQuestions DEF MainMenuStep, Consult, convVars, ghosts
<1>6. CASE DisclaimerStep
  BY <1>1, <1>6, AnswerQuestions DEF DisclaimerStep, convVars
<1>7. CASE CedulaStep
  BY <1>1, <1>7, AnswerQuestions DEF CedulaStep, convVars, ghosts
<1>8. CASE SurveyStep
  BY <1>8, AnswerQuestions DEF SurveyStep, convVars, ghosts
<1> QED
  BY <1>2, <1>3, <1>4, <1>5, <1>6, <1>7, <1>8

\* The state is written; a rating is stored and the conversation reset
\* (conversation-flow.service.ts:297-315, chat.service.ts:161-179).
LEMMA QuestionsFollow ==
    ASSUME QuestionsInv, TypeOK',
           WriteState \/ RecordSurvey \/ FinalizeChat \/ ResetState \/ Reply
    PROVE  QuestionsInv'
<1>0. /\ bot \in Bot /\ conv \in UserState \union {None}
      /\ question \in Questions /\ DeskFits
  BY DEF QuestionsInv, TypeOK
<1>1. \A place \in BotPlaces :
         BotGoes(place) => bot'.at = place /\ bot'.reply = bot.reply
  BY <1>0 DEF BotGoes, Bot
<1>2. desk' = desk => DeskFits'
  BY <1>0 DEF DeskFits
<1>3. bot'.at \notin {"think", "record", "write"} => BotFits'
  BY DEF BotFits
<1>4. BotIdle.at = "idle"
  BY DEF BotIdle
<1> USE DEF BotPlaces
<1>5. CASE WriteState
  <2>1. CASE Caught /\ UNCHANGED <<conv, question>>
    <3>1. /\ bot.at = "write" /\ bot' = BotIdle
          /\ UNCHANGED <<conv, desk, question>>
      BY <1>5, <2>1 DEF WriteState, Caught
    <3> QED
      BY <3>1, QuestionsAround DEF Stored
  <2>2. CASE /\ conv' = bot.state /\ BotGoes("reply")
             /\ question' = IF bot.reply = "question" THEN "unasked"
                            ELSE "none"
    <3>1. /\ bot.at = "write" /\ bot'.at = "reply" /\ bot'.reply = bot.reply
          /\ desk' = desk
      BY <1>1, <1>5, <2>2 DEF WriteState
    <3>2. Stored' = bot.state
      BY <1>0, <2>2, StateAssumption DEF Stored, Bot
    <3>3. QuestionFits'
      BY <2>2, <3>1, <3>2 DEF QuestionsInv, BotFits, QuestionFits
    <3> QED
      BY <1>2, <1>3, <3>1, <3>3 DEF QuestionsInv
  <2> QED
    BY <1>5, <2>1, <2>2 DEF WriteState
<1>6. CASE RecordSurvey
  <2>1. /\ bot.at = "record" /\ bot'.at \in {"close", "reset"}
        /\ question' \in {question, "rated"} /\ UNCHANGED <<conv, desk>>
    BY <1>1, <1>6 DEF RecordSurvey, convVars
  <2>2. QuestionFits'
    BY <2>1 DEF QuestionsInv, QuestionFits, Stored
  <2> QED
    BY <1>2, <1>3, <2>1, <2>2 DEF QuestionsInv
<1>7. CASE FinalizeChat
  <2>1. bot.at = "close" /\ bot'.at = "reset" /\ UNCHANGED <<conv, desk, question>>
    BY <1>1, <1>7 DEF FinalizeChat, convVars, ghosts
  <2>2. QuestionFits'
    BY <2>1 DEF QuestionsInv, QuestionFits, Stored
  <2> QED
    BY <1>2, <1>3, <2>1, <2>2 DEF QuestionsInv
<1>8. CASE ResetState
  <2>1. bot.at = "reset" /\ desk' = desk
    BY <1>8 DEF ResetState
  <2>2. CASE Reset /\ BotGoes("reply")
    <3>1. bot'.at = "reply" /\ Stored'.step = "START" /\ question' = "none"
      BY <1>1, <2>2 DEF Reset, Stored, DefaultState
    <3>2. QuestionFits'
      BY <3>1 DEF QuestionFits
    <3> QED
      BY <1>2, <1>3, <2>1, <3>1, <3>2 DEF QuestionsInv
  <2>3. CASE /\ Caught /\ UNCHANGED conv
             /\ question' = IF question = "rated" THEN "unreset" ELSE question
    <3>1. bot' = BotIdle
      BY <2>3 DEF Caught
    <3>2. QuestionFits'
      BY <1>4, <2>1, <2>3, <3>1 DEF QuestionsInv, QuestionFits, Stored
    <3> QED
      BY <1>2, <1>3, <1>4, <2>1, <3>1, <3>2 DEF QuestionsInv
  <2> QED
    BY <1>8, <2>2, <2>3 DEF ResetState
<1>9. CASE Reply
  <2>1. bot.at = "reply" /\ bot' = BotIdle /\ UNCHANGED <<conv, desk>>
    BY <1>9 DEF Reply, Caught
  <2>2. \/ bot.reply # "question" /\ question' = question
        \/ question' = IF question = "unasked" THEN "asked" ELSE question
        \/ question' = IF question = "unasked" THEN "unsent" ELSE question
    BY <1>9 DEF Reply, QuestionIs
  <2>3. QuestionFits'
    BY <1>4, <2>1, <2>2 DEF QuestionsInv, QuestionFits, Stored
  <2> QED
    BY <1>2, <1>3, <1>4, <2>1, <2>3 DEF QuestionsInv
<1> QED
  BY <1>5, <1>6, <1>7, <1>8, <1>9

\* Timers, agents, Redis and restarts (chat.service.ts:299-338, 364-396,
\* 452-490).
LEMMA QuestionsElsewhere ==
    ASSUME QuestionsInv, TypeOK',
           \/ \E t \in Timers : Fire(t) \/ TimerStep(t)
           \/ DeskStep \/ Requests \/ StateExpires \/ Crash
    PROVE  QuestionsInv'
<1>0. desk \in Desk /\ DeskFits
  BY DEF QuestionsInv, TypeOK
<1>1. Reset => Stored' = DefaultState /\ question' = "none"
  BY DEF Reset, Stored
<1>2. CASE \E t \in Timers : Fire(t) \/ TimerStep(t)
  <2> PICK t \in Timers : Fire(t) \/ TimerStep(t)
    BY <1>2
  <2>1. UNCHANGED <<bot, desk>>
    BY DEF Fire, TimerStep, CheckChat, CheckState, Warn, Expire
  <2>2. \/ Stored' = Stored /\ question' = question
        \/ Stored' = DefaultState /\ question' = "none"
    <3>1. CASE CheckState(t)
      BY <3>1, ReadKeepsStored DEF CheckState
    <3>2. CASE Fire(t) \/ CheckChat(t) \/ Warn(t)
      BY <3>2 DEF Fire, CheckChat, Warn, Stored, convVars, ghosts
    <3>3. CASE Expire(t)
      BY <1>1, <3>3 DEF Expire, Stored
    <3> QED
      BY <3>1, <3>2, <3>3 DEF TimerStep
  <2> QED
    BY <2>1, <2>2, QuestionsAround
<1>3. CASE AskSurvey
  <2>1. UNCHANGED <<bot, conv, question>>
    BY <1>3 DEF AskSurvey, convVars, ghosts
  <2>2. CASE desk' = [desk EXCEPT !.at = "read", !.question = "asked"]
    <3>1. desk'.question = "asked"
      BY <1>0, <2>2 DEF Desk
    <3> QED
      BY <2>1, <3>1, QuestionsAround DEF Stored
  <2>3. CASE desk' = DeskIdle
    <3>1. desk'.at = "idle"
      BY <2>3 DEF DeskIdle
    <3> QED
      BY <2>1, <3>1, QuestionsAround DEF Stored
  <2> QED
    BY <1>3, <2>2, <2>3 DEF AskSurvey
<1>4. CASE ReadForSurvey
  <2>1. UNCHANGED <<bot, question>> /\ Stored' = Stored
    BY <1>4, ReadKeepsStored DEF ReadForSurvey, ghosts
  <2>2. desk'.question = "asked"
    BY <1>0, <1>4 DEF ReadForSurvey, Desk, DeskFits
  <2> QED
    BY <2>1, <2>2, QuestionsAround
<1>5. CASE MarkSurvey
  <2>1. bot' = bot /\ desk'.at = "idle" /\ desk.question = "asked"
    BY <1>0, <1>5 DEF MarkSurvey, DeskIdle, DeskFits
  <2>2. \/ question' = "asked"
        \/ question' = question /\ Stored' = Stored
    BY <1>5, <2>1 DEF MarkSurvey, Stored
  <2> QED
    BY <2>1, <2>2, QuestionsAround
<1>6. CASE Forget
  <2>1. bot' = bot /\ desk'.at = "idle"
    BY <1>6 DEF Forget, DeskIdle
  <2>2. \/ Stored' = Stored /\ question' = question
        \/ Stored' = DefaultState /\ question' = "none"
    BY <1>1, <1>6 DEF Forget, Stored
  <2> QED
    BY <2>1, <2>2, QuestionsAround
<1>7. CASE Requests
  <2>1. UNCHANGED <<bot, question, conv>>
    BY <1>7 DEF Requests, Take, Release, ReleaseQuietly, Unassign, convVars,
                ghosts
  <2>2. desk' = desk \/ desk'.at \in {"ask", "forget"}
    BY <1>0, <1>7
    DEF Requests, Take, Release, ReleaseQuietly, Unassign, DeskGoes, Desk
  <2> QED
    BY <2>1, <2>2, QuestionsAround DEF Stored
<1>8. CASE StateExpires
  <2>1. UNCHANGED <<bot, desk>> /\ Stored' = DefaultState /\ question' = "none"
    BY <1>8 DEF StateExpires, Stored
  <2> QED
    BY <2>1, QuestionsAround
<1>9. CASE Crash
  <2>1. desk'.at = "idle" /\ bot'.at = "idle" /\ conv' = conv
    BY <1>9 DEF Crash, DeskIdle, BotIdle, convVars
  <2>2. /\ question' \notin {"unasked", "rated"}
        /\ question # "none" => question' # "none"
    BY <1>9 DEF Crash
  <2>3. QuestionFits'
    BY <2>1, <2>2 DEF QuestionsInv, QuestionFits, Stored
  <2> QED
    BY <2>1, <2>3 DEF QuestionsInv, BotFits, DeskFits
<1> QED
  BY <1>2, <1>3, <1>4, <1>5, <1>6, <1>7, <1>8, <1>9 DEF DeskStep

LEMMA QuestionsInit == Init => QuestionsInv
<1> SUFFICES ASSUME Init PROVE QuestionsInv
  OBVIOUS
<1>1. bot.at = "idle" /\ desk.at = "idle" /\ Stored.step = "START"
  BY DEF Init, BotIdle, DeskIdle, Stored, DefaultState
<1>2. question = "none"
  BY DEF Init
<1> QED
  BY <1>1, <1>2, TypeInit DEF QuestionsInv, QuestionFits, BotFits, DeskFits

LEMMA QuestionsNext == QuestionsInv /\ [Next]_vars => QuestionsInv'
<1> SUFFICES ASSUME QuestionsInv, [Next]_vars PROVE QuestionsInv'
  OBVIOUS
<1>1. TypeOK'
  BY TypeNext DEF QuestionsInv
<1>2. CASE UNCHANGED vars
  BY <1>1, <1>2, QuestionsAround DEF vars, Stored
<1>3. CASE Next
  BY <1>1, <1>3, QuestionsReceive, QuestionsThink, QuestionsFollow,
     QuestionsElsewhere DEF Next, BotStep
<1> QED
  BY <1>2, <1>3

\* A rating is stored only for a survey whose question was sent and has no
\* rating yet (conversation-flow.service.ts:41-56, 282-316,
\* chat.service.ts:161-179, 322-335), in any order of messages, releases,
\* timers, errors and restarts; but for a question that could not be sent and
\* a rated survey that could not be reset, in which the survey stands.
THEOREM QuestionsBeforeAnswers == Spec => []AnswersFollowQuestions
<1>1. QuestionsInv => AnswersFollowQuestions
  BY DEF QuestionsInv, BotFits, AnswersFollowQuestions, Answerable
<1> QED
  BY <1>1, QuestionsInit, QuestionsNext, PTL DEF Spec

-----------------------------------------------------------------------------
(***************************************************************************)
(* The inactivity timer.  While a message is handled the timer it armed    *)
(* runs; between messages a conversation that agents did not have is left  *)
(* to some timer; and a chat that agents have counts as unwatched, so that *)
(* nothing is promised of it when the cron job gives it back.              *)
(***************************************************************************)
Resting == {"idle", "route"}
Watched == \E t \in Timers : timer[t] # "off"
Unattended == status = "AUTO_RESPONDER" /\ ~unwatched /\ Stored.step # "START"

WatchInv ==
    /\ TypeOK
    /\ status = "ACTIVE" => unwatched
    /\ bot.at \notin Resting =>
          bot.armed \in Timers /\ timer[bot.armed] = "running"
    /\ bot.at \in Resting /\ Unattended => Watched

\* A step of the message handler once it has armed its timer.
LEMMA WatchBusy ==
    ASSUME WatchInv, TypeOK', timer' = timer, bot.at \notin Resting,
           \/ bot' = BotIdle
           \/ bot'.at \notin Resting /\ bot'.armed = bot.armed,
           status' = "ACTIVE" => unwatched'
    PROVE  WatchInv'
<1>1. bot.armed \in Timers /\ timer'[bot.armed] = "running"
  BY DEF WatchInv
<1>2. Watched'
  BY <1>1 DEF Watched
<1>3. (bot.at \notin Resting)' => (bot'.armed = bot.armed)
  BY DEF BotIdle, Resting
<1> QED
  BY <1>1, <1>2, <1>3 DEF WatchInv, Resting

\* A step that touches neither the message handler nor the timers.
LEMMA WatchAround ==
    ASSUME WatchInv, TypeOK', UNCHANGED <<bot, timer>>,
           status' = "ACTIVE" => unwatched', Unattended' => Unattended
    PROVE  WatchInv'
BY DEF WatchInv, Watched, Resting

\* A message is taken and its timer armed (chat.service.ts:94-123, 452-490).
LEMMA WatchReceive ==
    ASSUME WatchInv, TypeOK', (\E text \in Texts : Receive(text)) \/ Route
    PROVE  WatchInv'
<1>0. bot \in Bot
  BY DEF WatchInv, TypeOK
<1>1. CASE \E text \in Texts : Receive(text)
  <2>1. bot.at \in Resting /\ bot'.at \in Resting
    BY <1>1 DEF Receive, BotIdle, Resting
  <2>2. UNCHANGED <<conv, status, timer, unwatched>>
    BY <1>1 DEF Receive, convVars, timerVars, ghosts
  <2>3. (Unattended' <=> Unattended) /\ (Watched' <=> Watched)
    BY <2>2 DEF Unattended, Watched, Stored
  <2> QED
    BY <2>1, <2>2, <2>3 DEF WatchInv
<1>2. CASE /\ Route
           /\ \E t \in Timers :
                 /\ Arm(t)
                 /\ bot' = [bot EXCEPT !.at = "read", !.named = named,
                                       !.armed = t]
           /\ status' = "AUTO_RESPONDER"
  <2> PICK t \in Timers :
            /\ Arm(t)
            /\ bot' = [bot EXCEPT !.at = "read", !.named = named,
                                  !.armed = t]
    BY <1>2
  <2>1. bot'.at = "read" /\ bot'.armed = t
    BY <1>0 DEF Bot
  <2>2. timer'[t] = "running"
    BY DEF Arm, Cleared
  <2> QED
    BY <1>2, <2>1, <2>2 DEF WatchInv, Resting
<1>3. CASE status' = "ACTIVE" /\ bot' = BotIdle /\ unwatched' = TRUE
  BY <1>3 DEF WatchInv, Unattended, BotIdle, Resting
<1> QED
  BY <1>1, <1>2, <1>3 DEF Route

\* The message is answered (chat.service.ts:116-179,
\* conversation-flow.service.ts:30-316).
LEMMA WatchAnswer ==
    ASSUME WatchInv, TypeOK', BotStep, ~Route
    PROVE  WatchInv'
<1>0. bot \in Bot /\ (status = "ACTIVE" => unwatched)
  BY DEF WatchInv, TypeOK
<1>1. \A next, s, reply : next \notin Resting /\ Answer(next, s, reply)
         => bot'.at \notin Resting /\ bot'.armed = bot.armed
  BY <1>0 DEF Answer, Bot
<1>2. \A place : place \notin Resting /\ BotGoes(place)
         => bot'.at \notin Resting /\ bot'.armed = bot.armed
  BY <1>0 DEF BotGoes, Bot
<1> USE DEF Resting
<1>3. CASE ReadState
  <2> PICK s : bot' = [bot EXCEPT !.at = "think", !.state = s,
                         !.question = IF s.step = "SURVEY" THEN question
                                      ELSE "none"]
    BY <1>3 DEF ReadState
  <2>1. bot'.at = "think" /\ bot'.armed = bot.armed
    BY <1>0 DEF Bot
  <2> QED
    BY <1>0, <1>3, <2>1, WatchBusy DEF ReadState, timerVars, ghosts
<1>4. CASE Caught /\ bot.at \in {"think", "write", "reset", "reply"}
           /\ UNCHANGED timerVars
  <2>1. bot' = BotIdle /\ unwatched' = TRUE
    BY <1>4 DEF Caught
  <2> QED
    BY <1>4, <2>1, WatchBusy DEF timerVars
<1>5. CASE ExitCommand \/ StartStep \/ NameStep \/ MainMenuStep
              \/ DisclaimerStep \/ CedulaStep \/ SurveyStep
  <2>1. bot.at = "think" /\ UNCHANGED <<status, timer, unwatched>>
    BY <1>5 DEF ExitCommand, StartStep, NameStep, MainMenuStep,
                DisclaimerStep, CedulaStep, SurveyStep, Thinking, timerVars,
                ghosts
  <2>2. bot'.at \notin Resting /\ bot'.armed = bot.armed
    BY <1>1, <1>5
    DEF ExitCommand, StartStep, NameStep, MainMenuStep, Consult,
        DisclaimerStep, CedulaStep, SurveyStep
  <2> QED
    BY <1>0, <2>1, <2>2, WatchBusy
<1>6. CASE /\ bot.at \in {"write", "record", "close", "reset"}
           /\ \E place \in {"close", "reset", "reply"} : BotGoes(place)
           /\ UNCHANGED <<timer, unwatched>>
           /\ status' \in {status, "CLOSED"}
  BY <1>0, <1>2, <1>6, WatchBusy
<1>7. CASE /\ bot.at = "reply" /\ bot' = BotIdle /\ UNCHANGED timer
           /\ \/ UNCHANGED <<status, unwatched>>
              \/ unwatched' = TRUE
  BY <1>0, <1>7, WatchBusy
<1>8. CASE WriteState
  BY <1>4, <1>6, <1>8 DEF WriteState, timerVars
<1>9. CASE RecordSurvey \/ FinalizeChat
  BY <1>6, <1>9 DEF RecordSurvey, FinalizeChat, timerVars, ghosts
<1>10. CASE ResetState
  BY <1>4, <1>6, <1>10 DEF ResetState, timerVars
<1>11. CASE Reply
  BY <1>4, <1>7, <1>11 DEF Reply, timerVars
<1>12. CASE RereadFails
  BY <1>4, <1>12 DEF RereadFails
<1> QED
  BY <1>3, <1>5, <1>8, <1>9, <1>10, <1>11, <1>12 DEF BotStep

\* The callback of a timer that is not the one the message under way armed:
\* it ends only for a chat of the agents, a conversation that is over, or
\* with an error that is accounted for (chat.service.ts:462-487).
LEMMA WatchTimer ==
    ASSUME WatchInv, TypeOK', NEW t \in Timers, Fire(t) \/ TimerStep(t)
    PROVE  WatchInv'
<1>0. /\ timer \in [Timers -> TimerPlaces]
      /\ status = "ACTIVE" => unwatched
      /\ bot.at \notin Resting =>
            bot.armed \in Timers /\ timer[bot.armed] = "running"
  BY DEF WatchInv, TypeOK
<1>1. /\ bot' = bot /\ status' = status
      /\ unwatched => unwatched'
      /\ bot.at \notin Resting => t # bot.armed
      /\ \A s \in Timers \ {t} : timer'[s] = timer[s]
  <2>1. CASE Fire(t)
    BY <1>0, <2>1 DEF Fire, Advance, ghosts
  <2>2. CASE TimerStep(t)
    <3>1. bot' = bot /\ status' = status /\ timer[t] # "running"
          /\ \A s \in Timers \ {t} : timer'[s] = timer[s]
      BY <1>0, <2>2
      DEF TimerStep, CheckChat, CheckState, Warn, Expire, Advance, EndTimer
    <3>2. unwatched => unwatched'
      BY <2>2
      DEF TimerStep, CheckChat, CheckState, Warn, Expire, ghosts
    <3> QED
      BY <1>0, <3>1, <3>2
  <2> QED
    BY <2>1, <2>2
<1>2. (bot.at \notin Resting =>
          bot.armed \in Timers /\ timer[bot.armed] = "running")'
  BY <1>0, <1>1
<1>3. ASSUME Unattended'
      PROVE  timer'[t] # "off"
  <2>1. CASE Fire(t)
    BY <1>0, <2>1 DEF Fire, Advance
  <2>2. CASE CheckChat(t)
    BY <1>0, <1>1, <1>3, <2>2 DEF CheckChat, Advance, Unattended
  <2>3. CASE CheckState(t)
    <3> PICK s \in UserState :
              /\ GetUserState(s)
              /\ \/ s.step = "START" /\ EndTimer(t)
                 \/ s.step # "START" /\ Advance(t, "reading", "warning")
              /\ unwatched' = (unwatched \/ s # Stored)
      BY <2>3 DEF CheckState
    <3>1. s = Stored /\ Stored' = Stored
      BY <1>3, ReadKeepsStored DEF Unattended
    <3> QED
      BY <1>0, <1>3, <3>1 DEF Unattended, Advance
  <2>4. CASE Warn(t)
    BY <1>0, <1>3, <2>4 DEF Warn, Advance, Unattended
  <2>5. CASE Expire(t)
    BY <1>3, <2>5 DEF Expire, Reset, Unattended, Stored, DefaultState
  <2> QED
    BY <2>1, <2>2, <2>3, <2>4, <2>5 DEF TimerStep
<1> QED
  BY <1>0, <1>1, <1>2, <1>3 DEF WatchInv, Watched

\* Agents, Redis and restarts (chat.service.ts:299-338, 364-396).
LEMMA WatchElsewhere ==
    ASSUME WatchInv, TypeOK', DeskStep \/ Requests \/ StateExpires \/ Crash
    PROVE  WatchInv'
<1>0. status = "ACTIVE" => unwatched
  BY DEF WatchInv
<1>1. CASE AskSurvey
  BY <1>0, <1>1, WatchAround
  DEF AskSurvey, Unattended, Stored, convVars, timerVars, ghosts
<1>2. CASE ReadForSurvey
  <2>1. Stored' = Stored /\ UNCHANGED <<status, timer, bot, unwatched>>
    BY <1>2, ReadKeepsStored DEF ReadForSurvey, timerVars, ghosts
  <2> QED
    BY <1>0, <2>1, WatchAround DEF Unattended
<1>3. CASE MarkSurvey
  BY <1>3, WatchAround DEF MarkSurvey, Unattended, timerVars
<1>4. CASE Forget
  BY <1>0, <1>4, WatchAround
  DEF Forget, Reset, Unattended, Stored, DefaultState, timerVars
<1>5. CASE Take
  BY <1>5, WatchAround DEF Take, Unattended, timerVars
<1>6. CASE Release \/ Unassign
  <2>1. /\ UNCHANGED <<conv, timer, bot>> /\ status' = "AUTO_RESPONDER"
        /\ unwatched \/ status # "AUTO_RESPONDER" => unwatched'
    BY <1>6 DEF Release, Unassign, convVars, timerVars
  <2> QED
    BY <2>1, WatchAround DEF Unattended, Stored
<1>7. CASE ReleaseQuietly
  BY <1>0, <1>7, WatchAround
  DEF ReleaseQuietly, Unattended, timerVars, ghosts
<1>8. CASE StateExpires
  BY <1>0, <1>8, WatchAround
  DEF StateExpires, Unattended, Stored, DefaultState, timerVars, ghosts
<1>9. CASE Crash
  BY <1>9 DEF Crash, WatchInv, Unattended, BotIdle, Resting
<1> QED
  BY <1>1, <1>2, <1>3, <1>4, <1>5, <1>6, <1>7, <1>8, <1>9
  DEF DeskStep, Requests

LEMMA WatchInit == Init => WatchInv
<1> SUFFICES ASSUME Init PROVE WatchInv
  OBVIOUS
<1>1. /\ bot.at = "idle" /\ status # "ACTIVE" /\ Stored.step = "START"
  BY DEF Init, BotIdle, Stored, DefaultState
<1> QED
  BY <1>1, TypeInit DEF WatchInv, Unattended, Resting

LEMMA WatchNext == WatchInv /\ [Next]_vars => WatchInv'
<1> SUFFICES ASSUME WatchInv, [Next]_vars PROVE WatchInv'
  OBVIOUS
<1>1. TypeOK'
  BY TypeNext DEF WatchInv
<1>2. CASE UNCHANGED vars
  <2>1. status = "ACTIVE" => unwatched
    BY DEF WatchInv
  <2> QED
    BY <1>1, <1>2, <2>1, WatchAround DEF vars, Unattended, Stored
<1>3. CASE Next
  BY <1>1, <1>3, WatchReceive, WatchAnswer, WatchTimer, WatchElsewhere
  DEF Next
<1> QED
  BY <1>2, <1>3

\* A conversation under way has an inactivity timer, except after agents had
\* the chat, a restart, or an error (chat.service.ts:452-490): with any
\* number of timers, a callback that deletes the entry of another timer from
\* the map loses no session.
THEOREM SessionsStayWatched == Spec => []SessionIsWatched
<1>1. WatchInv => SessionIsWatched
  BY DEF WatchInv, Resting, Unattended, Watched, SessionIsWatched
<1> QED
  BY <1>1, WatchInit, WatchNext, PTL DEF Spec
=============================================================================
