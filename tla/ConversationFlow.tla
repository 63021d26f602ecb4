-------------------------- MODULE ConversationFlow --------------------------
(***************************************************************************)
(* The bot's conversation with one customer: ConversationFlowService and   *)
(* the conversation state in Redis, with the handlers of ChatService that  *)
(* read and write that state at the same time: the customer's messages     *)
(* (one by one, under the lock of MessageLock), the inactivity timer, and  *)
(* an agent's release or unassignment of the chat.                         *)
(*                                                                         *)
(* Each handler reads the state, awaits, and writes all of it back.        *)
(* Conversations of different customers share nothing.                     *)
(*                                                                         *)
(* A chat that waits for an agent counts as ACTIVE, and each change of its *)
(* status is one step; ChatAssignment models what may happen in between.   *)
(* A message with media never reaches the conversation and is left out.    *)
(*                                                                         *)
(* Assumption on time: the inactivity timer that a message armed does not  *)
(* fire before that message is handled (30 minutes against seconds).       *)
(***************************************************************************)
CONSTANTS Timers,  \* inactivity timers that exist at once
          Faults,  \* what may go wrong, see FaultsAssumption
          None     \* null

ASSUME FaultsAssumption ==
    Faults \subseteq {"outage",     \* WhatsApp refuses a message
                      "readError",  \* Redis fails to read the state
                      "writeError", \* Redis fails to write it
                      "dbError",    \* a query or a save fails
                      "crash"}      \* the process restarts
ASSUME NoneAssumption == None \notin Timers

Steps == {"START", "ASK_FOR_NAME", "MAIN_MENU", "DISCLAIMER", "PEDIR_CEDULA",
          "SURVEY"}
UserState == [step : Steps, termsAccepted : BOOLEAN]
DefaultState == [step |-> "START", termsAccepted |-> FALSE]
ASSUME StateAssumption == None \notin UserState

\* What the customer may write: one text for each way the code tells texts
\* apart.  A cedula has digits, so it also rates a survey.
Texts == {"1", "2", "si", "no", "menu", "cancelar", "salir", "Ana",
          "0102030405"}
ExitCommands == {"menu", "cancelar", "salir"}
Names == {"Ana"}
Cedulas == {"0102030405"}
Ratings == {"1", "2", "0102030405"}

VARIABLES conv,      \* the state in Redis, or None
          status,    \* of the chat
          named,     \* the chat has a customer name
          timer,     \* where each inactivity timer is
          handle,    \* the timer in autoResponderTimeouts, or None
          bot,       \* the message handler
          desk,      \* an agent's release or unassignment under way
          consent,   \* ghost: the customer accepted and did not go back
          question,  \* ghost: the question behind the survey in Redis
          unwatched  \* ghost: the session lost its timer for a known reason

convVars == <<conv, named>>
timerVars == <<timer, handle>>
ghosts == <<consent, question, unwatched>>
vars == <<conv, status, named, timer, handle, bot, desk, consent, question,
          unwatched>>

\* What became of the question of a survey.
Questions ==
    {"none",     \* the conversation is not in the survey
     "unasked",  \* the survey has begun, its question is still to be sent
     "unsent",   \* it could not be sent, or a restart came first
     "asked",    \* it was sent and has no rating yet
     "rated",    \* a rating was stored, the conversation is not reset yet
     "unreset"}  \* that reset failed, or a restart came first

BotPlaces == {"idle", "route", "read", "think", "write", "record", "close",
              "reset", "reply"}
Replies == {"none", "text", "restart", "question", "debt", "advisor"}
Bot == [at : BotPlaces, text : Texts \union {None}, state : UserState,
        reply : Replies,
        named : BOOLEAN,                 \* of the chat as this handler read it
        armed : Timers \union {None},   \* by this message
        question : Questions]            \* ghost: of the state it read
BotIdle == [at |-> "idle", text |-> None, state |-> DefaultState,
            reply |-> "none", named |-> FALSE, armed |-> None,
            question |-> "none"]
Desk == [at : {"idle", "ask", "read", "mark", "forget"},
         termsAccepted : BOOLEAN,
         question : Questions]           \* ghost: of the survey it begins
DeskIdle == [at |-> "idle", termsAccepted |-> FALSE, question |-> "none"]
TimerPlaces == {"off", "running", "checking", "reading", "warning",
                "resetting"}

-----------------------------------------------------------------------------
(***************************************************************************)
(* getUserState writes the default state when there is none; an error is   *)
(* answered with the default state.                                        *)
(***************************************************************************)
Stored == IF conv = None THEN DefaultState ELSE conv
GetUserState(s) ==
    \/ s = Stored /\ conv' = Stored
    \/ "readError" \in Faults /\ s = DefaultState /\ conv' \in {conv, Stored}

\* resetUserState.
Reset == conv' = DefaultState /\ question' = "none"

-----------------------------------------------------------------------------
(***************************************************************************)
(* The inactivity timer.                                                   *)
(***************************************************************************)
\* clearTimeout: too late for a timer whose callback has begun.
Cleared == [t \in Timers |->
               IF t = handle /\ timer[t] = "running" THEN "off" ELSE timer[t]]

\* Mutant of Arm: a timer in the map is left to run.
ArmOnce(t) ==
    /\ Cleared[t] = "off"
    /\ IF handle = None
       THEN timer' = [timer EXCEPT ![t] = "running"] /\ handle' = t
       ELSE UNCHANGED <<timer, handle>>
    /\ unwatched' = FALSE

\* startAutoResponderTimer.
Arm(t) ==
    /\ Cleared[t] = "off"
    /\ timer' = [Cleared EXCEPT ![t] = "running"]
    /\ handle' = t
    /\ unwatched' = FALSE

Advance(t, from, to) ==
    timer[t] = from /\ timer' = [timer EXCEPT ![t] = to] /\ UNCHANGED handle

\* Mutant of EndTimer: the entry of the map stays.
EndTimerOnly(t) ==
    /\ timer' = [timer EXCEPT ![t] = "off"]
    /\ UNCHANGED handle

\* The callback ends: it deletes the entry of its chat, even if a later
\* message put another timer there.
EndTimer(t) ==
    /\ timer' = [timer EXCEPT ![t] = "off"]
    /\ handle' = None

Fire(t) ==
    /\ t # bot.armed  \* the assumption on time
    /\ Advance(t, "running", "checking")
    /\ UNCHANGED <<convVars, status, bot, desk, ghosts>>

CheckChat(t) ==
    /\ timer[t] = "checking"
    /\ \/ /\ status = "AUTO_RESPONDER"
          /\ Advance(t, "checking", "reading")
       \/ /\ status # "AUTO_RESPONDER"
          /\ EndTimer(t)
    /\ UNCHANGED <<convVars, status, bot, desk, ghosts>>

\* A read that failed looks like a conversation that has not begun.
CheckState(t) ==
    /\ timer[t] = "reading"
    /\ \E s \in UserState :
          /\ GetUserState(s)
          /\ \/ s.step = "START" /\ EndTimer(t)
             \/ s.step # "START" /\ Advance(t, "reading", "warning")
          /\ unwatched' = (unwatched \/ s # Stored)
    /\ UNCHANGED <<status, named, bot, desk, consent, question>>

\* The customer is told that the session is over; errors are only logged.
Warn(t) ==
    /\ timer[t] = "warning"
    /\ \/ Advance(t, "warning", "resetting") /\ UNCHANGED unwatched
       \/ "outage" \in Faults /\ EndTimer(t) /\ unwatched' = TRUE
    /\ UNCHANGED <<convVars, status, bot, desk, consent, question>>

\* Mutant of Expire: the session is said to be over and goes on.
ExpireInNameOnly(t) ==
    /\ timer[t] = "resetting"
    /\ EndTimer(t)
    /\ UNCHANGED <<convVars, status, bot, desk, ghosts>>

Expire(t) ==
    /\ timer[t] = "resetting"
    /\ EndTimer(t)
    /\ \/ Reset /\ UNCHANGED unwatched
       \/ /\ "writeError" \in Faults
          /\ unwatched' = TRUE
          /\ UNCHANGED <<conv, question>>
    /\ UNCHANGED <<named, status, bot, desk, consent>>

-----------------------------------------------------------------------------
(***************************************************************************)
(* A message: from processIncomingMessage to the conversation.             *)
(***************************************************************************)
Receive(text) ==
    /\ bot.at = "idle"
    /\ bot' = [BotIdle EXCEPT !.at = "route", !.text = text]
    /\ UNCHANGED <<convVars, status, timerVars, desk, ghosts>>

\* A chat with the agents is left to them; without WhatsApp it goes to them.
Route ==
    /\ bot.at = "route"
    /\ \/ /\ status # "ACTIVE"
          /\ status' = "AUTO_RESPONDER"
          /\ \E t \in Timers :
                /\ Arm(t)
                /\ bot' = [bot EXCEPT !.at = "read", !.named = named,
                                      !.armed = t]
       \/ /\ status = "ACTIVE" \/ "outage" \in Faults
          /\ status' = "ACTIVE"
          /\ bot' = BotIdle
          /\ unwatched' = TRUE
          /\ UNCHANGED timerVars
    /\ UNCHANGED <<convVars, desk, consent, question>>

ReadState ==
    /\ bot.at = "read"
    /\ \E s \in UserState :
          /\ GetUserState(s)
          /\ bot' = [bot EXCEPT !.at = "think", !.state = s,
                       !.question = IF s.step = "SURVEY" THEN question
                                    ELSE "none"]
    /\ UNCHANGED <<status, named, timerVars, desk, ghosts>>

\* The catch block apologises and gives the chat to the agents, unless that
\* fails too.  The chat is saved as this handler read it: a name given in
\* this message is lost.
Caught ==
    /\ bot' = BotIdle
    /\ unwatched' = TRUE
    /\ \/ status' = "ACTIVE" /\ named' = bot.named
       \/ Faults \cap {"outage", "dbError"} # {} /\ UNCHANGED <<status, named>>

\* The chat cannot be read again.
RereadFails ==
    /\ bot.at = "think" /\ "dbError" \in Faults
    /\ Caught
    /\ UNCHANGED <<conv, timerVars, desk, consent, question>>

\* The state after this message and the answer to it.
Answer(next, s, reply) ==
    bot' = [bot EXCEPT !.at = next, !.text = None, !.state = s,
                       !.reply = reply]

Thinking(step) ==
    bot.at = "think" /\ bot.text \notin ExitCommands /\ bot.state.step = step
ToStep(step) == [bot.state EXCEPT !.step = step]

\* Exit commands work in every step; `menu` in the menu changes nothing.
ExitCommand ==
    /\ bot.at = "think" /\ bot.text \in ExitCommands
    /\ \/ /\ bot.text = "menu" /\ bot.state.step = "MAIN_MENU"
          /\ Answer("reply", bot.state, "text")
       \/ /\ bot.text = "salir"
          /\ Answer("write", ToStep("SURVEY"), "question")
       \/ /\ bot.text # "salir"
          /\ ~(bot.text = "menu" /\ bot.state.step = "MAIN_MENU")
          /\ Answer("write", [step |-> "MAIN_MENU", termsAccepted |-> FALSE],
                    "restart")
    /\ UNCHANGED <<convVars, status, timerVars, desk, ghosts>>

StartStep ==
    /\ Thinking("START")
    /\ Answer("write", ToStep(IF named THEN "MAIN_MENU" ELSE "ASK_FOR_NAME"),
              "text")
    /\ UNCHANGED <<convVars, status, timerVars, desk, ghosts>>

NameStep ==
    /\ Thinking("ASK_FOR_NAME")
    /\ \/ /\ bot.text \notin Names
          /\ Answer("write", bot.state, "text")
          /\ UNCHANGED named
       \/ /\ bot.text \in Names
          /\ Answer("write", ToStep("MAIN_MENU"), "text")
          /\ named' = TRUE
    /\ UNCHANGED <<conv, status, timerVars, desk, ghosts>>

\* Mutant of Consult: the terms are not asked for.
ConsultAtOnce == Answer("write", ToStep("PEDIR_CEDULA"), "text")

Consult == Answer("write", ToStep(IF bot.state.termsAccepted
                                  THEN "PEDIR_CEDULA" ELSE "DISCLAIMER"), "text")

MainMenuStep ==
    /\ Thinking("MAIN_MENU")
    /\ \/ bot.text = "1" /\ Consult
       \/ bot.text = "2" /\ Answer("write", bot.state, "advisor")
       \/ bot.text \notin {"1", "2"} /\ Answer("write", bot.state, "text")
    /\ UNCHANGED <<convVars, status, timerVars, desk, ghosts>>

DisclaimerStep ==
    /\ Thinking("DISCLAIMER")
    /\ \/ /\ bot.text = "si"
          /\ Answer("write", [step |-> "PEDIR_CEDULA", termsAccepted |-> TRUE],
                    "text")
          /\ consent' = TRUE
       \/ /\ bot.text = "no"
          /\ Answer("write", ToStep("MAIN_MENU"), "text")
          /\ UNCHANGED consent
       \/ /\ bot.text \notin {"si", "no"}
          /\ Answer("write", bot.state, "text")
          /\ UNCHANGED consent
    /\ UNCHANGED <<convVars, status, timerVars, desk, question, unwatched>>

\* The customer may be unknown, or their debts are shown.
CedulaStep ==
    /\ Thinking("PEDIR_CEDULA")
    /\ \/ /\ bot.text \notin Cedulas
          /\ Answer("write", bot.state, "text")
       \/ /\ bot.text \in Cedulas
          /\ \E reply \in {"debt", "text"} :
                Answer("write", ToStep("MAIN_MENU"), reply)
    /\ UNCHANGED <<convVars, status, timerVars, desk, ghosts>>

SurveyStep ==
    /\ Thinking("SURVEY")
    /\ Answer(IF bot.text \in Ratings THEN "record" ELSE "reset", bot.state,
              "text")
    /\ UNCHANGED <<convVars, status, timerVars, desk, ghosts>>

-----------------------------------------------------------------------------
(***************************************************************************)
(* What follows: the state is written, a rating is stored and closes the   *)
(* chat, the answer is sent.                                               *)
(***************************************************************************)
BotGoes(place) == bot' = [bot EXCEPT !.at = place]

\* The survey that `salir` begins is written before its question is sent.
WriteState ==
    /\ bot.at = "write"
    /\ \/ /\ conv' = bot.state
          /\ BotGoes("reply")
          /\ consent' = (consent /\ bot.reply # "restart")
          /\ question' = IF bot.reply = "question" THEN "unasked" ELSE "none"
          /\ UNCHANGED <<status, named, unwatched>>
       \/ /\ "writeError" \in Faults
          /\ Caught
          /\ UNCHANGED <<conv, consent, question>>
    /\ UNCHANGED <<timerVars, desk>>

\* Errors are logged and the customer is thanked all the same.
RecordSurvey ==
    /\ bot.at = "record"
    /\ \/ /\ BotGoes("close")
          /\ question' = IF question = bot.question THEN "rated" ELSE question
       \/ "dbError" \in Faults /\ BotGoes("reset") /\ UNCHANGED question
    /\ UNCHANGED <<convVars, status, timerVars, desk, consent, unwatched>>

FinalizeChat ==
    /\ bot.at = "close"
    /\ BotGoes("reset")
    /\ \/ status' = "CLOSED"
       \/ "dbError" \in Faults /\ UNCHANGED status
    /\ UNCHANGED <<convVars, timerVars, desk, ghosts>>

\* Mutant of ResetState: the conversation stays in the survey.
ResetNothing ==
    /\ bot.at = "reset"
    /\ BotGoes("reply")
    /\ UNCHANGED <<convVars, status, timerVars, desk, ghosts>>

\* When the reset fails the survey goes on, rated or not.
ResetState ==
    /\ bot.at = "reset"
    /\ \/ /\ Reset
          /\ BotGoes("reply")
          /\ UNCHANGED <<status, named, unwatched>>
       \/ /\ "writeError" \in Faults
          /\ Caught
          /\ question' = IF question = "rated" THEN "unreset" ELSE question
          /\ UNCHANGED conv
    /\ UNCHANGED <<timerVars, desk, consent>>

QuestionIs(tag) == question' = IF question = "unasked" THEN tag ELSE question

\* The hand-over saves the chat first, and what fails then is caught after
\* that.  An answer that cannot be sent is caught as well, and so is one that
\* was sent and cannot be saved as a message.
Reply ==
    /\ bot.at = "reply"
    /\ \/ /\ bot.reply # "advisor"
          /\ bot' = BotIdle
          /\ QuestionIs("asked")
          /\ UNCHANGED <<status, named, unwatched>>
       \/ /\ bot.reply = "advisor"
          /\ bot' = BotIdle
          /\ status' = "ACTIVE"
          /\ named' = bot.named
          /\ unwatched' = TRUE
          /\ UNCHANGED question
       \/ "outage" \in Faults /\ Caught /\ QuestionIs("unsent")
       \/ "dbError" \in Faults /\ Caught /\ QuestionIs("asked")
    /\ UNCHANGED <<conv, timerVars, desk, consent>>

-----------------------------------------------------------------------------
(***************************************************************************)
(* The agents: they take a chat, release it with or without the survey,    *)
(* or unassign it.  One such request is under way at a time.               *)
(***************************************************************************)
Take ==
    /\ status' = "ACTIVE"
    /\ unwatched' = TRUE
    /\ UNCHANGED <<convVars, timerVars, bot, desk, consent, question>>

DeskGoes(place) == desk' = [desk EXCEPT !.at = place]

\* By hand, whatever the status of the chat; the survey comes next.
Release ==
    /\ desk.at = "idle"
    /\ status' = "AUTO_RESPONDER"
    /\ DeskGoes("ask")
    /\ unwatched' = (unwatched \/ status # "AUTO_RESPONDER")
    /\ UNCHANGED <<convVars, timerVars, bot, consent, question>>

\* The cron job, or a response timer with no other agent: no survey.
ReleaseQuietly ==
    /\ status = "ACTIVE"
    /\ status' = "AUTO_RESPONDER"
    /\ UNCHANGED <<convVars, timerVars, bot, desk, ghosts>>

AskSurvey ==
    /\ desk.at = "ask"
    /\ \/ desk' = [desk EXCEPT !.at = "read", !.question = "asked"]
       \/ Faults \cap {"outage", "dbError"} # {} /\ desk' = DeskIdle
    /\ UNCHANGED <<convVars, status, timerVars, bot, ghosts>>

ReadForSurvey ==
    /\ desk.at = "read"
    /\ \E s \in UserState :
          /\ GetUserState(s)
          /\ desk' = [desk EXCEPT !.at = "mark",
                                  !.termsAccepted = s.termsAccepted]
    /\ UNCHANGED <<status, named, timerVars, bot, ghosts>>

\* No timer is armed for a survey that an agent's release began.
MarkSurvey ==
    /\ desk.at = "mark"
    /\ \/ /\ conv' = [step |-> "SURVEY", termsAccepted |-> desk.termsAccepted]
          /\ question' = desk.question
       \/ "writeError" \in Faults /\ UNCHANGED <<conv, question>>
    /\ desk' = DeskIdle
    /\ unwatched' = TRUE
    /\ UNCHANGED <<status, named, timerVars, bot, consent>>

Unassign ==
    /\ desk.at = "idle"
    /\ status' = "AUTO_RESPONDER"
    /\ DeskGoes("forget")
    /\ unwatched' = (unwatched \/ status # "AUTO_RESPONDER")
    /\ UNCHANGED <<convVars, timerVars, bot, consent, question>>

Forget ==
    /\ desk.at = "forget"
    /\ Reset \/ ("writeError" \in Faults /\ UNCHANGED <<conv, question>>)
    /\ desk' = DeskIdle
    /\ UNCHANGED <<status, named, timerVars, bot, consent, unwatched>>

-----------------------------------------------------------------------------
\* The state in Redis expires a day after it was last written.
StateExpires ==
    /\ conv' = None
    /\ question' = "none"
    /\ UNCHANGED <<status, named, timerVars, bot, desk, consent, unwatched>>

\* A restart, also the one that a query which fails in the callback of a
\* timer brings about.  Timers and handlers are gone, and a survey stays as
\* they left it.
Crash ==
    /\ "crash" \in Faults
    /\ timer' = [t \in Timers |-> "off"]
    /\ handle' = None
    /\ bot' = BotIdle
    /\ desk' = DeskIdle
    /\ unwatched' = TRUE
    /\ question' = CASE question = "unasked" -> "unsent"
                     [] question = "rated" -> "unreset"
                     [] OTHER -> question
    /\ UNCHANGED <<convVars, status, consent>>

Init ==
    /\ conv = None
    /\ status = "AUTO_RESPONDER"
    /\ named = FALSE
    /\ timer = [t \in Timers |-> "off"]
    /\ handle = None
    /\ bot = BotIdle
    /\ desk = DeskIdle
    /\ consent = FALSE
    /\ question = "none"
    /\ unwatched = FALSE

BotStep ==
    \/ Route \/ ReadState \/ RereadFails
    \/ ExitCommand \/ StartStep \/ NameStep \/ MainMenuStep \/ DisclaimerStep
    \/ CedulaStep \/ SurveyStep
    \/ WriteState \/ RecordSurvey \/ FinalizeChat \/ ResetState \/ Reply
TimerStep(t) == CheckChat(t) \/ CheckState(t) \/ Warn(t) \/ Expire(t)
DeskStep == AskSurvey \/ ReadForSurvey \/ MarkSurvey \/ Forget
Requests == Take \/ Release \/ ReleaseQuietly \/ Unassign

Next ==
    \/ \E text \in Texts : Receive(text)
    \/ BotStep \/ DeskStep \/ Requests
    \/ \E t \in Timers : Fire(t) \/ TimerStep(t)
    \/ StateExpires \/ Crash

Spec == Init /\ [][Next]_vars

\* Handlers and callbacks go on, and a timer that runs fires.  Nothing is
\* owed by customers, agents or the expiry of Redis.
FairSpec ==
    /\ Spec
    /\ WF_vars(BotStep)
    /\ \A t \in Timers : WF_vars(Fire(t)) /\ WF_vars(TimerStep(t))

-----------------------------------------------------------------------------
\* The variables keep their types, and the map of timers holds no timer
\* that is over (chat.service.ts:452-490).
TypeOK ==
    /\ conv \in UserState \union {None}
    /\ status \in {"AUTO_RESPONDER", "ACTIVE", "CLOSED"}
    /\ named \in BOOLEAN
    /\ timer \in [Timers -> TimerPlaces]
    /\ handle \in Timers \union {None}
    /\ handle # None => timer[handle] # "off"
    /\ bot \in Bot
    /\ desk \in Desk
    /\ consent \in BOOLEAN
    /\ question \in Questions
    /\ unwatched \in BOOLEAN

\* Debts are shown only to a customer who accepted the terms and has not
\* gone back to the menu since with a command that takes them back
\* (conversation-flow.service.ts:92-97, 162-216), although releases and
\* timers write copies of older states in between.
DebtsNeedConsent == bot.reply = "debt" => consent

\* A rating is stored only for a survey whose question was sent and that has
\* no rating yet (conversation-flow.service.ts:41-56, 282-316,
\* chat.service.ts:161-179, 322-335), in whatever order a handler's copy of
\* the state, a release and a reset meet.  Two failures break this rule in the
\* code and are excused: the question of `salir` that could not be sent, after
\* which the survey stands all the same, and a rating after which the
\* conversation could not be reset, which may be given again.
AnswersFollowQuestions ==
    bot.at = "record" => bot.question \in {"asked", "unsent", "unreset"}

\* A conversation under way has an inactivity timer, except after agents
\* had the chat, a restart, or an error (chat.service.ts:452-490): no order
\* of messages and callbacks loses it.
SessionIsWatched ==
    /\ bot.at = "idle" /\ status = "AUTO_RESPONDER" /\ ~unwatched
    /\ Stored.step # "START"
    => \E t \in Timers : timer[t] # "off"

\* A conversation that is watched does not stay open for ever: it is reset,
\* goes on, goes to the agents, or loses its timer for a known reason.
SessionExpires ==
    (bot.at = "idle" /\ status = "AUTO_RESPONDER" /\ Stored.step # "START")
    ~> \/ Stored.step = "START" \/ status # "AUTO_RESPONDER"
       \/ bot.at # "idle" \/ unwatched

\* What the table of surveys is for, survey-response.entity.ts:31: "guardar
\* comentarios adicionales del cliente" (to store further comments of the
\* customer).
CommentsAreRecorded ==
    [][SurveyStep /\ bot.text \notin Ratings => bot'.at = "record"]_vars
=============================================================================
