----------------------------- MODULE PanelViews -----------------------------
(***************************************************************************)
(* What the panel shows of surveys and of the bot's profile:               *)
(* DashboardService and AdminService with the cache both use.              *)
(*                                                                         *)
(* Two views are cached aside: they are looked up, computed when they are  *)
(* not there, and stored; whoever changes what they show deletes them      *)
(* after the change.  "survey" is the count of each rating, from one query *)
(* on the database; "profile" is the profile picture, asked of WhatsApp.   *)
(* The live statistics are four queries sent at once (Promise.all), each   *)
(* answered in its own time.  The trend lists the last days by date: the   *)
(* query groups by the local date (America/Guayaquil, which is also the TZ *)
(* of the process), the list is made of UTC dates, which are a day ahead   *)
(* from seven in the evening on.                                           *)
(*                                                                         *)
(* The cache and WhatsApp are external.  An entry may lapse at any time,   *)
(* and a call may fail.  The survey view answers a failure with zeros and  *)
(* the other views throw; neither stores anything then.                    *)
(***************************************************************************)
EXTENDS Integers, FiniteSets, FiniteSetsExt

CONSTANTS Requests,     \* requests in flight at once
          Ratings,      \* the ratings customers give
          SurveyBound,  \* bound on stored surveys, guards new ones
          PictureBound, \* bound on changes of the picture
          LastDay,      \* bound on the clock, in days
          TrendDays,    \* length of the trend asked for
          Faults,       \* what may go wrong, see FaultsAssumption
          None          \* nothing, null

ASSUME DaysAssumption == LastDay \in Nat /\ TrendDays \in 1 .. 90
ASSUME FaultsAssumption ==
    Faults \subseteq {"error",  \* a query, a call or the cache fails
                      "crash"}  \* the process restarts
ASSUME NoneAssumption == None \notin Int

Keys == {"survey", "profile"}
Weight == [EXCELENTE |-> 3, REGULAR |-> 2, MALA |-> 1]

ASSUME RatingsAssumption == Ratings \subseteq DOMAIN Weight

VARIABLES surveys, \* the surveys of each day, by rating
          picture, \* the profile picture WhatsApp shows, by number
          today,   \* the local day
          evening, \* after 19:00: the UTC date is tomorrow's
          cache,   \* the entry of each key, or None
          request, \* the requests in flight
          missed   \* ghost: keys whose entry an invalidation did not reach

vars == <<surveys, picture, today, evening, cache, request, missed>>
clock == <<today, evening>>

SumOf(f) == MapThenSumSet(LAMBDA x : f[x], DOMAIN f)

RatingCount(r) == SumOf([d \in 0 .. LastDay |-> surveys[d][r]])
DayCounts == [d \in 0 .. LastDay |-> SumOf(surveys[d])]
Total == SumOf([r \in Ratings |-> RatingCount(r)])

\* Mutant of Analytics: a rating nobody gave is left out.
AnalyticsWithGaps ==
    [r \in Ratings |-> IF RatingCount(r) = 0 THEN None ELSE RatingCount(r)]

\* calculateAnalytics; the comments it looks for are never given.
Analytics == [r \in Ratings |-> RatingCount(r)]

\* What a view would show if it were computed now.
Current == [k \in Keys |-> IF k = "survey" THEN Analytics ELSE picture]

(***************************************************************************)
(*   at       the next step                                                *)
(*   key      the cached view it is about                                  *)
(*   value    what it has computed so far                                  *)
(*   crossed  what it computed may be out of date                          *)
(***************************************************************************)
Idle == [at |-> "idle", key |-> "survey", value |-> None, crossed |-> FALSE]
Labels == {"idle", "compute", "set", "delete", "count", "query", "format",
           "stats", "trend"}

Become(t, r) == request' = [request EXCEPT ![t] = r]
End(t) == Become(t, Idle)
Start(t, r) == request[t] = Idle /\ Become(t, r)
Deleting(k) == [Idle EXCEPT !.at = "delete", !.key = k]

-----------------------------------------------------------------------------
(***************************************************************************)
(* Cached views: getSurveyAnalytics and getBotProfile.                     *)
(***************************************************************************)
\* A view that is in the cache is answered from it, which changes nothing.
View(t, k) ==
    /\ cache[k] = None
    /\ Start(t, [Idle EXCEPT !.at = "compute", !.key = k])
    /\ UNCHANGED <<surveys, picture, clock, cache, missed>>

\* calculateAnalytics, or WhatsappService.getBotProfile, which shows no
\* picture (-1) when neither size of it could be had.
Compute(t) ==
    LET r == request[t]
        Computed(v, c) ==
            Become(t, [r EXCEPT !.at = "set", !.value = v, !.crossed = c])
    IN /\ r.at = "compute"
       /\ \/ Computed(Current[r.key], FALSE)
          \/ r.key = "profile" /\ "error" \in Faults /\ Computed(-1, TRUE)
       /\ UNCHANGED <<surveys, picture, clock, cache, missed>>

Store(t) ==
    LET r == request[t]
    IN /\ r.at = "set"
       /\ cache' = [cache EXCEPT ![r.key] = r.value]
       /\ missed' = IF r.crossed THEN missed \union {r.key}
                    ELSE missed \ {r.key}
       /\ End(t)
       /\ UNCHANGED <<surveys, picture, clock>>

\* The entry of k goes away.
Drop(k) ==
    /\ cache' = [cache EXCEPT ![k] = None]
    /\ missed' = missed \ {k}
    /\ UNCHANGED <<surveys, picture, clock>>

\* Mutant of Lapse: the entry has no TTL.
NeverLapses(k) == cache[k] # None /\ FALSE /\ UNCHANGED vars

\* The TTL the entry was stored with is over.
Lapse(k) ==
    /\ cache[k] # None
    /\ Drop(k)
    /\ UNCHANGED request

-----------------------------------------------------------------------------
(***************************************************************************)
(* Changes, and the deletion after them.                                   *)
(***************************************************************************)
\* Requests that have computed view k from what has changed now.
Crossing(t, k, r) ==
    request' = [s \in Requests |->
                   IF s = t THEN r
                   ELSE IF request[s].at = "set" /\ request[s].key = k
                        THEN [request[s] EXCEPT !.crossed = TRUE]
                        ELSE request[s]]

\* Mutant of Rate: the view is not invalidated.
RateOnly(t, r) ==
    /\ request[t] = Idle
    /\ Total < SurveyBound
    /\ surveys' = [surveys EXCEPT ![today][r] = @ + 1]
    /\ Crossing(t, "survey", Idle)
    /\ UNCHANGED <<picture, clock, cache, missed>>

\* handleSurvey stores a rating, then calls invalidateSurveyCache.
Rate(t, r) ==
    /\ request[t] = Idle
    /\ Total < SurveyBound
    /\ surveys' = [surveys EXCEPT ![today][r] = @ + 1]
    /\ Crossing(t, "survey", Deleting("survey"))
    /\ UNCHANGED <<picture, clock, cache, missed>>

\* updateProfilePicture, once WhatsApp has the picture.
ChangePicture(t) ==
    /\ request[t] = Idle
    /\ picture < PictureBound
    /\ picture' = picture + 1
    /\ Crossing(t, "profile", Deleting("profile"))
    /\ UNCHANGED <<surveys, clock, cache, missed>>

\* The deletion that follows a change.
Delete(t) ==
    /\ request[t].at = "delete"
    /\ Drop(request[t].key)
    /\ End(t)

\* cache/invalidate, cache/clear, and updateBotStatus, whose text is in no
\* view.
Invalidate(k) == Drop(k) /\ UNCHANGED request

-----------------------------------------------------------------------------
(***************************************************************************)
(* Live statistics: getRealtimeStats.                                      *)
(***************************************************************************)
Counted == Ratings \union {"total"}

\* Bound: one request for statistics or a trend at a time; they change
\* nothing that another request reads.
NoneReads == \A s \in Requests : request[s].at \notin
                {"count", "stats", "query", "format", "trend"}

AskStats(t) ==
    /\ NoneReads
    /\ Start(t, [Idle EXCEPT !.at = "count",
                             !.value = [c \in Counted |-> None]])
    /\ UNCHANGED <<surveys, picture, clock, cache, missed>>

\* One of the four queries is answered.
Count(t) ==
    LET r == request[t]
    IN /\ r.at = "count"
       /\ \E c \in Counted :
             LET value == [r.value EXCEPT ![c] =
                              IF c = "total" THEN Total ELSE RatingCount(c)]
             IN /\ r.value[c] = None
                /\ Become(t, [r EXCEPT !.at = IF \E d \in Counted : value[d] = None
                                             THEN "count" ELSE "stats",
                                 !.value = value])
       /\ UNCHANGED <<surveys, picture, clock, cache, missed>>

\* Math.round of n / d.
Round(n, d) == (2 * n + d) \div (2 * d)

Percentage(count, total) ==
    IF total > 0 THEN Round(100 * count, total) ELSE 0

SumOver(v) == SumOf([r \in Ratings |-> v[r]])

\* Mutant of AverageRating: the average is taken over the total.
AverageOfTotal(v) ==
    IF v.total = 0 THEN 0
    ELSE Round(100 * SumOf([r \in Ratings |-> v[r] * Weight[r]]), v.total)

\* calculateAverageRating, in hundredths.
AverageRating(v) ==
    IF SumOver(v) = 0 THEN 0
    ELSE Round(100 * SumOf([r \in Ratings |-> v[r] * Weight[r]]), SumOver(v))

-----------------------------------------------------------------------------
(***************************************************************************)
(* The trend: getSurveyTrend and formatTrendData.                          *)
(***************************************************************************)
\* Mutant of StartDate: one day less for each end.
StartDateLate(day) == day - TrendDays + 2

\* The midnight from which the query counts.
StartDate(day) == day - TrendDays

AskTrend(t) ==
    /\ NoneReads
    /\ Start(t, [Idle EXCEPT !.at = "query", !.value = StartDate(today)])
    /\ UNCHANGED <<surveys, picture, clock, cache, missed>>

QueryTrend(t) ==
    LET r == request[t]
    IN /\ r.at = "query"
       /\ Become(t, [r EXCEPT !.at = "format",
                        !.value = [from |-> r.value, found |-> DayCounts,
                                   day |-> today]])
       /\ UNCHANGED <<surveys, picture, clock, cache, missed>>

\* The clock is read again; the dates listed are those of UTC.
FormatTrend(t) ==
    LET r == request[t]
        v == r.value
        last == IF evening THEN today + 1 ELSE today
        listed == [d \in last - TrendDays + 1 .. last |->
                      IF d >= v.from /\ d \in DOMAIN v.found THEN v.found[d] ELSE 0]
    IN /\ r.at = "format"
       /\ Become(t, [r EXCEPT !.at = "trend",
                        !.value = [listed |-> listed, found |-> v.found,
                                   day |-> v.day]])
       /\ UNCHANGED <<surveys, picture, clock, cache, missed>>

\* The statistics or the trend are sent.
Answer(t) ==
    /\ request[t].at \in {"stats", "trend"}
    /\ End(t)
    /\ UNCHANGED <<surveys, picture, clock, cache, missed>>

-----------------------------------------------------------------------------
(***************************************************************************)
(* Errors, restarts and time.                                              *)
(***************************************************************************)
\* invalidateSurveyCache swallows the error, the others pass it on; the entry
\* stays either way.
Throws(t) ==
    /\ "error" \in Faults
    /\ request[t].at \in {"compute", "set", "delete", "count", "query"}
    /\ missed' = IF request[t].at = "delete"
                 THEN missed \union {request[t].key} ELSE missed
    /\ End(t)
    /\ UNCHANGED <<surveys, picture, clock, cache>>

\* Whether the cache outlives the process depends on where it is kept.
Crash ==
    /\ "crash" \in Faults
    /\ request' = [t \in Requests |-> Idle]
    /\ \/ /\ cache' = [k \in Keys |-> None]
          /\ missed' = {}
       \/ /\ missed' = missed \union
                {request[t].key : t \in {u \in Requests :
                                           request[u].at = "delete"}}
          /\ UNCHANGED cache
    /\ UNCHANGED <<surveys, picture, clock>>

\* Assumption on time: no request lasts from before midnight to the next
\* evening.
Evening ==
    /\ ~evening
    /\ \A t \in Requests : request[t].at = "format" => request[t].value.day = today
    /\ evening' = TRUE
    /\ UNCHANGED <<surveys, picture, today, cache, request, missed>>

Midnight ==
    /\ evening /\ today < LastDay
    /\ today' = today + 1
    /\ evening' = FALSE
    /\ UNCHANGED <<surveys, picture, cache, request, missed>>

Init ==
    /\ surveys = [d \in 0 .. LastDay |-> [r \in Ratings |-> 0]]
    /\ picture = 0
    /\ today = 0
    /\ evening = FALSE
    /\ cache = [k \in Keys |-> None]
    /\ request = [t \in Requests |-> Idle]
    /\ missed = {}

Step(t) == \/ Compute(t) \/ Store(t) \/ Delete(t) \/ Count(t)
           \/ QueryTrend(t) \/ FormatTrend(t) \/ Answer(t)

Starts(t) ==
    \/ \E k \in Keys : View(t, k)
    \/ \E r \in Ratings : Rate(t, r)
    \/ ChangePicture(t) \/ AskStats(t) \/ AskTrend(t)

Next ==
    \/ \E t \in Requests : Step(t) \/ Starts(t) \/ Throws(t)
    \/ \E k \in Keys : Lapse(k) \/ Invalidate(k)
    \/ Crash \/ Evening \/ Midnight

Spec == Init /\ [][Next]_vars

\* Requests go on and entries lapse; nothing is owed by the people.
FairSpec ==
    /\ Spec
    /\ \A t \in Requests : WF_vars(Step(t))
    /\ \A k \in Keys : WF_vars(Lapse(k))

-----------------------------------------------------------------------------
\* The variables keep their types; a view of surveys is cached as counts, the
\* profile as a picture.
TypeOK ==
    /\ surveys \in [0 .. LastDay -> [Ratings -> Nat]]
    /\ picture \in Nat
    /\ today \in 0 .. LastDay
    /\ evening \in BOOLEAN
    /\ cache["survey"] \in [Ratings -> Nat] \union {None}
    /\ cache["profile"] \in Int \union {None}
    /\ \A t \in Requests :
          /\ request[t].at \in Labels
          /\ request[t].key \in Keys
          /\ request[t].crossed \in BOOLEAN
    /\ missed \subseteq Keys

\* A cached view is what would be computed now, or the deletion that follows
\* the change is on its way, or the entry was computed before the change and
\* stored after the deletion, or without the picture, or the deletion failed
\* (dashboard.service.ts:23-103, admin.service.ts:16-54, and the order of
\* conversation-flow.service.ts:299-303).
StaleOnlyIfMissed ==
    \A k \in Keys :
       cache[k] # None /\ cache[k] # Current[k]
       => \/ k \in missed
          \/ \E t \in Requests : request[t].at = "delete" /\ request[t].key = k

\* The live average is between the worst and the best rating although the
\* total and each rating are counted at different moments
\* (dashboard.service.ts:105-143).
AverageInRange ==
    \A t \in Requests : request[t].at = "stats" =>
       LET v == request[t].value
       IN SumOver(v) > 0 => AverageRating(v) \in 100 .. 300

\* Every day a trend of two days or more lists has all its surveys, and the
\* day of the query is listed, although the list is made of UTC dates and
\* the clock is read three times (dashboard.service.ts:145-202).
TrendIsComplete ==
    \A t \in Requests : request[t].at = "trend" /\ TrendDays >= 2 =>
       LET v == request[t].value
       IN /\ v.day \in DOMAIN v.listed
          /\ \A d \in DOMAIN v.listed :
                v.listed[d] = IF d \in DOMAIN v.found THEN v.found[d] ELSE 0

\* Once nothing changes, and no further entry is missed, the cached views
\* become current and stay so, whatever was stored before.
CacheSettles ==
    <>[][/\ UNCHANGED <<surveys, picture>>
         /\ missed' \subseteq missed]_vars
    => <>[](\A k \in Keys : cache[k] # None => cache[k] = Current[k])
=============================================================================
