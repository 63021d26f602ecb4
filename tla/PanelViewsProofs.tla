-------------------------- MODULE PanelViewsProofs --------------------------
(***************************************************************************)
(* Proofs about PanelViews for any number of requests, any ratings, bounds *)
(* and faults.                                                             *)
(*                                                                         *)
(* What has been computed and not yet stored is current, or marked as      *)
(* crossed by the change that made it old.  Then the trend, sums, and the  *)
(* types, on which the range of the average rests.                         *)
(***************************************************************************)
EXTENDS PanelViews, FiniteSetTheorems, TLAPS

IsRequest(r) ==
    /\ r = [at |-> r.at, key |-> r.key, value |-> r.value,
            crossed |-> r.crossed]
    /\ r.key \in Keys
    /\ r.crossed \in BOOLEAN

RequestOK(r) ==
    /\ IsRequest(r)
    /\ r.at = "set" /\ ~r.crossed => r.value = Current[r.key]

Mappings ==
    /\ cache = [k \in Keys |-> cache[k]]
    /\ request = [t \in Requests |-> request[t]]

IInv ==
    /\ Mappings
    /\ \A t \in Requests : RequestOK(request[t])
    /\ StaleOnlyIfMissed

-----------------------------------------------------------------------------
(***************************************************************************)
(* What a change leaves as it was.                                         *)
(***************************************************************************)
LEMMA SameSurveys ==
    ASSUME UNCHANGED surveys
    PROVE  (Current["survey"])' = Current["survey"]
<1>1. \A r \in Ratings : RatingCount(r)' = RatingCount(r)
  BY DEF RatingCount
<1>2. QED
  BY <1>1 DEF Current, Keys, Analytics

LEMMA SamePicture ==
    ASSUME UNCHANGED picture
    PROVE  (Current["profile"])' = Current["profile"]
BY DEF Current, Keys

LEMMA SameViews ==
    ASSUME UNCHANGED <<surveys, picture>>
    PROVE  \A k \in Keys : (Current[k])' = Current[k]
BY SameSurveys, SamePicture DEF Keys

LEMMA IdleIsRequest == RequestOK(Idle) /\ Idle.at = "idle"
BY DEF Idle, RequestOK, IsRequest, Keys

-----------------------------------------------------------------------------
(***************************************************************************)
(* Steps that touch no entry: a request goes on to something that is right *)
(* to store, and no deletion is lost.                                      *)
(***************************************************************************)
LEMMA OnlyRequest ==
    ASSUME IInv, NEW t \in Requests, NEW q, Become(t, q), RequestOK(q),
           request[t].at # "delete",
           UNCHANGED <<surveys, picture, cache, missed>>
    PROVE  IInv'
<1>1. /\ request'[t] = q
      /\ \A s \in Requests \ {t} : request'[s] = request[s]
      /\ Mappings'
  BY DEF IInv, Mappings, Become
<1>2. \A k \in Keys : (Current[k])' = Current[k]
  BY SameViews
<1>3. ASSUME NEW s \in Requests PROVE RequestOK(request[s])'
  BY <1>1, <1>2 DEF IInv, RequestOK, IsRequest
<1>4. StaleOnlyIfMissed'
  BY <1>1, <1>2 DEF IInv, StaleOnlyIfMissed
<1>5. QED
  BY <1>1, <1>3, <1>4 DEF IInv

\* A request that goes on to something else than storing.
LEMMA GoesOn ==
    ASSUME IInv, NEW t \in Requests, NEW q, Become(t, q), IsRequest(q),
           q.at # "set", request[t].at # "delete",
           UNCHANGED <<surveys, picture, cache, missed>>
    PROVE  IInv'
BY OnlyRequest DEF RequestOK

LEMMA Ends ==
    ASSUME IInv, NEW t \in Requests, End(t), request[t].at # "delete",
           UNCHANGED <<surveys, picture, cache, missed>>
    PROVE  IInv'
BY OnlyRequest, IdleIsRequest DEF End

-----------------------------------------------------------------------------
(***************************************************************************)
(* The cached views.                                                       *)
(***************************************************************************)
LEMMA Views ==
    ASSUME IInv, NEW t \in Requests, NEW k \in Keys, View(t, k)
    PROVE  IInv'
<1> PICK q : q = [Idle EXCEPT !.at = "compute", !.key = k]
  OBVIOUS
<1>1. IsRequest(q) /\ q.at = "compute"
  BY DEF Idle, IsRequest
<1>2. /\ Become(t, q) /\ request[t] = Idle
      /\ UNCHANGED <<surveys, picture, cache, missed>>
  BY DEF View, Start
<1>3. QED
  BY <1>1, <1>2, GoesOn, IdleIsRequest

LEMMA Computes ==
    ASSUME IInv, NEW t \in Requests, Compute(t)
    PROVE  IInv'
<1>1. request[t].at = "compute" /\ UNCHANGED <<surveys, picture, cache, missed>>
  BY DEF Compute
<1>2. IsRequest(request[t])
  BY DEF IInv, RequestOK
<1>3. ASSUME NEW q, q = [request[t] EXCEPT !.at = "set",
                           !.value = Current[request[t].key], !.crossed = FALSE],
             Become(t, q)
      PROVE  IInv'
  <2>1. RequestOK(q)
    BY <1>2, <1>3 DEF IsRequest, RequestOK
  <2>2. QED
    BY <1>1, <1>3, <2>1, OnlyRequest
<1>4. ASSUME NEW q, q = [request[t] EXCEPT !.at = "set", !.value = -1,
                                           !.crossed = TRUE],
             Become(t, q)
      PROVE  IInv'
  <2>1. RequestOK(q)
    BY <1>2, <1>4 DEF IsRequest, RequestOK
  <2>2. QED
    BY <1>1, <1>4, <2>1, OnlyRequest
<1>5. \/ Become(t, [request[t] EXCEPT !.at = "set",
                       !.value = Current[request[t].key], !.crossed = FALSE])
      \/ Become(t, [request[t] EXCEPT !.at = "set", !.value = -1,
                       !.crossed = TRUE])
  BY Zenon DEF Compute
<1>6. QED
  BY <1>3, <1>4, <1>5, Zenon

LEMMA Stores ==
    ASSUME IInv, NEW t \in Requests, Store(t)
    PROVE  IInv'
<1> DEFINE r == request[t]
<1>1. /\ r.at = "set" /\ r.key \in Keys
      /\ ~r.crossed => r.value = Current[r.key]
      /\ cache' = [cache EXCEPT ![r.key] = r.value]
      /\ missed' = IF r.crossed THEN missed \union {r.key} ELSE missed \ {r.key}
      /\ Become(t, Idle) /\ UNCHANGED <<surveys, picture>>
  BY DEF IInv, RequestOK, IsRequest, Store, End
<1>2. /\ request'[t] = Idle
      /\ \A s \in Requests \ {t} : request'[s] = request[s]
      /\ cache'[r.key] = r.value
      /\ \A k \in Keys \ {r.key} : cache'[k] = cache[k]
      /\ Mappings'
  BY <1>1 DEF IInv, Mappings, Become
<1>3. \A k \in Keys : (Current[k])' = Current[k]
  BY <1>1, SameViews
<1>4. ASSUME NEW s \in Requests PROVE RequestOK(request[s])'
  BY <1>2, <1>3, IdleIsRequest DEF IInv, RequestOK, IsRequest
<1>5. StaleOnlyIfMissed'
  <2> SUFFICES ASSUME NEW k \in Keys, cache'[k] # None,
                      cache'[k] # Current[k]'
               PROVE  \/ k \in missed'
                      \/ \E s \in Requests : /\ request'[s].at = "delete"
                                             /\ request'[s].key = k
    BY DEF StaleOnlyIfMissed
  <2>1. CASE k = r.key
    BY <1>1, <1>2, <1>3, <2>1
  <2>2. CASE k # r.key
    BY <1>1, <1>2, <1>3, <2>2 DEF IInv, StaleOnlyIfMissed
  <2>3. QED
    BY <2>1, <2>2
<1>6. QED
  BY <1>2, <1>4, <1>5 DEF IInv

\* An entry that goes away takes its deletion with it.
LEMMA Drops ==
    ASSUME IInv, NEW k \in Keys, Drop(k),
           request' = [t \in Requests |-> request'[t]],
           \A t \in Requests :
              \/ request'[t] = request[t]
              \/ request'[t] = Idle /\ request[t].at = "delete" /\ request[t].key = k
    PROVE  IInv'
<1>1. /\ cache' = [cache EXCEPT ![k] = None] /\ missed' = missed \ {k}
      /\ UNCHANGED <<surveys, picture>>
  BY DEF Drop
<1>2. \A l \in Keys : (Current[l])' = Current[l]
  BY <1>1, SameViews
<1>3. /\ cache'[k] = None
      /\ \A l \in Keys \ {k} : cache'[l] = cache[l]
      /\ Mappings'
  BY <1>1 DEF IInv, Mappings
<1>4. ASSUME NEW s \in Requests PROVE RequestOK(request[s])'
  <2>1. CASE request'[s] = request[s]
    BY <1>2, <2>1 DEF IInv, RequestOK, IsRequest
  <2>2. CASE request'[s] = Idle
    BY <2>2, IdleIsRequest DEF RequestOK, IsRequest
  <2>3. QED
    BY <2>1, <2>2
<1>5. StaleOnlyIfMissed'
  BY <1>1, <1>2, <1>3 DEF IInv, StaleOnlyIfMissed
<1>6. QED
  BY <1>3, <1>4, <1>5 DEF IInv

LEMMA Deletes ==
    ASSUME IInv, NEW t \in Requests, Delete(t)
    PROVE  IInv'
<1>1. request[t].at = "delete" /\ request[t].key \in Keys
  BY DEF IInv, RequestOK, IsRequest, Delete
<1>2. Drop(request[t].key) /\ Become(t, Idle)
  BY DEF Delete, End
<1>3. /\ request' = [s \in Requests |-> request'[s]]
      /\ request'[t] = Idle
      /\ \A s \in Requests \ {t} : request'[s] = request[s]
  BY <1>2 DEF IInv, Mappings, Become
<1>4. QED
  BY <1>1, <1>2, <1>3, Drops

-----------------------------------------------------------------------------
(***************************************************************************)
(* Changes: every entry of the view is then on its way out.                *)
(***************************************************************************)
LEMMA Changes ==
    ASSUME IInv, NEW t \in Requests, NEW k \in Keys,
           request[t] = Idle, Crossing(t, k, Deleting(k)),
           UNCHANGED <<cache, missed>>,
           \A l \in Keys \ {k} : (Current[l])' = Current[l]
    PROVE  IInv'
<1>1. Deleting(k).at = "delete" /\ Deleting(k).key = k /\ IsRequest(Deleting(k))
  <2> PICK q : q = [Idle EXCEPT !.at = "delete", !.key = k]
    OBVIOUS
  <2>1. q.at = "delete" /\ q.key = k /\ IsRequest(q)
    BY DEF Idle, IsRequest
  <2>2. QED
    BY <2>1 DEF Deleting
<1>2. /\ request'[t] = Deleting(k)
      /\ \A s \in Requests \ {t} :
            \/ request'[s] = request[s] /\ ~(request[s].at = "set" /\ request[s].key = k)
            \/ request'[s] = [request[s] EXCEPT !.crossed = TRUE]
               /\ request[s].at = "set"
      /\ Mappings'
  BY DEF Crossing, IInv, Mappings
<1>3. \A s \in Requests : IsRequest(request[s]) /\ RequestOK(request[s])
  BY DEF IInv, RequestOK
<1>4. ASSUME NEW s \in Requests PROVE RequestOK(request[s])'
  <2>1. CASE s = t
    BY <1>1, <1>2, <2>1 DEF RequestOK, IsRequest
  <2>2. CASE s # t /\ request'[s] = request[s]
                   /\ ~(request[s].at = "set" /\ request[s].key = k)
    BY <1>3, <2>2 DEF RequestOK, IsRequest
  <2>3. CASE request'[s] = [request[s] EXCEPT !.crossed = TRUE]
    <3>1. IsRequest(request'[s]) /\ request'[s].crossed
      BY <1>3, <2>3 DEF IsRequest
    <3>2. QED
      BY <3>1 DEF RequestOK, IsRequest
  <2>4. QED
    BY <1>2, <2>1, <2>2, <2>3
<1>5. \A s \in Requests : request[s].at = "delete" => request'[s] = request[s]
  BY <1>2, IdleIsRequest
<1>6. StaleOnlyIfMissed'
  <2> SUFFICES ASSUME NEW l \in Keys, cache'[l] # None,
                      cache'[l] # Current[l]'
               PROVE  \/ l \in missed'
                      \/ \E s \in Requests : /\ request'[s].at = "delete"
                                             /\ request'[s].key = l
    BY DEF StaleOnlyIfMissed
  <2>1. CASE l = k
    BY <1>1, <1>2, <2>1
  <2>2. CASE l # k
    BY <1>5, <2>2 DEF IInv, StaleOnlyIfMissed
  <2>3. QED
    BY <2>1, <2>2
<1>7. QED
  BY <1>2, <1>4, <1>6 DEF IInv

LEMMA Rates ==
    ASSUME IInv, NEW t \in Requests, NEW r \in Ratings, Rate(t, r)
    PROVE  IInv'
<1>1. (Current["profile"])' = Current["profile"]
  BY SamePicture DEF Rate
<1>2. QED
  BY <1>1, Changes DEF Rate, Keys

LEMMA ChangesPicture ==
    ASSUME IInv, NEW t \in Requests, ChangePicture(t)
    PROVE  IInv'
<1>1. (Current["survey"])' = Current["survey"]
  BY SameSurveys DEF ChangePicture
<1>2. QED
  BY <1>1, Changes DEF ChangePicture, Keys

-----------------------------------------------------------------------------
(***************************************************************************)
(* Statistics and trends store nothing.                                    *)
(***************************************************************************)
LEMMA Reads ==
    ASSUME IInv, NEW t \in Requests,
           \/ AskStats(t) \/ Count(t) \/ AskTrend(t) \/ QueryTrend(t)
           \/ FormatTrend(t) \/ Answer(t)
    PROVE  IInv'
<1>0. IsRequest(request[t])
  BY DEF IInv, RequestOK
<1>1. UNCHANGED <<surveys, picture, cache, missed>>
  BY DEF AskStats, Count, AskTrend, QueryTrend, FormatTrend, Answer
<1>2. request[t].at # "delete"
  BY IdleIsRequest
  DEF AskStats, Count, AskTrend, QueryTrend, FormatTrend, Answer, Start
<1>3. ASSUME NEW a \in {"count", "query"}, NEW v,
             NEW q, q = [Idle EXCEPT !.at = a, !.value = v], Become(t, q)
      PROVE  IInv'
  <2>1. IsRequest(q) /\ q.at # "set"
    BY <1>3 DEF Idle, IsRequest, Keys
  <2>2. QED
    BY <1>1, <1>2, <1>3, <2>1, GoesOn
<1>4. ASSUME NEW a \in {"count", "stats", "format", "trend"}, NEW v,
             NEW q, q = [request[t] EXCEPT !.at = a, !.value = v], Become(t, q)
      PROVE  IInv'
  <2>1. IsRequest(q) /\ q.at # "set"
    BY <1>0, <1>4 DEF IsRequest
  <2>2. QED
    BY <1>1, <1>2, <1>4, <2>1, GoesOn
<1>5. CASE AskStats(t)
  BY <1>3, <1>5, Zenon DEF AskStats, Start
<1>6. CASE AskTrend(t)
  BY <1>3, <1>6, Zenon DEF AskTrend, Start
<1>7. CASE Count(t)
  <2>1. PICK c \in Counted :
           LET value == [request[t].value EXCEPT ![c] =
                            IF c = "total" THEN Total ELSE RatingCount(c)]
           IN Become(t, [request[t] EXCEPT
                           !.at = IF \E d \in Counted : value[d] = None
                                  THEN "count" ELSE "stats",
                           !.value = value])
    BY <1>7, Zenon DEF Count
  <2> DEFINE value == [request[t].value EXCEPT ![c] =
                          IF c = "total" THEN Total ELSE RatingCount(c)]
             a == IF \E d \in Counted : value[d] = None
                  THEN "count" ELSE "stats"
  <2>2. a \in {"count", "stats", "format", "trend"}
    OBVIOUS
  <2>3. Become(t, [request[t] EXCEPT !.at = a, !.value = value])
    BY <2>1, Zenon
  <2> HIDE DEF a, value
  <2>4. QED
    BY <1>4, <2>2, <2>3, Zenon
<1>8. CASE QueryTrend(t)
  BY <1>4, <1>8, Zenon DEF QueryTrend
<1>9. CASE FormatTrend(t)
  BY <1>4, <1>9, Zenon DEF FormatTrend
<1>10. CASE Answer(t)
  BY <1>1, <1>2, <1>10, Ends DEF Answer
<1>11. QED
  BY <1>5, <1>6, <1>7, <1>8, <1>9, <1>10

-----------------------------------------------------------------------------
(***************************************************************************)
(* Errors, restarts and time.                                              *)
(***************************************************************************)
LEMMA Errors ==
    ASSUME IInv, NEW t \in Requests, Throws(t)
    PROVE  IInv'
<1>1. /\ Become(t, Idle) /\ UNCHANGED <<surveys, picture, cache>>
      /\ missed' = IF request[t].at = "delete"
                   THEN missed \union {request[t].key} ELSE missed
  BY DEF Throws, End
<1>2. /\ request'[t] = Idle
      /\ \A s \in Requests \ {t} : request'[s] = request[s]
      /\ Mappings'
  BY <1>1 DEF IInv, Mappings, Become
<1>3. \A k \in Keys : (Current[k])' = Current[k]
  BY <1>1, SameViews
<1>4. ASSUME NEW s \in Requests PROVE RequestOK(request[s])'
  BY <1>2, <1>3, IdleIsRequest DEF IInv, RequestOK, IsRequest
<1>5. StaleOnlyIfMissed'
  BY <1>1, <1>2, <1>3 DEF IInv, StaleOnlyIfMissed
<1>6. QED
  BY <1>2, <1>4, <1>5 DEF IInv

LEMMA Crashes ==
    ASSUME IInv, Crash
    PROVE  IInv'
<1>1. /\ request' = [t \in Requests |-> Idle]
      /\ UNCHANGED <<surveys, picture>>
      /\ \/ cache' = [k \in Keys |-> None]
         \/ /\ cache' = cache
            /\ missed' = missed \union
                  {request[t].key : t \in {u \in Requests :
                                             request[u].at = "delete"}}
  BY DEF Crash
<1>2. Mappings'
  BY <1>1 DEF IInv, Mappings
<1>3. \A k \in Keys : (Current[k])' = Current[k]
  BY <1>1, SameViews
<1>4. ASSUME NEW s \in Requests PROVE RequestOK(request[s])'
  <2>1. request'[s] = Idle
    BY <1>1
  <2>2. QED
    BY <2>1, IdleIsRequest DEF RequestOK, IsRequest
<1>5. StaleOnlyIfMissed'
  BY <1>1, <1>3 DEF IInv, StaleOnlyIfMissed
<1>6. QED
  BY <1>2, <1>4, <1>5 DEF IInv

LEMMA Untouched ==
    ASSUME IInv, UNCHANGED <<surveys, picture, cache, request, missed>>
    PROVE  IInv'
<1>1. \A k \in Keys : (Current[k])' = Current[k]
  BY SameViews
<1>2. QED
  BY <1>1 DEF IInv, Mappings, RequestOK, IsRequest, StaleOnlyIfMissed

LEMMA Invalidates ==
    ASSUME IInv, NEW k \in Keys, Lapse(k) \/ Invalidate(k)
    PROVE  IInv'
<1>1. Drop(k) /\ UNCHANGED request
  BY DEF Lapse, Invalidate
<1>2. QED
  BY <1>1, Drops DEF IInv, Mappings

-----------------------------------------------------------------------------
LEMMA Starting == Init => IInv
BY IdleIsRequest
DEF Init, IInv, Mappings, RequestOK, IsRequest, StaleOnlyIfMissed

LEMMA Stepping == IInv /\ [Next]_vars => IInv'
<1> SUFFICES ASSUME IInv, [Next]_vars PROVE IInv'
  OBVIOUS
<1>1. ASSUME NEW t \in Requests, Step(t) PROVE IInv'
  BY <1>1, Computes, Stores, Deletes, Reads DEF Step
<1>2. ASSUME NEW t \in Requests, Starts(t) PROVE IInv'
  BY <1>2, Views, Rates, ChangesPicture, Reads DEF Starts
<1>3. CASE Evening \/ Midnight \/ UNCHANGED vars
  BY <1>3, Untouched DEF Evening, Midnight, vars
<1>4. QED
  BY <1>1, <1>2, <1>3, Errors, Crashes, Invalidates DEF Next

\* A cached view of the panel is current, or its deletion is on its way, or
\* it is known why it was missed, however requests, invalidations, errors
\* and restarts interleave (dashboard.service.ts:23-103,
\* admin.service.ts:16-54).
THEOREM NothingStaleUnnoticed == Spec => []StaleOnlyIfMissed
<1>1. IInv => StaleOnlyIfMissed
  BY DEF IInv
<1>2. QED
  BY <1>1, Starting, Stepping, PTL DEF Spec

-----------------------------------------------------------------------------
(***************************************************************************)
(* The trend.  What a request has read so far fits the clock: it counts    *)
(* from a day that no list to come goes back to, and a request that has    *)
(* its counts is formatted on the day of its query, or on the next one     *)
(* before the evening.                                                     *)
(***************************************************************************)
Complete(v) ==
    /\ v.day \in DOMAIN v.listed
    /\ \A d \in DOMAIN v.listed :
          v.listed[d] = IF d \in DOMAIN v.found THEN v.found[d] ELSE 0

TrendOK(r) ==
    /\ r.at = "query" =>
          r.value \in Int /\ r.value <= today - TrendDays
    /\ r.at = "format" =>
          /\ r.value.from \in Int /\ r.value.from <= today - TrendDays
          /\ \/ r.value.day = today
             \/ r.value.day = today - 1 /\ ~evening
    /\ r.at = "trend" /\ TrendDays >= 2 => Complete(r.value)

TrendInv ==
    /\ today \in Int
    /\ \A t \in Requests : TrendOK(request[t])

LEMMA TrendMoves ==
    ASSUME IInv, TrendInv, NEW t \in Requests, NEW q, Become(t, q),
           TrendOK(q), UNCHANGED clock
    PROVE  TrendInv'
<1>1. /\ request'[t] = q
      /\ \A s \in Requests \ {t} : request'[s] = request[s]
  BY DEF IInv, Mappings, Become
<1>2. today' = today /\ evening' = evening
  BY DEF clock
<1>3. ASSUME NEW s \in Requests PROVE TrendOK(request[s])'
  BY <1>1, <1>2, <1>3 DEF TrendInv, TrendOK, Complete
<1> QED
  BY <1>2, <1>3 DEF TrendInv

\* A step that brings no request nearer to a trend.
LEMMA TrendAround ==
    ASSUME TrendInv, UNCHANGED clock,
           \A s \in Requests : \/ request'[s] = request[s]
                               \/ request'[s].at \notin
                                     {"query", "format", "trend"}
    PROVE  TrendInv'
<1>1. today' = today /\ evening' = evening
  BY DEF clock
<1>2. ASSUME NEW s \in Requests PROVE TrendOK(request[s])'
  BY <1>1 DEF TrendInv, TrendOK, Complete
<1> QED
  BY <1>1, <1>2 DEF TrendInv

LEMMA TrendEnds ==
    ASSUME IInv, TrendInv, NEW t \in Requests, End(t), UNCHANGED clock
    PROVE  TrendInv'
<1>1. TrendOK(Idle)
  BY DEF TrendOK, Idle
<1> QED
  BY <1>1, TrendMoves DEF End

LEMMA TrendAsked ==
    ASSUME IInv, TrendInv, NEW t \in Requests, AskTrend(t) \/ QueryTrend(t)
    PROVE  TrendInv'
<1>0. IsRequest(request[t]) /\ TrendOK(request[t]) /\ today \in Int
      /\ TrendDays \in Int
  BY DaysAssumption DEF IInv, RequestOK, TrendInv
<1>1. CASE AskTrend(t)
  <2>1. PICK q : q = [Idle EXCEPT !.at = "query", !.value = StartDate(today)]
    OBVIOUS
  <2>2. q.at = "query" /\ q.value = today - TrendDays
    BY <2>1 DEF Idle, StartDate
  <2>3. TrendOK(q)
    BY <1>0, <2>2 DEF TrendOK
  <2> QED
    BY <1>1, <2>1, <2>3, TrendMoves DEF AskTrend, Start
<1>2. CASE QueryTrend(t)
  <2>1. PICK v : v = [from |-> request[t].value, found |-> DayCounts,
                      day |-> today]
    OBVIOUS
  <2>2. PICK q : q = [request[t] EXCEPT !.at = "format", !.value = v]
    OBVIOUS
  <2>3. q.at = "format" /\ q.value = v
    BY <1>0, <2>2 DEF IsRequest
  <2>4. v.from = request[t].value /\ v.day = today
    BY <2>1
  <2>5. TrendOK(q)
    BY <1>0, <1>2, <2>3, <2>4 DEF TrendOK, QueryTrend
  <2>6. Become(t, q) /\ UNCHANGED clock
    BY <1>2, <2>1, <2>2 DEF QueryTrend
  <2> QED
    BY <2>5, <2>6, TrendMoves
<1> QED
  BY <1>1, <1>2

\* formatTrendData lists no day before those that were counted, and the day
\* of the query (dashboard.service.ts:145-202).
LEMMA TrendFormatted ==
    ASSUME IInv, TrendInv, NEW t \in Requests, FormatTrend(t)
    PROVE  TrendInv'
<1>0. /\ IsRequest(request[t]) /\ TrendOK(request[t]) /\ today \in Int
      /\ TrendDays \in Int /\ TrendDays >= 1 /\ request[t].at = "format"
  BY DaysAssumption DEF IInv, RequestOK, TrendInv, FormatTrend
<1>1. PICK v : v = request[t].value
  OBVIOUS
<1>2. PICK last : last = IF evening THEN today + 1 ELSE today
  OBVIOUS
<1>3. PICK listed :
         listed = [d \in last - TrendDays + 1 .. last |->
                      IF d >= v.from /\ d \in DOMAIN v.found
                      THEN v.found[d] ELSE 0]
  OBVIOUS
<1>4. PICK w : w = [listed |-> listed, found |-> v.found, day |-> v.day]
  OBVIOUS
<1>5. PICK q : q = [request[t] EXCEPT !.at = "trend", !.value = w]
  OBVIOUS
<1>6. Become(t, q) /\ UNCHANGED clock
  BY <1>1, <1>2, <1>3, <1>4, <1>5 DEF FormatTrend
<1>7. q.at = "trend" /\ q.value = w
  BY <1>0, <1>5 DEF IsRequest
<1>8. w.listed = listed /\ w.found = v.found /\ w.day = v.day
  BY <1>4
<1>9. /\ v.from \in Int /\ v.from <= today - TrendDays
      /\ \/ v.day = today
         \/ v.day = today - 1 /\ ~evening
  BY <1>0, <1>1 DEF TrendOK
<1>10. last \in Int /\ today <= last
  BY <1>0, <1>2
<1>11. DOMAIN listed = last - TrendDays + 1 .. last
  BY <1>3
<1>12. ASSUME NEW d \in last - TrendDays + 1 .. last
       PROVE  listed[d] = IF d \in DOMAIN v.found THEN v.found[d] ELSE 0
  <2>1. d >= v.from
    BY <1>0, <1>9, <1>10
  <2> QED
    BY <1>3, <2>1
<1>13. TrendDays >= 2 => v.day \in last - TrendDays + 1 .. last
  <2>1. CASE v.day = today
    BY <1>0, <1>2, <2>1
  <2>2. CASE v.day = today - 1 /\ ~evening
    BY <1>0, <1>2, <2>2
  <2> QED
    BY <1>9, <2>1, <2>2
<1>14. TrendDays >= 2 => Complete(w)
  BY <1>8, <1>11, <1>12, <1>13 DEF Complete
<1>15. TrendOK(q)
  BY <1>7, <1>14 DEF TrendOK
<1> QED
  BY <1>6, <1>15, TrendMoves

\* Statistics and the cached views have nothing to do with it.
LEMMA TrendElsewhere ==
    ASSUME IInv, TrendInv, NEW t \in Requests,
           \/ Compute(t) \/ Store(t) \/ Delete(t) \/ Count(t) \/ Answer(t)
           \/ Throws(t) \/ AskStats(t) \/ ChangePicture(t)
           \/ \E k \in Keys : View(t, k)
           \/ \E r \in Ratings : Rate(t, r)
    PROVE  TrendInv'
<1>0. /\ IsRequest(request[t])
      /\ \A s \in Requests : IsRequest(request[s])
  BY DEF IInv, RequestOK
<1>1. CASE Store(t) \/ Delete(t) \/ Answer(t) \/ Throws(t)
  BY <1>1, TrendEnds DEF Store, Delete, Drop, Answer, Throws
<1>2. ASSUME NEW q, Become(t, q), q.at \notin {"query", "format", "trend"},
             UNCHANGED clock
      PROVE  TrendInv'
  BY <1>2, TrendMoves DEF TrendOK
<1>3. CASE Compute(t)
  <2>1. PICK v, c : Become(t, [request[t] EXCEPT !.at = "set", !.value = v,
                                                 !.crossed = c])
    BY <1>3, Zenon DEF Compute
  <2>2. PICK q : q = [request[t] EXCEPT !.at = "set", !.value = v,
                                        !.crossed = c]
    OBVIOUS
  <2>3. q.at = "set"
    BY <1>0, <2>2 DEF IsRequest
  <2> QED
    BY <1>2, <1>3, <2>1, <2>2, <2>3 DEF Compute
<1>4. CASE Count(t)
  <2>1. PICK c, v :
           Become(t, [request[t] EXCEPT
                        !.at = IF \E d \in Counted : v[d] = None
                               THEN "count" ELSE "stats",
                        !.value = v])
    BY <1>4, Zenon DEF Count
  <2>2. PICK q : q = [request[t] EXCEPT
                        !.at = IF \E d \in Counted : v[d] = None
                               THEN "count" ELSE "stats",
                        !.value = v]
    OBVIOUS
  <2>3. q.at \in {"count", "stats"}
    BY <1>0, <2>2 DEF IsRequest
  <2> QED
    BY <1>2, <1>4, <2>1, <2>2, <2>3 DEF Count
<1>5. CASE AskStats(t)
  <2>1. PICK v : Become(t, [Idle EXCEPT !.at = "count", !.value = v])
    BY <1>5, Zenon DEF AskStats, Start
  <2>2. PICK q : q = [Idle EXCEPT !.at = "count", !.value = v]
    OBVIOUS
  <2>3. q.at = "count"
    BY <2>2 DEF Idle
  <2> QED
    BY <1>2, <1>5, <2>1, <2>2, <2>3 DEF AskStats
<1>6. ASSUME NEW k \in Keys, View(t, k)
      PROVE  TrendInv'
  <2>1. PICK q : q = [Idle EXCEPT !.at = "compute", !.key = k]
    OBVIOUS
  <2>2. q.at = "compute"
    BY <2>1 DEF Idle
  <2> QED
    BY <1>2, <1>6, <2>1, <2>2 DEF View, Start
<1>7. ASSUME NEW k \in Keys, Crossing(t, k, Deleting(k)), UNCHANGED clock
      PROVE  TrendInv'
  <2>1. Deleting(k).at = "delete"
    BY DEF Deleting, Idle
  <2>2. ASSUME NEW s \in Requests
        PROVE  \/ request'[s] = request[s]
               \/ request'[s].at \notin {"query", "format", "trend"}
    <3>1. CASE s = t
      BY <1>7, <2>1, <3>1 DEF Crossing
    <3>2. CASE s # t /\ request[s].at = "set" /\ request[s].key = k
      <4>1. request'[s] = [request[s] EXCEPT !.crossed = TRUE]
        BY <1>7, <3>2 DEF Crossing
      <4>2. request'[s].at = "set"
        BY <1>0, <3>2, <4>1 DEF IsRequest
      <4> QED
        BY <4>2
    <3>3. CASE s # t /\ ~(request[s].at = "set" /\ request[s].key = k)
      BY <1>7, <3>3 DEF Crossing
    <3> QED
      BY <3>1, <3>2, <3>3
  <2> QED
    BY <1>7, <2>2, TrendAround
<1>8. CASE ChangePicture(t)
  BY <1>7, <1>8 DEF ChangePicture, Keys
<1>9. ASSUME NEW r \in Ratings, Rate(t, r)
      PROVE  TrendInv'
  BY <1>7, <1>9 DEF Rate, Keys
<1> QED
  BY <1>1, <1>3, <1>4, <1>5, <1>6, <1>8, <1>9

\* Time goes on: from an evening to the next midnight no trend is older than
\* the day (dashboard.service.ts:145-202).
LEMMA TrendTime ==
    ASSUME TrendInv, Evening \/ Midnight
    PROVE  TrendInv'
<1>0. today \in Int /\ TrendDays \in Int
  BY DaysAssumption DEF TrendInv
<1>1. CASE Evening
  <2>1. today' = today /\ request' = request
        /\ \A t \in Requests : request[t].at = "format" =>
                                  request[t].value.day = today
    BY <1>1 DEF Evening
  <2>2. ASSUME NEW s \in Requests PROVE TrendOK(request[s])'
    BY <2>1 DEF TrendInv, TrendOK, Complete
  <2> QED
    BY <1>0, <2>1, <2>2 DEF TrendInv
<1>2. CASE Midnight
  <2>1. today' = today + 1 /\ request' = request /\ evening /\ ~evening'
    BY <1>2 DEF Midnight
  <2>2. ASSUME NEW s \in Requests PROVE TrendOK(request[s])'
    <3>1. TrendOK(request[s])
      BY DEF TrendInv
    <3>2. PICK r : r = request[s]
      OBVIOUS
    <3>3. r.at = "query" =>
             r.value \in Int /\ r.value <= today' - TrendDays
      BY <1>0, <2>1, <3>1, <3>2 DEF TrendOK
    <3>4. r.at = "format" =>
             /\ r.value.from \in Int /\ r.value.from <= today' - TrendDays
             /\ r.value.day = today' - 1
      BY <1>0, <2>1, <3>1, <3>2 DEF TrendOK
    <3>5. r.at = "trend" /\ TrendDays >= 2 => Complete(r.value)
      BY <3>1, <3>2 DEF TrendOK
    <3> QED
      BY <2>1, <3>2, <3>3, <3>4, <3>5 DEF TrendOK, Complete
  <2> QED
    BY <1>0, <2>1, <2>2 DEF TrendInv
<1> QED
  BY <1>1, <1>2

LEMMA TrendNext == IInv /\ TrendInv /\ [Next]_vars => TrendInv'
<1> SUFFICES ASSUME IInv, TrendInv, [Next]_vars PROVE TrendInv'
  OBVIOUS
<1>1. ASSUME NEW t \in Requests, Step(t) \/ Starts(t) \/ Throws(t)
      PROVE  TrendInv'
  BY <1>1, TrendAsked, TrendFormatted, TrendElsewhere DEF Step, Starts
<1>2. CASE (\E k \in Keys : Lapse(k) \/ Invalidate(k)) \/ UNCHANGED vars
  <2>1. UNCHANGED <<clock, request>>
    BY <1>2 DEF Lapse, Invalidate, Drop, vars, clock
  <2> QED
    BY <2>1, TrendAround
<1>3. CASE Crash
  <2>1. UNCHANGED clock
    BY <1>3 DEF Crash
  <2>2. \A s \in Requests : request'[s].at = "idle"
    BY <1>3 DEF Crash, Idle
  <2> QED
    BY <2>1, <2>2, TrendAround
<1> QED
  BY <1>1, <1>2, <1>3, TrendTime DEF Next

LEMMA TrendInit == Init => TrendInv
<1> SUFFICES ASSUME Init PROVE TrendInv
  OBVIOUS
<1>1. today = 0 /\ \A t \in Requests : request[t].at = "idle"
  BY DEF Init, Idle
<1> QED
  BY <1>1 DEF TrendInv, TrendOK

\* A trend of two days or more lists every survey of the days it lists, and
\* the day of the query is one of them, although the list is made of UTC
\* dates and the clock is read three times (dashboard.service.ts:145-202):
\* whatever happens between the three, for any length of the trend.
THEOREM TrendsAreComplete == Spec => []TrendIsComplete
<1>1. Init => IInv /\ TrendInv
  BY Starting, TrendInit
<1>2. IInv /\ TrendInv /\ [Next]_vars => (IInv /\ TrendInv)'
  BY Stepping, TrendNext
<1>3. TrendInv => TrendIsComplete
  BY DEF TrendInv, TrendOK, Complete, TrendIsComplete
<1> QED
  BY <1>1, <1>2, <1>3, PTL DEF Spec

-----------------------------------------------------------------------------
(***************************************************************************)
(* Sums.  A sum is defined by recursion on the set that is left to add, so *)
(* what holds of every sum is proved by induction: on a set of numbers     *)
(* that holds 0 and, with every number, the next one.                      *)
(***************************************************************************)
LEMMA EveryNumber ==
    ASSUME NEW N, 0 \in N, \A n \in Nat : n \in N => n + 1 \in N
    PROVE  Nat \subseteq N
<1> SUFFICES ASSUME Nat \ N # {}
             PROVE  FALSE
  OBVIOUS
<1>1. PICK R : R = OpToRel(<, Nat)
  OBVIOUS
<1>2. IsWellFoundedOn(R, Nat)
  BY <1>1, NatLessThanWellFounded
<1>3. PICK x \in Nat \ N : \A y \in Nat \ N : ~(<<y, x>> \in R)
  BY <1>2, WFMin
<1>4. x - 1 \in Nat \ N
  BY <1>3
<1>5. <<x - 1, x>> \in R
  BY <1>1, <1>3, <1>4 DEF OpToRel
<1> QED
  BY <1>3, <1>4, <1>5

Picked(s) == CHOOSE x \in s : TRUE
Others(s) == s \ {Picked(s)}

\* One step of the sum of f over s, g being the sum over fewer elements.
Adds(f, g, s) == IF s = {} THEN 0 ELSE f[Picked(s)] + g[Others(s)]

Small(S, n) == {s \in SUBSET S : Cardinality(s) <= n}
Solves(f, g, D) == g = [s \in D |-> Adds(f, g, s)]

LEMMA SmallSets ==
    ASSUME NEW S, IsFiniteSet(S)
    PROVE  /\ Small(S, 0) = {{}}
           /\ Small(S, Cardinality(S)) = SUBSET S
           /\ Cardinality(S) \in Nat
           /\ \A n \in Nat : \A s \in Small(S, n + 1) :
                 /\ s \in SUBSET S
                 /\ s # {} => /\ Picked(s) \in s
                              /\ Others(s) \in Small(S, n)
                              /\ Others(s) \in Small(S, n + 1)
<1>1. \A s \in SUBSET S : IsFiniteSet(s) /\ Cardinality(s) \in Nat
  BY FS_Subset, FS_CardinalityType
<1>2. Small(S, 0) = {{}}
  BY <1>1, FS_EmptySet DEF Small
<1>3. Small(S, Cardinality(S)) = SUBSET S
  BY <1>1, FS_Subset DEF Small
<1>4. ASSUME NEW n \in Nat, NEW s \in Small(S, n + 1), s # {}
      PROVE  /\ Picked(s) \in s
             /\ Others(s) \in Small(S, n)
             /\ Others(s) \in Small(S, n + 1)
  <2>1. s \in SUBSET S /\ Cardinality(s) <= n + 1
    BY DEF Small
  <2>2. Picked(s) \in s
    BY <1>4 DEF Picked
  <2>3. Others(s) \in SUBSET S /\ Cardinality(Others(s)) = Cardinality(s) - 1
    BY <1>1, <2>1, <2>2, FS_RemoveElement DEF Others
  <2> QED
    BY <1>1, <2>1, <2>2, <2>3 DEF Small
<1> QED
  BY <1>1, <1>2, <1>3, <1>4 DEF Small

LEMMA SumExists ==
    ASSUME NEW f, NEW S, IsFiniteSet(S)
    PROVE  \E g : Solves(f, g, SUBSET S)
<1> DEFINE N == {n \in Nat : \E g : Solves(f, g, Small(S, n))}
<1>1. 0 \in N
  <2>1. PICK g : g = [s \in Small(S, 0) |-> 0]
    OBVIOUS
  <2>2. \A s \in Small(S, 0) : Adds(f, g, s) = 0
    BY SmallSets DEF Adds
  <2>3. Solves(f, g, Small(S, 0))
    BY <2>1, <2>2 DEF Solves
  <2> QED
    BY <2>3
<1>2. ASSUME NEW n \in Nat, n \in N
      PROVE  n + 1 \in N
  <2>1. PICK g : Solves(f, g, Small(S, n))
    BY <1>2
  <2>2. PICK h : h = [s \in Small(S, n + 1) |-> Adds(f, g, s)]
    OBVIOUS
  <2>3. ASSUME NEW s \in Small(S, n + 1)
        PROVE  Adds(f, h, s) = Adds(f, g, s)
    <3>1. CASE s = {}
      BY <3>1 DEF Adds
    <3>2. CASE s # {}
      <4>1. Others(s) \in Small(S, n) /\ Others(s) \in Small(S, n + 1)
        BY <3>2, SmallSets
      <4>2. h[Others(s)] = g[Others(s)]
        BY <2>1, <2>2, <4>1 DEF Solves
      <4> QED
        BY <3>2, <4>2 DEF Adds
    <3> QED
      BY <3>1, <3>2
  <2>4. Solves(f, h, Small(S, n + 1))
    BY <2>2, <2>3 DEF Solves
  <2> QED
    BY <2>4
<1>3. Nat \subseteq N
  <2> HIDE DEF N
  <2> QED
    BY <1>1, <1>2, EveryNumber
<1>4. PICK n \in Nat : n = Cardinality(S) /\ Small(S, n) = SUBSET S
  BY SmallSets
<1> QED
  BY <1>3, <1>4

\* The sum of f is what its steps add up to.
LEMMA SumSolves ==
    ASSUME NEW f, IsFiniteSet(DOMAIN f)
    PROVE  \E g : /\ Solves(f, g, SUBSET (DOMAIN f))
                  /\ SumOf(f) = g[DOMAIN f]
<1>1. PICK g : g = CHOOSE h : Solves(f, h, SUBSET (DOMAIN f))
  OBVIOUS
<1>2. Solves(f, g, SUBSET (DOMAIN f))
  BY <1>1, SumExists
<1>3. SumOf(f) = g[DOMAIN f]
  BY <1>1
  DEF SumOf, MapThenSumSet, MapThenFoldSet, Solves, Adds, Picked, Others
<1> QED
  BY <1>2, <1>3

\* A sum whose terms are from once to three times those of another one is
\* from once to three times the other one.
LEMMA SumsBetween ==
    ASSUME NEW S, IsFiniteSet(S), NEW f \in [S -> Nat], NEW h \in [S -> Nat],
           \A x \in S : f[x] <= h[x] /\ h[x] <= 3 * f[x]
    PROVE  /\ SumOf(f) \in Nat /\ SumOf(h) \in Nat
           /\ SumOf(f) <= SumOf(h) /\ SumOf(h) <= 3 * SumOf(f)
<1>1. PICK g : Solves(f, g, SUBSET S) /\ SumOf(f) = g[S]
  BY SumSolves
<1>2. PICK k : Solves(h, k, SUBSET S) /\ SumOf(h) = k[S]
  BY SumSolves
<1> DEFINE Between(s) == /\ g[s] \in Nat /\ k[s] \in Nat
                         /\ g[s] <= k[s] /\ k[s] <= 3 * g[s]
           N == {n \in Nat : \A s \in Small(S, n) : Between(s)}
<1>3. \A s \in SUBSET S : g[s] = Adds(f, g, s) /\ k[s] = Adds(h, k, s)
  BY <1>1, <1>2 DEF Solves
<1>4. Between({})
  <2>1. g[{}] = 0 /\ k[{}] = 0
    BY <1>3 DEF Adds
  <2> QED
    BY <2>1
<1>5. 0 \in N
  BY <1>4, SmallSets
<1>6. ASSUME NEW n \in Nat, n \in N
      PROVE  n + 1 \in N
  <2> SUFFICES ASSUME NEW s \in Small(S, n + 1)
               PROVE  Between(s)
    OBVIOUS
  <2>1. CASE s = {}
    BY <1>4, <2>1
  <2>2. CASE s # {}
    <3>1. /\ s \in SUBSET S /\ Picked(s) \in S
          /\ Others(s) \in Small(S, n)
      BY <2>2, SmallSets
    <3>2. Between(Others(s))
      BY <1>6, <3>1
    <3>3. /\ g[s] = f[Picked(s)] + g[Others(s)]
          /\ k[s] = h[Picked(s)] + k[Others(s)]
      BY <1>3, <2>2, <3>1 DEF Adds
    <3>4. /\ f[Picked(s)] \in Nat /\ h[Picked(s)] \in Nat
          /\ f[Picked(s)] <= h[Picked(s)]
          /\ h[Picked(s)] <= 3 * f[Picked(s)]
      BY <3>1
    <3> QED
      BY <3>2, <3>3, <3>4
  <2> QED
    BY <2>1, <2>2
<1>7. Nat \subseteq N
  <2> HIDE DEF N
  <2> QED
    BY <1>5, <1>6, EveryNumber
<1>8. Between(S)
  BY <1>7, SmallSets
<1> QED
  BY <1>1, <1>2, <1>8

LEMMA SumIsNat ==
    ASSUME NEW S, IsFiniteSet(S), NEW f \in [S -> Nat]
    PROVE  SumOf(f) \in Nat
BY SumsBetween

LEMMA RatingsFinite ==
    /\ IsFiniteSet(Ratings)
    /\ \A r \in Ratings : Weight[r] \in 1 .. 3
<1>1. Ratings \subseteq {"EXCELENTE", "REGULAR", "MALA"}
  BY RatingsAssumption DEF Weight
<1>2. IsFiniteSet({"EXCELENTE"} \union {"REGULAR"} \union {"MALA"})
  BY FS_Singleton, FS_Union
<1>3. {"EXCELENTE", "REGULAR", "MALA"}
         = {"EXCELENTE"} \union {"REGULAR"} \union {"MALA"}
  OBVIOUS
<1>4. IsFiniteSet(Ratings)
  BY <1>1, <1>2, <1>3, FS_Subset
<1> QED
  BY <1>1, <1>4 DEF Weight

\* Math.round of a hundred times w over n, when w is from n to three times n.
LEMMA RoundBetween ==
    ASSUME NEW n \in Nat, NEW w \in Nat, n > 0, n <= w, w <= 3 * n
    PROVE  Round(100 * w, n) \in 100 .. 300
<1>1. PICK a, b : a = 2 * (100 * w) + n /\ b = 2 * n
  OBVIOUS
<1>2. a \in Nat /\ b \in Nat /\ b > 0 /\ 100 * b <= a /\ a < 301 * b
  BY <1>1
<1>3. PICK q \in Int : q = a \div b
  BY <1>2
<1>4. b * q <= a /\ a < b * q + b
  BY <1>2, <1>3
<1>5. ~(q <= 99)
  <2> SUFFICES ASSUME q <= 99 PROVE FALSE
    OBVIOUS
  <2>1. b * q <= b * 99
    BY <1>2, <1>3
  <2> QED
    BY <1>2, <1>3, <1>4, <2>1
<1>6. ~(q >= 301)
  <2> SUFFICES ASSUME q >= 301 PROVE FALSE
    OBVIOUS
  <2>1. b * q >= b * 301
    BY <1>2, <1>3
  <2> QED
    BY <1>2, <1>3, <1>4, <2>1
<1> QED
  BY <1>1, <1>3, <1>5, <1>6 DEF Round

\* The average of any counts is between the worst and the best rating
\* (dashboard.service.ts:105-143).
LEMMA AverageBetween ==
    ASSUME NEW v, \A r \in Ratings : v[r] \in Nat, SumOver(v) > 0
    PROVE  AverageRating(v) \in 100 .. 300
<1>1. PICK f : f = [r \in Ratings |-> v[r]]
  OBVIOUS
<1>2. PICK h : h = [r \in Ratings |-> v[r] * Weight[r]]
  OBVIOUS
<1>3. ASSUME NEW r \in Ratings
      PROVE  /\ v[r] * Weight[r] \in Nat
             /\ v[r] <= v[r] * Weight[r] /\ v[r] * Weight[r] <= 3 * v[r]
  <2>1. Weight[r] = 1 \/ Weight[r] = 2 \/ Weight[r] = 3
    BY RatingsFinite
  <2>2. v[r] \in Nat
    OBVIOUS
  <2> QED
    BY <2>1, <2>2
<1>4. f \in [Ratings -> Nat] /\ h \in [Ratings -> Nat]
  BY <1>1, <1>2, <1>3
<1>5. \A r \in Ratings : f[r] <= h[r] /\ h[r] <= 3 * f[r]
  BY <1>1, <1>2, <1>3
<1>6. /\ SumOf(f) \in Nat /\ SumOf(h) \in Nat
      /\ SumOf(f) <= SumOf(h) /\ SumOf(h) <= 3 * SumOf(f)
  BY <1>4, <1>5, RatingsFinite, SumsBetween
<1>7. SumOver(v) = SumOf(f)
  BY <1>1 DEF SumOver
<1>8. Round(100 * SumOf(h), SumOf(f)) \in 100 .. 300
  BY <1>6, <1>7, RoundBetween
<1>9. AverageRating(v) = Round(100 * SumOf(h), SumOf(f))
  BY <1>2, <1>6, <1>7 DEF AverageRating
<1> QED
  BY <1>8, <1>9

\* The surveys that are counted are a number.
LEMMA CountsAreNumbers ==
    ASSUME surveys \in [0 .. LastDay -> [Ratings -> Nat]]
    PROVE  /\ Total \in Nat
           /\ \A r \in Ratings : RatingCount(r) \in Nat
           /\ Analytics \in [Ratings -> Nat]
<1>1. IsFiniteSet(0 .. LastDay)
  BY DaysAssumption, FS_Interval
<1>2. \A r \in Ratings : RatingCount(r) \in Nat
  <2> SUFFICES ASSUME NEW r \in Ratings PROVE RatingCount(r) \in Nat
    OBVIOUS
  <2>1. [d \in 0 .. LastDay |-> surveys[d][r]] \in [0 .. LastDay -> Nat]
    OBVIOUS
  <2> QED
    BY <1>1, <2>1, SumIsNat DEF RatingCount
<1>3. [r \in Ratings |-> RatingCount(r)] \in [Ratings -> Nat]
  BY <1>2
<1>4. Total \in Nat
  BY <1>3, RatingsFinite, SumIsNat DEF Total
<1> QED
  BY <1>2, <1>3, <1>4 DEF Analytics

-----------------------------------------------------------------------------
(***************************************************************************)
(* Types.  What a request is about to store fits the view it is for, and   *)
(* statistics are sent when all their counts are there.                    *)
(***************************************************************************)
DataOK ==
    /\ surveys \in [0 .. LastDay -> [Ratings -> Nat]]
    /\ picture \in Nat
    /\ today \in 0 .. LastDay
    /\ evening \in BOOLEAN
    /\ cache["survey"] \in [Ratings -> Nat] \union {None}
    /\ cache["profile"] \in Int \union {None}
    /\ missed \subseteq Keys

ValueOK(r) ==
    /\ r.at \in Labels
    /\ r.at = "set" /\ r.key = "survey" => r.value \in [Ratings -> Nat]
    /\ r.at = "set" /\ r.key = "profile" => r.value \in Int
    /\ r.at = "count" => r.value \in [Counted -> Nat \union {None}]
    /\ r.at = "stats" => r.value \in [Counted -> Nat]

TypeInv ==
    /\ DataOK
    /\ \A t \in Requests : ValueOK(request[t])

\* A request that goes on, whatever becomes of the data.
LEMMA TypeMoves ==
    ASSUME IInv, TypeInv, DataOK', NEW t \in Requests, NEW q, Become(t, q),
           ValueOK(q)
    PROVE  TypeInv'
<1>1. /\ request'[t] = q
      /\ \A s \in Requests \ {t} : request'[s] = request[s]
  BY DEF IInv, Mappings, Become
<1>2. ASSUME NEW s \in Requests PROVE ValueOK(request[s])'
  BY <1>1, <1>2 DEF TypeInv, ValueOK
<1> QED
  BY <1>2 DEF TypeInv

LEMMA IdleTyped == ValueOK(Idle)
BY DEF ValueOK, Labels, Idle

LEMMA TypeEnds ==
    ASSUME IInv, TypeInv, DataOK', NEW t \in Requests, End(t)
    PROVE  TypeInv'
BY IdleTyped, TypeMoves DEF End

LEMMA SameData ==
    ASSUME TypeInv, UNCHANGED <<surveys, picture, clock, cache, missed>>
    PROVE  DataOK'
BY DEF TypeInv, DataOK, clock

LEMMA TypeComputes ==
    ASSUME IInv, TypeInv, NEW t \in Requests, Compute(t)
    PROVE  TypeInv'
<1>0. IsRequest(request[t]) /\ DataOK'
  BY SameData DEF IInv, RequestOK, Compute
<1>1. PICK v, c :
         /\ Become(t, [request[t] EXCEPT !.at = "set", !.value = v,
                                         !.crossed = c])
         /\ \/ v = Current[request[t].key]
            \/ v = -1 /\ request[t].key = "profile"
  BY Zenon DEF Compute
<1>2. PICK q : q = [request[t] EXCEPT !.at = "set", !.value = v,
                                      !.crossed = c]
  OBVIOUS
<1>3. q.at = "set" /\ q.key = request[t].key /\ q.value = v
  BY <1>0, <1>2 DEF IsRequest
<1>4. Current["survey"] \in [Ratings -> Nat] /\ Current["profile"] \in Int
  BY CountsAreNumbers DEF Current, Keys, TypeInv, DataOK
<1>5. ValueOK(q)
  BY <1>1, <1>3, <1>4 DEF ValueOK, Labels
<1> QED
  BY <1>0, <1>1, <1>2, <1>5, TypeMoves

LEMMA TypeStores ==
    ASSUME IInv, TypeInv, NEW t \in Requests, Store(t)
    PROVE  TypeInv'
<1> DEFINE r == request[t]
<1>1. /\ r.at = "set" /\ r.key \in Keys
      /\ cache' = [cache EXCEPT ![r.key] = r.value]
      /\ missed' \subseteq missed \union {r.key}
      /\ End(t) /\ UNCHANGED <<surveys, picture, clock>>
  BY DEF IInv, RequestOK, IsRequest, Store
<1>2. ValueOK(r) /\ DataOK
  BY DEF TypeInv
<1>3. cache'[r.key] = r.value /\ \A k \in Keys \ {r.key} : cache'[k] = cache[k]
  BY <1>1 DEF IInv, Mappings
<1>4. cache'["survey"] \in [Ratings -> Nat] \union {None}
  BY <1>1, <1>2, <1>3 DEF ValueOK, DataOK, Keys
<1>5. cache'["profile"] \in Int \union {None}
  BY <1>1, <1>2, <1>3 DEF ValueOK, DataOK, Keys
<1>6. DataOK'
  BY <1>1, <1>2, <1>4, <1>5 DEF DataOK, clock
<1> QED
  BY <1>1, <1>6, TypeEnds

LEMMA TypeDrops ==
    ASSUME IInv, TypeInv, NEW k \in Keys, Drop(k)
    PROVE  DataOK'
<1>1. /\ cache' = [cache EXCEPT ![k] = None] /\ missed' \subseteq missed
      /\ UNCHANGED <<surveys, picture, clock>>
  BY DEF Drop
<1>2. \A l \in Keys : cache'[l] = cache[l] \/ cache'[l] = None
  BY <1>1 DEF IInv, Mappings
<1> QED
  BY <1>1, <1>2 DEF TypeInv, DataOK, Keys, clock

\* A change: what other requests hold keeps its type.
LEMMA TypeChanges ==
    ASSUME IInv, TypeInv, DataOK', NEW t \in Requests, NEW k \in Keys,
           Crossing(t, k, Deleting(k))
    PROVE  TypeInv'
<1>1. PICK q : q = [Idle EXCEPT !.at = "delete", !.key = k]
  OBVIOUS
<1>2. q.at = "delete" /\ q = Deleting(k)
  BY <1>1 DEF Deleting, Idle
<1>3. ASSUME NEW s \in Requests PROVE ValueOK(request[s])'
  <2>0. IsRequest(request[s]) /\ ValueOK(request[s])
    BY DEF IInv, RequestOK, TypeInv
  <2>1. CASE s = t
    BY <1>2, <2>1 DEF Crossing, ValueOK, Labels
  <2>2. CASE s # t /\ request'[s] = request[s]
    BY <2>0, <2>2 DEF ValueOK
  <2>3. CASE request'[s] = [request[s] EXCEPT !.crossed = TRUE]
    <3>1. /\ request'[s].at = request[s].at /\ request'[s].key = request[s].key
          /\ request'[s].value = request[s].value
      BY <2>0, <2>3 DEF IsRequest
    <3> QED
      BY <2>0, <3>1 DEF ValueOK
  <2> QED
    BY <2>1, <2>2, <2>3 DEF Crossing
<1> QED
  BY <1>3 DEF TypeInv

LEMMA TypeRates ==
    ASSUME IInv, TypeInv, NEW t \in Requests, NEW r \in Ratings, Rate(t, r)
    PROVE  TypeInv'
<1>1. surveys' = [surveys EXCEPT ![today][r] = @ + 1]
      /\ UNCHANGED <<picture, clock, cache, missed>>
  BY DEF Rate
<1>2. surveys' \in [0 .. LastDay -> [Ratings -> Nat]]
  BY <1>1 DEF TypeInv, DataOK
<1>3. DataOK'
  BY <1>1, <1>2 DEF TypeInv, DataOK, clock
<1> QED
  BY <1>3, TypeChanges DEF Rate, Keys

LEMMA TypePictures ==
    ASSUME IInv, TypeInv, NEW t \in Requests, ChangePicture(t)
    PROVE  TypeInv'
<1>1. DataOK'
  BY DEF ChangePicture, TypeInv, DataOK, clock
<1> QED
  BY <1>1, TypeChanges DEF ChangePicture, Keys

\* A request that asks for a view, the statistics or a trend.
LEMMA TypeAsks ==
    ASSUME IInv, TypeInv, NEW t \in Requests,
           \/ AskStats(t) \/ AskTrend(t)
           \/ \E k \in Keys : View(t, k)
    PROVE  TypeInv'
<1>0. DataOK'
  BY SameData DEF AskStats, AskTrend, View
<1>1. CASE AskStats(t)
  <2>1. PICK v : v = [c \in Counted |-> None]
    OBVIOUS
  <2>2. PICK q : q = [Idle EXCEPT !.at = "count", !.value = v]
    OBVIOUS
  <2>3. q.at = "count" /\ q.value = v
    BY <2>2 DEF Idle
  <2>4. ValueOK(q)
    BY <2>1, <2>3 DEF ValueOK, Labels
  <2> QED
    BY <1>0, <1>1, <2>1, <2>2, <2>4, TypeMoves DEF AskStats, Start
<1>2. CASE AskTrend(t)
  <2>1. PICK q : q = [Idle EXCEPT !.at = "query", !.value = StartDate(today)]
    OBVIOUS
  <2>2. q.at = "query"
    BY <2>1 DEF Idle
  <2>3. ValueOK(q)
    BY <2>2 DEF ValueOK, Labels
  <2> QED
    BY <1>0, <1>2, <2>1, <2>3, TypeMoves DEF AskTrend, Start
<1>3. ASSUME NEW k \in Keys, View(t, k) PROVE TypeInv'
  <2>1. PICK q : q = [Idle EXCEPT !.at = "compute", !.key = k]
    OBVIOUS
  <2>2. q.at = "compute"
    BY <2>1 DEF Idle
  <2>3. ValueOK(q)
    BY <2>2 DEF ValueOK, Labels
  <2> QED
    BY <1>0, <1>3, <2>1, <2>3, TypeMoves DEF View, Start
<1> QED
  BY <1>1, <1>2, <1>3

\* A query of the statistics is answered; they are sent when none is left.
LEMMA TypeCounts ==
    ASSUME IInv, TypeInv, NEW t \in Requests, Count(t)
    PROVE  TypeInv'
<1>0. /\ IsRequest(request[t]) /\ request[t].at = "count" /\ DataOK'
      /\ request[t].value \in [Counted -> Nat \union {None}]
  BY SameData DEF IInv, RequestOK, TypeInv, ValueOK, Count
<1>1. PICK c, v :
         /\ c \in Counted
         /\ v = [request[t].value EXCEPT ![c] =
                    IF c = "total" THEN Total ELSE RatingCount(c)]
         /\ Become(t, [request[t] EXCEPT
                         !.at = IF \E d \in Counted : v[d] = None
                                THEN "count" ELSE "stats",
                         !.value = v])
  BY Zenon DEF Count
<1>2. PICK n : n = IF c = "total" THEN Total ELSE RatingCount(c)
  OBVIOUS
<1>3. n \in Nat
  BY <1>1, <1>2, CountsAreNumbers DEF TypeInv, DataOK, Counted
<1>4. v \in [Counted -> Nat \union {None}]
  BY <1>0, <1>1, <1>2, <1>3
<1>5. PICK a : a = IF \E d \in Counted : v[d] = None THEN "count" ELSE "stats"
  OBVIOUS
<1>6. a = "count" \/ (a = "stats" /\ \A d \in Counted : v[d] # None)
  BY <1>5
<1>7. PICK q : q = [request[t] EXCEPT !.at = a, !.value = v]
  OBVIOUS
<1>8. q.at = a /\ q.value = v
  BY <1>0, <1>7 DEF IsRequest
<1>9. a = "stats" => v \in [Counted -> Nat]
  BY <1>4, <1>6
<1>10. ValueOK(q)
  BY <1>4, <1>6, <1>8, <1>9 DEF ValueOK, Labels
<1> QED
  BY <1>0, <1>1, <1>5, <1>7, <1>10, TypeMoves

LEMMA TypeTrends ==
    ASSUME IInv, TypeInv, NEW t \in Requests, QueryTrend(t) \/ FormatTrend(t)
    PROVE  TypeInv'
<1>0. IsRequest(request[t]) /\ DataOK'
  BY SameData DEF IInv, RequestOK, QueryTrend, FormatTrend
<1>1. ASSUME NEW a \in {"format", "trend"}, NEW v,
             Become(t, [request[t] EXCEPT !.at = a, !.value = v])
      PROVE  TypeInv'
  <2>1. PICK q : q = [request[t] EXCEPT !.at = a, !.value = v]
    OBVIOUS
  <2>2. q.at = a
    BY <1>0, <2>1 DEF IsRequest
  <2>3. ValueOK(q)
    BY <2>2 DEF ValueOK, Labels
  <2> QED
    BY <1>0, <1>1, <2>1, <2>3, TypeMoves
<1>2. CASE QueryTrend(t)
  BY <1>1, <1>2, Zenon DEF QueryTrend
<1>3. CASE FormatTrend(t)
  BY <1>1, <1>3, Zenon DEF FormatTrend
<1> QED
  BY <1>2, <1>3

LEMMA TypeFails ==
    ASSUME IInv, TypeInv, NEW t \in Requests, Answer(t) \/ Throws(t) \/ Delete(t)
    PROVE  TypeInv'
<1>0. request[t].key \in Keys
  BY DEF IInv, RequestOK, IsRequest
<1>1. CASE Answer(t)
  BY <1>1, SameData, TypeEnds DEF Answer
<1>2. CASE Throws(t)
  <2>1. DataOK'
    BY <1>0, <1>2 DEF Throws, TypeInv, DataOK, clock
  <2> QED
    BY <1>2, <2>1, TypeEnds DEF Throws
<1>3. CASE Delete(t)
  BY <1>0, <1>3, TypeDrops, TypeEnds DEF Delete
<1> QED
  BY <1>1, <1>2, <1>3

LEMMA TypeCrashes ==
    ASSUME IInv, TypeInv, Crash
    PROVE  TypeInv'
<1>1. \A s \in Requests : request[s].key \in Keys /\ request'[s] = Idle
  BY DEF IInv, RequestOK, IsRequest, Crash
<1>2. missed' \subseteq Keys
  BY <1>1 DEF Crash, TypeInv, DataOK
<1>3. UNCHANGED <<surveys, picture, clock>>
      /\ (cache' = cache \/ cache' = [k \in Keys |-> None])
  BY DEF Crash
<1>4. DataOK'
  BY <1>2, <1>3 DEF TypeInv, DataOK, Keys, clock
<1>5. ASSUME NEW s \in Requests PROVE ValueOK(request[s])'
  BY <1>1, IdleTyped DEF ValueOK
<1> QED
  BY <1>4, <1>5 DEF TypeInv

LEMMA TypeAround ==
    ASSUME IInv, TypeInv,
           \/ Evening \/ Midnight \/ UNCHANGED vars
           \/ \E k \in Keys : Lapse(k) \/ Invalidate(k)
    PROVE  TypeInv'
<1>1. UNCHANGED request
  BY DEF Evening, Midnight, vars, Lapse, Invalidate
<1>2. DataOK'
  <2>1. CASE Evening
    BY <2>1 DEF Evening, TypeInv, DataOK
  <2>2. CASE Midnight
    <3>1. /\ today \in 0 .. LastDay /\ today < LastDay /\ today' = today + 1
          /\ evening' = FALSE
          /\ UNCHANGED <<surveys, picture, cache, missed>>
      BY <2>2 DEF Midnight, TypeInv, DataOK
    <3>2. today' \in 0 .. LastDay
      BY <3>1, DaysAssumption
    <3> QED
      BY <3>1, <3>2 DEF TypeInv, DataOK
  <2>3. CASE UNCHANGED vars
    BY <2>3, SameData DEF vars, clock
  <2>4. ASSUME NEW k \in Keys, Lapse(k) \/ Invalidate(k) PROVE DataOK'
    BY <2>4, TypeDrops DEF Lapse, Invalidate
  <2> QED
    BY <2>1, <2>2, <2>3, <2>4
<1>3. ASSUME NEW s \in Requests PROVE ValueOK(request[s])'
  BY <1>1 DEF TypeInv, ValueOK
<1> QED
  BY <1>2, <1>3 DEF TypeInv

LEMMA TypeNext == IInv /\ TypeInv /\ [Next]_vars => TypeInv'
<1> SUFFICES ASSUME IInv, TypeInv, [Next]_vars PROVE TypeInv'
  OBVIOUS
<1>1. ASSUME NEW t \in Requests, Step(t) PROVE TypeInv'
  BY <1>1, TypeComputes, TypeStores, TypeCounts, TypeTrends, TypeFails DEF Step
<1>2. ASSUME NEW t \in Requests, Starts(t) PROVE TypeInv'
  BY <1>2, TypeRates, TypePictures, TypeAsks DEF Starts
<1> QED
  BY <1>1, <1>2, TypeFails, TypeCrashes, TypeAround DEF Next

LEMMA TypeInit == Init => IInv /\ TypeInv
<1> SUFFICES ASSUME Init PROVE IInv /\ TypeInv
  OBVIOUS
<1>1. IInv
  BY Starting
<1>2. DataOK
  <2>0. PICK z \in [Ratings -> Nat] : z = [r \in Ratings |-> 0]
    OBVIOUS
  <2>1. surveys \in [0 .. LastDay -> [Ratings -> Nat]]
    <3>1. surveys = [d \in 0 .. LastDay |-> z]
      BY <2>0, Zenon DEF Init
    <3> QED
      BY <3>1
  <2>2. picture \in Nat /\ today \in 0 .. LastDay /\ evening \in BOOLEAN
    <3>1. picture = 0 /\ today = 0 /\ evening = FALSE
      BY Zenon DEF Init
    <3>2. picture \in Nat /\ today \in 0 .. LastDay
      BY <3>1, DaysAssumption
    <3>3. evening \in BOOLEAN
      BY <3>1, Zenon
    <3> QED
      BY <3>2, <3>3
  <2>3. cache["survey"] = None /\ cache["profile"] = None /\ missed = {}
    <3>1. cache = [k \in Keys |-> None] /\ missed = {}
      BY Zenon DEF Init
    <3> QED
      BY <3>1 DEF Keys
  <2> QED
    BY <2>1, <2>2, <2>3 DEF DataOK
<1>3. \A t \in Requests : ValueOK(request[t])
  BY IdleTyped DEF Init
<1> QED
  BY <1>1, <1>2, <1>3 DEF TypeInv

\* The variables keep their types: a view of surveys is cached as counts and
\* the profile as a picture, whatever the order in which they are computed,
\* stored and dropped (dashboard.service.ts:23-103, admin.service.ts:16-54).
THEOREM TypeCorrect == Spec => []TypeOK
<1>1. IInv /\ TypeInv /\ [Next]_vars => (IInv /\ TypeInv)'
  BY Stepping, TypeNext
<1>2. IInv /\ TypeInv => TypeOK
  BY DEF IInv, RequestOK, IsRequest, TypeInv, DataOK, ValueOK, TypeOK
<1> QED
  BY <1>1, <1>2, TypeInit, PTL DEF Spec

\* The live average is between the worst rating and the best, although each
\* rating and the total are counted at different moments, for any ratings
\* and any number of surveys (dashboard.service.ts:105-143).
THEOREM AverageAlwaysInRange == Spec => []AverageInRange
<1>1. IInv /\ TypeInv /\ [Next]_vars => (IInv /\ TypeInv)'
  BY Stepping, TypeNext
<1>2. TypeInv => AverageInRange
  <2> SUFFICES ASSUME TypeInv, NEW t \in Requests, request[t].at = "stats",
                      SumOver(request[t].value) > 0
               PROVE  AverageRating(request[t].value) \in 100 .. 300
    BY DEF AverageInRange
  <2>1. PICK v : v = request[t].value
    OBVIOUS
  <2>2. \A r \in Ratings : v[r] \in Nat
    BY <2>1 DEF TypeInv, ValueOK, Counted
  <2>3. AverageRating(v) \in 100 .. 300
    BY <2>1, <2>2, AverageBetween
  <2> QED
    BY <2>1, <2>3
<1> QED
  BY <1>1, <1>2, TypeInit, PTL DEF Spec
=============================================================================
