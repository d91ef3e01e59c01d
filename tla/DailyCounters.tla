--------------------------- MODULE DailyCounters ---------------------------
(***************************************************************************)
(* The visitors of a day: events that trackEvent puts into the queue       *)
(* "analytics" and processTrackEvent counts in the row of analytics_daily, *)
(* statement by statement, with the set of the day's sessions in Redis.    *)
(*                                                                         *)
(* Each step may throw or its process may die; the event is then counted   *)
(* from the start.  The row is that of the local day, the set that of the  *)
(* UTC day.                                                                *)
(***************************************************************************)
EXTENDS JobQueue, FiniteSets

CONSTANTS Events, Sessions,
          SessionOf,  \* [Events -> the session that sent it]
          MaxTroubles \* bound of the model: errors and crashes

VARIABLES
  event,   \* [Events -> Job]
  hour,    \* 1: both days are the first, 2: one has turned, 3: both have
  row,     \* [Days -> [pageViews, visitors, uniqueVisitors]]
  seen,    \* [Days -> the sessions in Redis]
  work,    \* the event in work: where it stands, its `now', and isNew
  troubles,
  offset,  \* whether the server's clock is not UTC
  visits   \* history: the days and sessions of the events that were finished

vars == <<event, hour, row, seen, work, troubles, offset, visits>>

Days == {1, 2}
LocalDay(h) == IF h = 1 \/ (h = 2 /\ ~ offset) THEN 1 ELSE 2
UTCDay(h) == IF h <= 2 THEN 1 ELSE 2

Zero == [pageViews |-> 0, visitors |-> 0, uniqueVisitors |-> 0]
Resting == [pc |-> "rest", now |-> 1, of |-> 0]

TypeOK ==
  /\ event \in [Events -> Job]
  /\ \A d \in Days : row[d].pageViews \in 0 .. 3 * Cardinality(Events) + MaxTroubles
  /\ seen \in [Days -> SUBSET Sessions]
  /\ work.pc = "rest" <=> Idling(event)

Init ==
  /\ event = [e \in Events |-> Queued(Unborn)]
  /\ hour = 1 /\ offset \in BOOLEAN /\ troubles = 0
  /\ row = [d \in Days |-> Zero] /\ seen = [d \in Days |-> {}]
  /\ work = Resting /\ visits = {}
-----------------------------------------------------------------------------
Attempts == 3

Turn == hour < 3 /\ hour' = hour + 1 /\ UNCHANGED <<event, row, seen, work, troubles, offset, visits>>

Take(e) ==
  /\ event[e].st = "waiting" /\ Idling(event)
  /\ event' = [event EXCEPT ![e] = Taken(@)]
  /\ work' = [pc |-> "first", now |-> hour, of |-> e]
  /\ UNCHANGED <<hour, row, seen, troubles, offset, visits>>

(* incrementField: read, then UPDATE or INSERT; one worker, so one step. *)
Counted(field) == [row EXCEPT ![LocalDay(work.now)][field] = @ + 1]

Step(pc, next, counted) ==
  /\ work.pc = pc
  /\ row' = counted
  /\ work' = [work EXCEPT !.pc = next]

(* Mutation: the visitor is counted before the page. *)
VisitorsFirst == <<"visitors", "pageViews">>

FirstFields == <<"pageViews", "visitors">>

Count ==
  /\ \/ Step("first", "second", Counted(FirstFields[1]))
     \/ Step("second", "set", Counted(FirstFields[2]))
     \/ Step("unique", "end", Counted("uniqueVisitors"))
  /\ UNCHANGED <<event, hour, seen, troubles, offset, visits>>

(* sadd answers whether the session is new. *)
Noted == IF SessionOf[work.of] \in seen[UTCDay(work.now)] THEN "end" ELSE "unique"
SAdd ==
  /\ work.pc = "set"
  /\ seen' = [seen EXCEPT ![UTCDay(work.now)] = @ \cup {SessionOf[work.of]}]
  /\ work' = [work EXCEPT !.pc = Noted]
  /\ UNCHANGED <<event, hour, row, troubles, offset, visits>>

(* expire, the sources and the devices, and the job is done. *)
End ==
  /\ work.pc = "end"
  /\ event' = [event EXCEPT ![work.of] = Completed(@)]
  /\ work' = Resting
  /\ visits' = visits \cup {<<LocalDay(work.now), SessionOf[work.of]>>}
  /\ UNCHANGED <<hour, row, seen, troubles, offset>>

(* Redis or Postgres fails, or the process dies. *)
Trouble ==
  /\ work.pc # "rest" /\ troubles < MaxTroubles
  /\ \E j \in {Threw(event[work.of], Attempts), Stalled(event[work.of])} :
       event' = [event EXCEPT ![work.of] = j]
  /\ work' = Resting /\ troubles' = troubles + 1
  /\ UNCHANGED <<hour, row, seen, offset, visits>>

Next == Turn \/ Count \/ SAdd \/ End \/ Trouble \/ \E e \in Events : Take(e)

Spec == Init /\ [][Next]_vars
-----------------------------------------------------------------------------
(* On no day are there more unique visitors than visitors, or more         *)
(* visitors than pages, whatever fails and however often an event is       *)
(* counted again: the wider counter is always written first.  Where        *)
(* nothing failed, every event is one page, and if the server's clock is   *)
(* UTC, the unique visitors are the sessions of the day.                   *)
FunnelIsOrdered ==
  /\ \A d \in Days : row[d].uniqueVisitors <= row[d].visitors /\ row[d].visitors <= row[d].pageViews
  /\ troubles = 0 /\ work.pc = "rest" =>
       /\ row[1].pageViews + row[2].pageViews = Cardinality({e \in Events : event[e].st = "completed"})
       /\ ~ offset => \A d \in Days : row[d].uniqueVisitors = Cardinality({v \in visits : v[1] = d})
=============================================================================
