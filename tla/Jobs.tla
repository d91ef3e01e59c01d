-------------------------------- MODULE Jobs --------------------------------
(***************************************************************************)
(* The work of the queues and what has to end: imports, the counters of a  *)
(* day, mails, and the requests on reviews and categories.  They share     *)
(* nothing, so a behaviour is one of a single component.  The components   *)
(* take their turns as the queue, the event loop and the expiry of Redis   *)
(* keys make them; what follows from that fairness is stated here.         *)
(***************************************************************************)
EXTENDS Naturals

CONSTANTS
  N, Files, Old, MaxDeaths, MaxEdits,         \* ImportJob
  Events, Sessions, SessionOf, MaxTroubles,   \* DailyCounters
  Mails, MaxCrashes,                          \* MailQueue
  Users, Ratings, MaxTexts,                   \* Reviews
  Cats, Readers,                              \* CategoryTree
  Calls                                       \* Reviews and CategoryTree

VARIABLES
  part,                                              \* the component at work
  file, old, choice, there, made, job, row, run, fate, refused, edits,  \* ImportJob
  event, hour, day, seen, work, troubles, offset, visits,  \* DailyCounters
  mail, out,                                         \* MailQueue
  review, shown, listing, texts, approvals,          \* Reviews
  parent, tree,                                      \* CategoryTree
  deaths,          \* of ImportJob or MailQueue
  request, calm    \* of Reviews or CategoryTree

imports  == <<file, old, choice, there, made, job, row, run, fate, refused, edits>>
counters == <<event, hour, day, seen, work, troubles, offset, visits>>
mails    == <<mail, out>>
reviews  == <<review, shown, listing, texts, approvals>>
cats     == <<parent, tree>>
requests == <<request, calm>>
all == <<part, imports, counters, mails, reviews, cats, deaths, requests>>

J == INSTANCE ImportJob
C == INSTANCE DailyCounters WITH row <- day
M == INSTANCE MailQueue WITH MaxDeaths <- MaxCrashes
R == INSTANCE Reviews WITH call <- request
T == INSTANCE CategoryTree WITH call <- request
-----------------------------------------------------------------------------
(* The variables of a component that is not at work. *)
Off == 0
NoImports  == /\ file = Off /\ old = Off /\ choice = Off /\ there = Off /\ made = Off
              /\ job = Off /\ row = Off /\ run = Off /\ fate = Off /\ refused = Off /\ edits = Off
NoCounters == /\ event = Off /\ hour = Off /\ day = Off /\ seen = Off
              /\ work = Off /\ troubles = Off /\ offset = Off /\ visits = Off
NoMails    == mail = Off /\ out = Off
NoReviews  == review = Off /\ shown = Off /\ listing = Off /\ texts = Off /\ approvals = Off
NoCats     == parent = Off /\ tree = Off
NoRequests == request = Off /\ calm = Off

JobsInit ==
  \/ part = "import" /\ J!Init /\ NoCounters /\ NoMails /\ NoReviews /\ NoCats /\ NoRequests
  \/ part = "counters" /\ C!Init /\ NoImports /\ NoMails /\ NoReviews /\ NoCats /\ NoRequests /\ deaths = Off
  \/ part = "mails" /\ M!Init /\ NoImports /\ NoCounters /\ NoReviews /\ NoCats /\ NoRequests
  \/ part = "reviews" /\ R!Init /\ NoImports /\ NoCounters /\ NoMails /\ NoCats /\ deaths = Off
  \/ part = "categories" /\ T!Init /\ NoImports /\ NoCounters /\ NoMails /\ NoReviews /\ deaths = Off

(* A step of one component. *)
Importing(A) == part = "import" /\ A /\ UNCHANGED <<part, counters, mails, reviews, cats, requests>>
Counting(A)  == part = "counters" /\ A /\ UNCHANGED <<part, imports, mails, reviews, cats, deaths, requests>>
Mailing(A)   == part = "mails" /\ A /\ UNCHANGED <<part, imports, counters, reviews, cats, requests>>
Reviewing(A) == part = "reviews" /\ A /\ UNCHANGED <<part, imports, counters, mails, cats, deaths>>
Sorting(A)   == part = "categories" /\ A /\ UNCHANGED <<part, imports, counters, mails, reviews, deaths>>

JobsNext ==
  Importing(J!Next) \/ Counting(C!Next) \/ Mailing(M!Next) \/ Reviewing(R!Next) \/ Sorting(T!Next)

Fairness ==
  /\ WF_imports(Importing(J!Work))
  /\ \A m \in Mails : SF_mails(Mailing(M!Take(m))) /\ WF_mails(Mailing(M!Send(m)))
  /\ WF_<<reviews, requests>>(Reviewing(R!Expire))
  /\ \A r \in Calls : WF_<<reviews, requests>>(Reviewing(R!Step(r)))
  /\ \A r \in Calls : WF_<<cats, requests>>(Sorting(T!Step(r)))

JobsSpec == JobsInit /\ [][JobsNext]_all /\ Fairness
-----------------------------------------------------------------------------
(* A SKU of the file is that of one product, however often the job runs,   *)
(* and a completed import tells of every group what became of it.          *)
(* (And every variable keeps its type.)                                    *)
ImportedOnce == part = "import" => J!TypeOK /\ J!ImportedOnce

(* A day never counts more unique visitors than visitors, or more visitors *)
(* than pages; without an error and with a clock in UTC its counters are   *)
(* exact. (And every variable keeps its type, those of the mails too.)     *)
FunnelIsOrdered ==
  /\ part = "counters" => C!TypeOK /\ C!FunnelIsOrdered
  /\ part = "mails" => M!TypeOK

(* An import whose job is in the queue ends as completed or failed, unless *)
(* the database refuses the row in which the start or the failure is told, *)
(* or the process dies twice in it.                                        *)
QueuedImportsEnd == part = "import" /\ J!InQueue ~> part = "import" /\ J!Over

(* A queued mail ends: it is sent, or has failed for good. *)
MailsEnd == \A m \in Mails : part = "mails" /\ M!InQueue(m) ~> part = "mails" /\ M!Over(m)

(* A text that is no longer approved leaves the cached list in the end,    *)
(* although a reader that overlaps the change may store the old list after *)
(* the invalidation: nobody stores it twice, and it expires.               *)
HiddenTextsVanish ==
  \A t \in 1 .. MaxTexts :
    <>[](part = "reviews" /\ ~ R!IsApproved(t))
      => <>[](part = "reviews" /\ ~ R!IsListed(t))

(* A request on categories ends, also when the walk up the tree meets a    *)
(* cycle that two earlier moves have closed.                               *)
RequestsEnd ==
  \A r \in Calls : part = "categories" /\ ~ T!At(r, "idle")
                    ~> part = "categories" /\ T!At(r, "idle")
=============================================================================
