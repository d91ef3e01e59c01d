------------------------------ MODULE Reviews ------------------------------
(***************************************************************************)
(* The reviews of one product: ReviewsService and ReviewsRepository, the   *)
(* rating that is stored with the product, and the listing of the approved *)
(* reviews that is cached in Redis for five minutes.                       *)
(*                                                                         *)
(* A customer has at most one review of the product (unique index).  A     *)
(* review is named by its first text; every text has a number of its own.  *)
(* A call is cut at its awaits and may die at any of them.                 *)
(***************************************************************************)
EXTENDS Naturals, FiniteSets, Functions

CONSTANTS Users, Ratings, Calls,
          MaxTexts   \* bound of the model: texts written

VARIABLES
  review,    \* [Users -> Rows], NoReview where there is none
  shown,     \* rating and reviewsCount of the product
  listing,   \* the cached texts, or NotCached
  texts,     \* the last text written
  call,      \* [Calls -> the state of a request]
  calm,      \* in this behaviour requests neither overlap nor die
  approvals  \* history: the texts that an approve has met

vars == <<review, shown, listing, texts, call, calm, approvals>>

NoReview  == [id |-> 0, text |-> 0, rating |-> 0, approved |-> FALSE]
NotCached == {0}
Idle == [pc |-> "idle", op |-> "none", user |-> "nobody", id |-> 0, rating |-> 0, seen |-> {}]
Ops == {"edit", "delete", "approve", "reject", "reply"}

Exists(u) == review[u] # NoReview
Approved == {u \in Users : review[u].approved}

(* Math.round(sum / count * 10) / 10, in tenths; 0 without reviews. *)
AggregateOf(ratings) ==
  LET count == Cardinality(DOMAIN ratings)
  IN  IF count = 0 THEN [rating |-> 0, count |-> 0]
      ELSE [rating |-> (20 * SumFunction(ratings) + count) \div (2 * count), count |-> count]

Aggregate == AggregateOf([u \in Approved |-> review[u].rating])

TypeOK ==
  /\ \A u \in Users : /\ review[u].text \in 0 .. texts /\ review[u].id <= review[u].text
                      /\ Exists(u) <=> review[u].rating \in Ratings
  /\ shown.count \in 0 .. Cardinality(Users) /\ shown.rating \in 0 .. 50
  /\ listing = NotCached \/ listing \subseteq 1 .. texts
  /\ calm \in BOOLEAN /\ approvals \subseteq 1 .. texts

Init ==
  /\ review = [u \in Users |-> NoReview] /\ shown = [rating |-> 0, count |-> 0]
  /\ listing = NotCached /\ texts = 0 /\ call = [r \in Calls |-> Idle]
  /\ calm \in BOOLEAN /\ approvals = {}
-----------------------------------------------------------------------------
MayStart(r) == call[r].pc = "idle" /\ (calm => \A q \in Calls : call[q].pc = "idle")
At(r, pc) == call[r].pc = pc
(* What is not asked for any more is forgotten. *)
Goto(r, pc) == call' = [call EXCEPT ![r] = [Idle EXCEPT !.pc = pc]]
Done(r) == call' = [call EXCEPT ![r] = Idle]
Start(r, pc, op, u, id, n) ==
  call' = [call EXCEPT ![r] = [pc |-> pc, op |-> op, user |-> u, id |-> id, rating |-> n, seen |-> {}]]

(* create: a delivered order with the product, and no review yet.  Orders  *)
(* are not modelled here: any user may have such an order.                 *)
StartCreate(r, u, n) ==
  /\ MayStart(r) /\ ~ Exists(u)
  /\ Start(r, "insert", "create", u, 0, n)
  /\ UNCHANGED <<review, shown, listing, texts, calm, approvals>>

(* The unique index may refuse the insert.  A new review is not public.    *)
Insert(r) ==
  /\ At(r, "insert") /\ texts < MaxTexts
  /\ LET u == call[r].user IN
       IF Exists(u) THEN Done(r) /\ UNCHANGED <<review, texts>>
       ELSE /\ texts' = texts + 1
            /\ review' = [review EXCEPT ![u] =
                 [id |-> texts', text |-> texts', rating |-> call[r].rating, approved |-> FALSE]]
            /\ Goto(r, "keys")
  /\ UNCHANGED <<shown, listing, calm, approvals>>

(* update, delete, approve, reject and addReply: findById. *)
StartOn(r, op, u, n) ==
  /\ MayStart(r) /\ Exists(u)
  /\ Start(r, "write", op, u, review[u].id, IF op = "edit" THEN n ELSE 0)
  /\ UNCHANGED <<review, shown, listing, texts, calm, approvals>>

(* Mutation: the approval outlives the text. *)
EditedAsItWas(row, t, n) == [row EXCEPT !.text = t, !.rating = n]

(* update: an edited review must be approved again. *)
Edited(row, t, n) == [row EXCEPT !.text = t, !.rating = n, !.approved = FALSE]

(* The one statement of each of them.  A row deleted since is not found    *)
(* afterwards, and only delete and reject go on then.                      *)
Write(r) ==
  /\ At(r, "write")
  /\ LET c == call[r]
         row == review[c.user]
         there == row.id = c.id
     IN  /\ texts' = IF c.op = "edit" /\ there THEN texts + 1 ELSE texts
         /\ texts' <= MaxTexts
         /\ review' = [review EXCEPT ![c.user] =
              IF ~ there THEN @
              ELSE CASE c.op = "edit"    -> Edited(@, texts', c.rating)
                     [] c.op = "delete"  -> NoReview
                     [] c.op = "approve" -> [@ EXCEPT !.approved = TRUE]
                     [] c.op = "reject"  -> [@ EXCEPT !.approved = FALSE]
                     [] c.op = "reply"   -> @]
         /\ approvals' = IF c.op = "approve" /\ there THEN approvals \cup {row.text} ELSE approvals
         /\ IF ~ there /\ c.op \notin {"delete", "reject"} THEN Done(r)
            ELSE Goto(r, IF c.op = "reply" THEN "keys" ELSE "count")
  /\ UNCHANGED <<shown, listing, calm>>

(* recalculateProductRating reads the approved reviews ... *)
Count(r) ==
  /\ At(r, "count")
  /\ call' = [call EXCEPT ![r] = [Idle EXCEPT !.pc = "rate", !.seen = {Aggregate}]]
  /\ UNCHANGED <<review, shown, listing, texts, calm, approvals>>

(* ... and writes the product. *)
Rate(r) ==
  /\ At(r, "rate")
  /\ \E a \in call[r].seen : shown' = a
  /\ Goto(r, "keys")
  /\ UNCHANGED <<review, listing, texts, calm, approvals>>

(* invalidateCache: KEYS, and DEL of the keys that were there. *)
Keys(r) ==
  /\ At(r, "keys")
  /\ IF listing = NotCached THEN Done(r) ELSE Goto(r, "del")
  /\ UNCHANGED <<review, shown, listing, texts, calm, approvals>>
Del(r) ==
  /\ At(r, "del")
  /\ listing' = NotCached
  /\ Done(r)
  /\ UNCHANGED <<review, shown, texts, calm, approvals>>
-----------------------------------------------------------------------------
(* findByProduct, on a miss: the query, then the users, then SET with EX.  *)
StartList(r) ==
  /\ MayStart(r) /\ listing = NotCached
  /\ Start(r, "list", "list", "nobody", 0, 0)
  /\ UNCHANGED <<review, shown, listing, texts, calm, approvals>>

ApprovedTexts == {review[u].text : u \in Approved}
List(r) ==
  /\ At(r, "list")
  /\ call' = [call EXCEPT ![r] = [Idle EXCEPT !.pc = "store", !.seen = ApprovedTexts]]
  /\ UNCHANGED <<review, shown, listing, texts, calm, approvals>>
Store(r) ==
  /\ At(r, "store")
  /\ listing' = call[r].seen
  /\ Done(r)
  /\ UNCHANGED <<review, shown, texts, calm, approvals>>

(* Mutation: the key is stored without a time to live. *)
ExpireNever == listing = {} /\ listing # {} /\ UNCHANGED vars

(* CACHE_TTL *)
Expire ==
  /\ listing # NotCached
  /\ listing' = NotCached
  /\ UNCHANGED <<review, shown, texts, call, calm, approvals>>

(* A query or a command to Redis fails, or the process ends. *)
Die(r) ==
  /\ ~ calm /\ ~ At(r, "idle")
  /\ Done(r)
  /\ UNCHANGED <<review, shown, listing, texts, calm, approvals>>

Step(r) == \/ Insert(r) \/ Write(r) \/ Count(r) \/ Rate(r) \/ Keys(r) \/ Del(r)
           \/ List(r) \/ Store(r)

Next ==
  \/ \E r \in Calls :
       \/ \E u \in Users, n \in Ratings : \/ StartCreate(r, u, n)
                                          \/ \E op \in Ops : StartOn(r, op, u, n)
       \/ StartList(r) \/ Step(r) \/ Die(r)
  \/ Expire

(* Node runs every request on; Redis expires every key it was given a time *)
(* to live for.                                                            *)
Spec == Init /\ [][Next]_vars /\ WF_vars(Expire) /\ \A r \in Calls : WF_vars(Step(r))
-----------------------------------------------------------------------------
(* "При редактировании сбрасываем одобрение": a text is public only if a   *)
(* moderator's approve has met that very text in the row, however edits,   *)
(* approvals and deletions of one review run into each other.  And with    *)
(* one request at a time the product shows the rating and the number of    *)
(* its approved reviews, down to 0 when the last of them goes.             *)
OnlyApprovedIsShown ==
  /\ ApprovedTexts \subseteq approvals
  /\ calm /\ (\A r \in Calls : At(r, "idle")) => shown = Aggregate

(* A text that is no longer approved leaves the cached listing for good,   *)
(* although a reader that overlaps the change may store the old listing    *)
(* after the invalidation: nobody stores it twice, and it expires.         *)
IsApproved(t) == t \in ApprovedTexts
IsListed(t)   == t \in listing
HiddenTextsVanish ==
  \A t \in 1 .. MaxTexts : <>[](~ IsApproved(t)) => <>[](~ IsListed(t))
=============================================================================
