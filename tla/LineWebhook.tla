------------------------------ MODULE LineWebhook ------------------------------
(***************************************************************************)
(* LineService.handleWebhook and CustomerLineIdentityService: deliveries   *)
(* of LINE events, the identities they create, and the administrators who  *)
(* link identities to customers.                                           *)
(*                                                                         *)
(* One transaction handles all the events of a delivery.  It may wait for  *)
(* the rows another one wrote, so, unlike a request of the case services,  *)
(* it is cut at every statement that can wait; what it has written stays   *)
(* its own until its COMMIT.  LINE delivers again what was not answered in *)
(* time, even while an earlier attempt is still being handled.             *)
(***************************************************************************)
EXTENDS Naturals, Sequences, FiniteSets

CONSTANTS Webhooks,         \* pool clients that handle deliveries
          Admins,           \* pool clients that handle links and unlinks
          LineUsers,        \* line_user_id, within one channel
          Customers,        \* ids of table customers
          WithOpenCase,     \* the customers who have an open case
          IdentityIds,      \* ids of rows of customer_line_identities
          Deliveries, Events,  \* the list of events of each delivery
          Links,            \* the users and customers administrators link
          Attempts          \* how often LINE sends each delivery

Sessions == Webhooks \cup Admins
EventTypes == {"follow", "unfollow", "text", "other"}

ASSUME LineAssumption ==
  /\ IsFiniteSet(Sessions) /\ Webhooks \cap Admins = {}
  /\ "null" \notin Customers /\ "none" \notin LineUsers \cup IdentityIds
  /\ WithOpenCase \subseteq Customers /\ Links \subseteq LineUsers \X Customers
  /\ Attempts \in [Deliveries -> Nat]
  /\ Events \in [Deliveries -> Seq([type : EventTypes, user : LineUsers])]

VARIABLES identity,         \* the committed, active row of each id
          stored,           \* how often each event is in line_events
          attempts,         \* how often LINE has sent each delivery
          tx                \* the request each session is running

lineVars == <<identity, stored, attempts, tx>>

Idle == [op |-> "idle"]
NoRow == [user |-> "none"]
IdentityRows == [user : LineUsers, customer : Customers \cup {"null"}]
Writes == UNION {[D -> IdentityRows \cup {NoRow}] : D \in SUBSET IdentityIds}

Reply(s) == tx' = [tx EXCEPT ![s] = Idle]

(* The uncommitted rows of a session, and the table as it sees it.         *)
Wrote(s) == IF tx[s].op = "webhook" THEN tx[s].wrote ELSE <<>>
Seen(s) == [i \in IdentityIds |-> IF i \in DOMAIN Wrote(s) THEN Wrote(s)[i] ELSE identity[i]]

(* findByLineIdentity, in table t                                          *)
ActiveRows(t, u) == {i \in IdentityIds : t[i] # NoRow /\ t[i].user = u}

(* A session holds a user once it has inserted or unlinked a row of his:   *)
(* who wants to change that row, or to insert another one, waits for it.   *)
Holds(s, u) ==
  \E i \in DOMAIN Wrote(s) : u \in {Wrote(s)[i].user, identity[i].user}
Free(s, u) == \A t \in Sessions \ {s} : ~Holds(t, u)

(* Ids no row has and no request refers to: an unlinked row is never read  *)
(* again, so its id may be given away.                                     *)
Fresh ==
  {i \in IdentityIds :
     /\ identity[i] = NoRow
     /\ \A s \in Sessions : i \notin DOMAIN Wrote(s)
     /\ \A s \in Sessions : tx[s].op # "idle" => tx[s].id # i}
NewId == CHOOSE i \in Fresh : TRUE

NoId == "none"

WebhookRequests ==
  {r \in [op : {"webhook"}, delivery : Deliveries, next : Nat, user : LineUsers \cup {"none"},
          at : {"event", "insert", "unlink", "message"},
          id : IdentityIds \cup {NoId}, wrote : Writes] :
     r.next \in 1 .. Len(Events[r.delivery]) + 1}
LinkRequests ==
  [op : {"link", "linkNew"}, user : LineUsers, customer : Customers, id : IdentityIds \cup {NoId}]
  \cup [op : {"unlink"}, user : LineUsers, id : IdentityIds]
-------------------------------------------------------------------------------
LineInit ==
  /\ identity = [i \in IdentityIds |-> NoRow]
  /\ stored = [d \in Deliveries |-> [i \in 1 .. Len(Events[d]) |-> 0]]
  /\ attempts = [d \in Deliveries |-> 0]
  /\ tx = [s \in Sessions |-> Idle]

Handling(s, at) == tx[s].op = "webhook" /\ tx[s].at = at
Event(s) == Events[tx[s].delivery][tx[s].next]
MoreEvents(s) == tx[s].next <= Len(Events[tx[s].delivery])

WebhookRequest(d, n, at, u, i, wrote) ==
  [op |-> "webhook", delivery |-> d, next |-> n, user |-> u, at |-> at, id |-> i,
   wrote |-> wrote]

(* recordLineEvent and the return of the event's handler                   *)
EventDone(s, wrote) ==
  tx' = [tx EXCEPT ![s] = WebhookRequest(tx[s].delivery, tx[s].next + 1, "event", "none",
                                         NoId, wrote)]

(* BEGIN, the channel and its signature.  LINE sends a delivery again when *)
(* it did not get an answer in time, whatever became of the first one.     *)
Deliver(s, d) ==
  /\ tx[s] = Idle
  /\ attempts[d] < Attempts[d]
  /\ attempts' = [attempts EXCEPT ![d] = @ + 1]
  /\ tx' = [tx EXCEPT ![s] = WebhookRequest(d, 1, "event", "none", NoId, <<>>)]
  /\ UNCHANGED <<identity, stored>>

Ignore(s) ==
  /\ Handling(s, "event") /\ MoreEvents(s) /\ Event(s).type = "other"
  /\ EventDone(s, Wrote(s))
  /\ UNCHANGED <<identity, stored, attempts>>

(* The read of findByLineIdentity and where each handler goes on from it:  *)
(* a text of a linked customer looks for an open case of his.              *)
Go(s, at, i) ==
  tx' = [tx EXCEPT ![s] = WebhookRequest(tx[s].delivery, tx[s].next, at, Event(s).user, i,
                                         Wrote(s))]
FindIdentity(s) ==
  LET e == Event(s)
      found == ActiveRows(Seen(s), e.user) IN
  /\ Handling(s, "event") /\ MoreEvents(s) /\ e.type # "other"
  /\ \/ found = {} /\ e.type = "unfollow" /\ EventDone(s, Wrote(s))
     \/ found = {} /\ e.type # "unfollow" /\ Go(s, "insert", NoId)
     \/ \E i \in found :
          \/ e.type = "unfollow" /\ Go(s, "unlink", i)
          \/ e.type = "text" /\ Seen(s)[i].customer \in WithOpenCase /\ Go(s, "message", i)
          \/ /\ e.type # "unfollow"
             /\ e.type = "text" => Seen(s)[i].customer \notin WithOpenCase
             /\ EventDone(s, Wrote(s))
  /\ UNCHANGED <<identity, stored, attempts>>

(* createPendingIdentity.  The unique index makes it wait for the session  *)
(* that holds the user, and fail if an active row of his is there by then. *)
(* Without the index it would neither wait nor fail.                       *)
PendingRow(u) == [user |-> u, customer |-> "null"]
InsertPending(s) ==
  /\ Fresh # {}
  /\ EventDone(s, [j \in DOMAIN Wrote(s) \cup {NewId} |->
                    IF j = NewId THEN PendingRow(Event(s).user) ELSE Wrote(s)[j]])
InsertUnindexed(s) ==
  /\ Handling(s, "insert")
  /\ InsertPending(s)
  /\ UNCHANGED <<identity, stored, attempts>>
InsertIdentity(s) ==
  /\ Handling(s, "insert") /\ Free(s, tx[s].user)
  /\ \/ ActiveRows(Seen(s), tx[s].user) = {} /\ InsertPending(s)
     \/ ActiveRows(Seen(s), tx[s].user) # {} /\ Reply(s)
  /\ UNCHANGED <<identity, stored, attempts>>

(* unlinkIdentity: nothing to update if the row was unlinked meanwhile.    *)
UnlinkIdentity(s) ==
  LET i == tx[s].id IN
  /\ Handling(s, "unlink") /\ Free(s, tx[s].user)
  /\ \/ /\ Seen(s)[i] # NoRow
        /\ EventDone(s, [j \in DOMAIN Wrote(s) \cup {i} |-> IF j = i THEN NoRow ELSE Wrote(s)[j]])
     \/ Seen(s)[i] = NoRow /\ EventDone(s, Wrote(s))
  /\ UNCHANGED <<identity, stored, attempts>>

(* recordLineMessage: touchCustomerMessage stores the customer's id in     *)
(* cases.updated_by, which references users.  No customer is a user, so    *)
(* the statement fails, and the whole delivery is rolled back.  A slip     *)
(* would leave the transaction open.                                       *)
LeaveMessage(s) == Handling(s, "message") /\ UNCHANGED lineVars
RejectMessage(s) ==
  /\ Handling(s, "message")
  /\ Reply(s)
  /\ UNCHANGED <<identity, stored, attempts>>

(* COMMIT.  A slip would commit every event on its own.                    *)
Recorded(d, n) ==
  stored' = [stored EXCEPT ![d] = [i \in DOMAIN @ |-> IF i <= n THEN @[i] + 1 ELSE @[i]]]
CommitSome(s) ==
  /\ Handling(s, "event") /\ tx[s].next > 1
  /\ identity' = Seen(s)
  /\ Recorded(tx[s].delivery, tx[s].next - 1)
  /\ Reply(s)
  /\ UNCHANGED attempts
CommitDelivery(s) ==
  /\ Handling(s, "event") /\ ~MoreEvents(s)
  /\ identity' = Seen(s)
  /\ Recorded(tx[s].delivery, Len(Events[tx[s].delivery]))
  /\ Reply(s)
  /\ UNCHANGED attempts
-------------------------------------------------------------------------------
(* linkCustomerLineIdentity up to its writes.  A user linked to another    *)
(* customer is a conflict, one linked to this customer is done.  A slip    *)
(* would move the user from one customer to another.                       *)
ReadForRelink(s, u, c) ==
  /\ tx[s] = Idle
  /\ \E i \in ActiveRows(identity, u) :
       tx' = [tx EXCEPT ![s] = [op |-> "link", user |-> u, customer |-> c, id |-> i]]
  /\ UNCHANGED <<identity, stored, attempts>>
ReadForLink(s, u, c) ==
  /\ tx[s] = Idle
  /\ LET request(op, i) == [op |-> op, user |-> u, customer |-> c, id |-> i] IN
     \/ /\ ActiveRows(identity, u) = {}
        /\ tx' = [tx EXCEPT ![s] = request("linkNew", NoId)]
     \/ \E i \in ActiveRows(identity, u) :
          /\ identity[i].customer = "null"
          /\ tx' = [tx EXCEPT ![s] = request("link", i)]
  /\ UNCHANGED <<identity, stored, attempts>>

(* linkIdentityToCustomer and COMMIT.  It tests that the row is active and *)
(* not that it is still without a customer; if it is gone, the service     *)
(* fails on the row it reads back.                                         *)
CommitLink(s) ==
  LET i == tx[s].id IN
  /\ tx[s].op = "link" /\ Free(s, tx[s].user)
  /\ \/ identity[i] # NoRow /\ identity' = [identity EXCEPT ![i].customer = tx[s].customer]
     \/ identity[i] = NoRow /\ UNCHANGED identity
  /\ Reply(s)
  /\ UNCHANGED <<stored, attempts>>

CommitLinkNew(s) ==
  LET u == tx[s].user IN
  /\ tx[s].op = "linkNew" /\ Free(s, u)
  /\ \/ /\ ActiveRows(identity, u) = {} /\ Fresh # {}
        /\ identity' = [identity EXCEPT ![NewId] = [user |-> u, customer |-> tx[s].customer]]
     \/ ActiveRows(identity, u) # {} /\ UNCHANGED identity
  /\ Reply(s)
  /\ UNCHANGED <<stored, attempts>>

(* unlinkCustomerLineIdentity                                              *)
ReadForUnlink(s, i) ==
  /\ tx[s] = Idle
  /\ identity[i] # NoRow /\ identity[i].customer # "null"
  /\ tx' = [tx EXCEPT ![s] = [op |-> "unlink", user |-> identity[i].user, id |-> i]]
  /\ UNCHANGED <<identity, stored, attempts>>

CommitUnlink(s) ==
  /\ tx[s].op = "unlink" /\ Free(s, tx[s].user)
  /\ identity' = [identity EXCEPT ![tx[s].id] = NoRow]
  /\ Reply(s)
  /\ UNCHANGED <<stored, attempts>>
-------------------------------------------------------------------------------
(* A transaction may fail at any time; one that waits in a circle is       *)
(* chosen by the database's deadlock detector.  An administrator's holds   *)
(* nothing while it waits.                                                 *)
RollbackLine(s) ==
  /\ tx[s] # Idle
  /\ Reply(s)
  /\ UNCHANGED <<identity, stored, attempts>>

Waits(s) ==
  \/ tx[s].op \in {"link", "linkNew", "unlink"}
  \/ Handling(s, "insert") \/ Handling(s, "unlink")
Blockers(s) == {t \in Sessions \ {s} : Waits(s) /\ Holds(t, tx[s].user)}
Deadlocked(s) ==
  \E D \in SUBSET Webhooks : s \in D /\ \A t \in D : Blockers(t) \cap D # {}

BreakDeadlock(s) ==
  /\ Deadlocked(s)
  /\ Reply(s)
  /\ UNCHANGED <<identity, stored, attempts>>

WebhookStep(s) ==
  \/ Ignore(s) \/ FindIdentity(s) \/ InsertIdentity(s) \/ UnlinkIdentity(s)
  \/ RejectMessage(s) \/ CommitDelivery(s)
AdminStep(s) == CommitLink(s) \/ CommitLinkNew(s) \/ CommitUnlink(s)

(* What goes on by itself, and what may fail.                              *)
LineSteady ==
  \/ \E s \in Webhooks : (\E d \in Deliveries : Deliver(s, d)) \/ WebhookStep(s)
  \/ \E s \in Admins :
       \/ \E l \in Links : ReadForLink(s, l[1], l[2])
       \/ \E i \in IdentityIds : ReadForUnlink(s, i)
       \/ AdminStep(s)
  \/ \E s \in Webhooks : BreakDeadlock(s)
LineNext == LineSteady \/ \E s \in Sessions : RollbackLine(s)

LineSpec == LineInit /\ [][LineNext]_lineVars

(* A transaction goes on when it can, and a deadlock is found.  Nobody has *)
(* to send one.  Who waits for a row is queued by the database; that no    *)
(* wait is for ever follows from this already, as no delivery is sent      *)
(* without end and administrators hold no row while they wait.             *)
LineFairness ==
  /\ \A s \in Webhooks : WF_lineVars(WebhookStep(s))
  /\ \A s \in Admins : WF_lineVars(AdminStep(s))
  /\ WF_lineVars(\E s \in Webhooks : BreakDeadlock(s))
LineFairSpec == LineSpec /\ LineFairness
LineSteadySpec == LineInit /\ [][LineSteady]_lineVars /\ LineFairness
-------------------------------------------------------------------------------
LineTypeOK ==
  /\ identity \in [IdentityIds -> IdentityRows \cup {NoRow}]
  /\ DOMAIN stored = Deliveries
  /\ \A d \in Deliveries : stored[d] \in [1 .. Len(Events[d]) -> 0 .. Attempts[d]]
  /\ attempts \in [Deliveries -> Nat]
  /\ \A d \in Deliveries : attempts[d] <= Attempts[d]
  /\ tx \in [Sessions -> WebhookRequests \cup LinkRequests \cup {Idle}]
  /\ \A s \in Sessions : tx[s].op = "webhook" => s \in Webhooks
  /\ \A s \in Sessions : tx[s].op \notin {"webhook", "idle"} => s \in Admins

(* A LINE user has one active identity, although two deliveries, or a      *)
(* delivery and an administrator, may both have found none.                *)
OneActiveIdentity == \A u \in LineUsers : Cardinality(ActiveRows(identity, u)) <= 1

(* A delivery is recorded as a whole, each time it is: DeliveryLog.        *)
Log == INSTANCE DeliveryLog WITH
         Ids <- Deliveries, Length <- [d \in Deliveries |-> Len(Events[d])],
         Times <- Attempts, recorded <- stored
RecordedWhole == Log!LogSpec

(* linkIdentityToCustomer does not test that the identity is still without *)
(* a customer, so links that overlap may take an identity over from each   *)
(* other.  Only those that read it before it was linked can, each of them  *)
(* once: from the link to the unlink, the contestants only become fewer,   *)
(* and every change of the customer uses one of them up.                   *)
Contestants(i) == {s \in Admins : tx[s].op = "link" /\ tx[s].id = i}
TakeoversContested ==
  [][\A i \in IdentityIds :
       identity[i] # NoRow /\ identity'[i] # NoRow /\ identity[i].customer # "null" =>
         /\ Contestants(i)' \subseteq Contestants(i)
         /\ identity'[i].customer # identity[i].customer => Contestants(i)' # Contestants(i)]_lineVars

(* With one administrator: an identity is not given to another customer    *)
(* without being unlinked.  With two this is not so.                       *)
LinkKept ==
  [][\A i \in IdentityIds :
       identity[i] # NoRow /\ identity'[i] # NoRow
       => identity[i].customer \in {"null", identity'[i].customer}]_lineVars

(* Every delivery, link and unlink is answered, deadlocks included: each   *)
(* session is idle again and again.                                        *)
LineAnswers == \A s \in Sessions : []<>(tx[s] = Idle)

(* A text of a customer who has an open case is recorded, once its handler *)
(* has found both, while nothing fails.                                    *)
TextRecorded ==
  \A d \in Deliveries :
    (\E s \in Webhooks : Handling(s, "message") /\ tx[s].delivery = d)
    ~> \A i \in 1 .. Len(Events[d]) : stored[d][i] > 0
-------------------------------------------------------------------------------
(* The invariant of the proofs.  Transactions under way write rows of      *)
(* their own, and of users of their own; a row one has inserted is in no   *)
(* other's sight; in the sight of each a user has one active row; and each *)
(* recording of a delivery is one of its attempts.                         *)
UsersApart ==
  \A s, t \in Sessions, u \in LineUsers : Holds(s, u) /\ Holds(t, u) => s = t
WritesApart ==
  \A s, t \in Sessions : s # t => DOMAIN Wrote(s) \cap DOMAIN Wrote(t) = {}
InsertsNew ==
  \A s \in Sessions : \A i \in DOMAIN Wrote(s) :
    Wrote(s)[i] # NoRow => identity[i] = NoRow /\ Wrote(s)[i].customer = "null"
AtMostOne(t, u) == \A i, j \in ActiveRows(t, u) : i = j
OneRowInSight ==
  \A u \in LineUsers : AtMostOne(identity, u) /\ \A s \in Sessions : AtMostOne(Seen(s), u)

Refers(s, i) == tx[s].op # "idle" /\ tx[s].id = i
ReferencesHold ==
  \A s \in Sessions, i \in IdentityIds : Refers(s, i) =>
    /\ Seen(s)[i] = NoRow \/ Seen(s)[i].user = tx[s].user
    /\ \A t \in Sessions \ {s} : i \in DOMAIN Wrote(t) => Wrote(t)[i] = NoRow
EventsKept ==
  \A s \in Sessions : tx[s].op = "webhook" /\ tx[s].at # "event" =>
    /\ MoreEvents(s) /\ tx[s].user = Event(s).user
    /\ tx[s].at = "unlink" => tx[s].id \in IdentityIds

Delivering(d) == {s \in Webhooks : tx[s].op = "webhook" /\ tx[s].delivery = d}
DeliveriesCounted ==
  \A d \in Deliveries : \A i \in 1 .. Len(Events[d]) :
    stored[d][i] + Cardinality(Delivering(d)) <= attempts[d]

LineInv ==
  /\ LineTypeOK /\ DeliveriesCounted /\ EventsKept
  /\ UsersApart /\ WritesApart /\ InsertsNew /\ OneRowInSight /\ ReferencesHold

(* With one administrator, what he is about to link has no customer yet.   *)
LinkBacked ==
  \A s \in Admins : tx[s].op = "link" =>
    /\ tx[s].id \in IdentityIds
    /\ identity[tx[s].id] = NoRow \/ identity[tx[s].id].customer = "null"
===============================================================================
