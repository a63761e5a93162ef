--------------------------- MODULE Subscriptions ---------------------------
(***************************************************************************)
(* An organisation's subscription, its invoice and its add-on              *)
(* (app/services/billing_service.py, app/api/routes/billing.py), and       *)
(* Stripe, which bills it and reports what happens in webhooks.            *)
(*                                                                         *)
(* Stripe is external: it delivers each event at least once, in any order, *)
(* and the calls to it may fail, which is printed and ignored.             *)
(***************************************************************************)
EXTENDS RowRequests, Sequences

CONSTANTS
    Accounts,      \* subscriptions
    MaxCheckouts,  \* bound: checkouts paid for
    MaxQueue       \* bound: Stripe's undelivered events

ASSUME CheckoutsAssumption == MaxCheckouts \in Nat

Plans == {"free_trial", "starter", "enterprise"}
Intervals == {"monthly", "annual"}
SubscriptionStatuses == {"trialing", "active", "past_due", "canceled"}

(* What Stripe reports: the status it has, at the time of the event.  Past due *)
(* stands for unpaid, incomplete and paused as well.                          *)
StripeStatuses == {"none", "active", "past_due", "canceled"}
InvoiceStatuses == {"none", "open", "paid", "uncollectible"}

(* subscription.link is stripe_subscription_id; subscription.by is history:   *)
(* who set the status last, and stripe.shuffled that an event was delivered   *)
(* before an earlier one about the same.  The queue is what is yet to be      *)
(* answered, in the order of what happened.  A price is named for what it is  *)
(* the price of.                                                              *)
Prices == {<<>>} \union (Intervals \X (Plans \union {"custom"}))
SubscriptionRow ==
    [status : SubscriptionStatuses \union {"none"}, plan : Plans, interval : Intervals,
     custom : SUBSET Intervals, price : Prices, ends : BOOLEAN,
     link : 0 .. MaxCheckouts, by : {"hand", "stripe"}]
StripeEvents ==
    [kind : {"checkout", "updated", "deleted"}, of : 1 .. MaxCheckouts,
     status : StripeStatuses, ends : BOOLEAN]
    \union [kind : {"invoice"}, status : InvoiceStatuses \ {"none"}]
StripeRow ==
    [status : [1 .. MaxCheckouts -> StripeStatuses], ends : [1 .. MaxCheckouts -> BOOLEAN],
     order : [1 .. MaxCheckouts -> Plans \X Intervals], invoice : InvoiceStatuses,
     queue : Seq(StripeEvents), shuffled : BOOLEAN]
AccountRows ==
    [subscription : SubscriptionRow,
     invoice : [status : InvoiceStatuses, dated : BOOLEAN],
     addon   : [status : {"none", "active", "canceled"}],
     stripe  : StripeRow]

NewAccount ==
    [subscription |-> [status |-> "none", plan |-> "free_trial", interval |-> "monthly",
                       custom |-> {}, price |-> <<>>, ends |-> FALSE, link |-> 0, by |-> "hand"],
     invoice |-> [status |-> "none", dated |-> FALSE],
     addon   |-> [status |-> "none"],
     stripe  |-> [status |-> [n \in 1 .. MaxCheckouts |-> "none"],
                  ends |-> [n \in 1 .. MaxCheckouts |-> FALSE],
                  order |-> [n \in 1 .. MaxCheckouts |-> <<"free_trial", "monthly">>],
                  invoice |-> "none", queue |-> <<>>, shuffled |-> FALSE]]

(* effective_price: custom terms of the interval come before the plan's. *)
EffectivePrice(s) == <<s.interval, IF s.interval \in s.custom THEN "custom" ELSE s.plan>>

Priced(r) == [r EXCEPT !.subscription.price = EffectivePrice(r.subscription)]

-----------------------------------------------------------------------------
(* Stripe. *)

Emitted(r, events) == [r EXCEPT !.stripe.queue = @ \o events]
EventOf(r, kind, n) ==
    [kind |-> kind, of |-> n, status |-> r.stripe.status[n], ends |-> r.stripe.ends[n]]
Room(e, n) == Len(rows[e].stripe.queue) + n <= MaxQueue

Bought(r, n, plan, interval) ==
    LET x == [r EXCEPT !.stripe.status[n] = "active", !.stripe.order[n] = <<plan, interval>>]
    IN  Emitted(x, <<EventOf(x, "updated", n), EventOf(x, "checkout", n)>>)

(* A checkout session is paid for: Stripe starts a subscription, also when    *)
(* the account has one.                                                       *)
PayCheckout(q, e, n, plan, interval) ==
    /\ rows[e].stripe.status[n] = "none"
    /\ \A m \in 1 .. n - 1 : rows[e].stripe.status[m] # "none"
    /\ Room(e, 2)
    /\ Handle(q, e, Bought(rows[e], n, plan, interval))

(* A charge fails or succeeds, or the customer cancels in Stripe's portal, *)
(* at the end of the period.                                                  *)
StripeUpdates(q, e, n, status, ends) ==
    /\ rows[e].stripe.status[n] \notin {"none", "canceled"}
    /\ <<status, ends>> # <<rows[e].stripe.status[n], rows[e].stripe.ends[n]>>
    /\ Room(e, 1)
    /\ LET r == [rows[e] EXCEPT !.stripe.status[n] = status, !.stripe.ends[n] = ends]
       IN  Handle(q, e, Emitted(r, <<EventOf(r, "updated", n)>>))

Canceled(r, n) ==
    LET x == [r EXCEPT !.stripe.status[n] = "canceled"]
    IN  Emitted(x, <<EventOf(x, "deleted", n)>>)

StripeCancels(q, e, n) ==
    /\ rows[e].stripe.status[n] \notin {"none", "canceled"}
    /\ Room(e, 1)
    /\ Handle(q, e, Canceled(rows[e], n))

(* An invoice is finalised, and then paid, perhaps after a failed payment. *)
StripeInvoices(q, e, status) ==
    /\ <<rows[e].stripe.invoice, status>> \in
          {<<"none", "open">>, <<"open", "paid">>, <<"open", "uncollectible">>,
           <<"uncollectible", "paid">>}
    /\ \E n \in 1 .. MaxCheckouts : rows[e].stripe.status[n] # "none"
    /\ Room(e, 1)
    /\ Handle(q, e, Emitted([rows[e] EXCEPT !.stripe.invoice = status],
                            <<[kind |-> "invoice", status |-> status]>>))

-----------------------------------------------------------------------------
(* The webhook. *)

(* Mutant of CheckoutCompleted: a subscription that is linked keeps its link. *)
CheckoutCompletedOldLink(r, v) ==
    Priced([r EXCEPT !.subscription.plan = r.stripe.order[v.of][1],
                     !.subscription.interval = r.stripe.order[v.of][2],
                     !.subscription.status = "active", !.subscription.by = "stripe",
                     !.subscription.link = IF @ = 0 THEN v.of ELSE @])

(* A checkout makes the subscription if there is none.  It leaves             *)
(* cancel_at_period_end as it was.                                            *)
CheckoutCompleted(r, v) ==
    Priced([r EXCEPT !.subscription.plan = r.stripe.order[v.of][1],
                     !.subscription.interval = r.stripe.order[v.of][2],
                     !.subscription.status = "active", !.subscription.by = "stripe",
                     !.subscription.link = v.of])

(* Events of a subscription that no row is linked to are ignored. *)
SubscriptionUpdated(r, v) ==
    IF r.subscription.link # v.of THEN r
    ELSE [r EXCEPT !.subscription.status = v.status, !.subscription.ends = v.ends,
                   !.subscription.by = "stripe"]

SubscriptionDeleted(r, v) ==
    IF r.subscription.link # v.of THEN r
    ELSE [r EXCEPT !.subscription.status = "canceled", !.subscription.by = "stripe"]

(* A row that a payment makes has no date of payment. *)
InvoiceEvent(r, v) ==
    [r EXCEPT !.invoice.status = v.status,
              !.invoice.dated = @ \/ (r.invoice.status # "none" /\ v.status = "paid")]

Handled(r, v) ==
    CASE v.kind = "checkout" -> CheckoutCompleted(r, v)
      [] v.kind = "updated" -> SubscriptionUpdated(r, v)
      [] v.kind = "deleted" -> SubscriptionDeleted(r, v)
      [] v.kind = "invoice" -> InvoiceEvent(r, v)

(* The same subscription, or the invoice. *)
SameMatter(u, v) == (u.kind = "invoice") = (v.kind = "invoice") /\ (u.kind # "invoice" => u.of = v.of)

Without(queue, i) ==
    [k \in 1 .. Len(queue) - 1 |-> IF k < i THEN queue[k] ELSE queue[k + 1]]

(* The event i of the queue is delivered; the answer takes it off the queue. *)
Delivered(r, i, answered) ==
    LET queue == r.stripe.queue
        h == [Handled(r, queue[i]) EXCEPT
                !.stripe.shuffled = @ \/ \E k \in 1 .. i - 1 : SameMatter(queue[k], queue[i])]
    IN  IF answered THEN [h EXCEPT !.stripe.queue = Without(queue, i)] ELSE h

(* Any event that was not answered may be delivered next, and is delivered    *)
(* again until Stripe has seen the answer.                                    *)
StripeWebhook(q, e, i, answered) == Handle(q, e, Delivered(rows[e], i, answered))

-----------------------------------------------------------------------------
(* The requests of the organisation and of the administrator. *)

Subscribed(e) == rows[e].subscription.status # "none"

(* my_subscription and admin_create_trial; there is no price yet. *)
CreateTrial(q, e) ==
    /\ Free(e, "subscription", "status", "none")
    /\ Handle(q, e, [rows[e] EXCEPT !.subscription.status = "trialing"])

AdminUpdate(q, e, plan, custom) ==
    /\ Subscribed(e)
    /\ Handle(q, e, Priced([rows[e] EXCEPT !.subscription.plan = plan,
                                           !.subscription.custom = custom]))

AdminSetStatus(q, e, status) ==
    /\ Subscribed(e)
    /\ Handle(q, e, Priced([rows[e] EXCEPT !.subscription.status = status,
                                           !.subscription.by = "hand"]))

ActivateSubscription(q, e) ==
    /\ Subscribed(e)
    /\ Handle(q, e, Priced([rows[e] EXCEPT !.subscription.status = "active",
                                           !.subscription.ends = FALSE,
                                           !.subscription.by = "hand"]))

(* The call to Stripe that a subscription with a link makes; if it fails, or  *)
(* Stripe has ended the subscription, nothing changes there.                  *)
Reaches(e) ==
    /\ rows[e].subscription.link # 0
    /\ rows[e].stripe.status[rows[e].subscription.link] # "canceled"

TerminateSubscription(q, e, ok) ==
    /\ Subscribed(e)
    /\ ok => Reaches(e) /\ Room(e, 1)
    /\ LET r == [rows[e] EXCEPT !.subscription.status = "canceled",
                                !.subscription.ends = FALSE, !.subscription.by = "hand"]
       IN  Handle(q, e, IF ok THEN Canceled(r, r.subscription.link) ELSE r)

(* To cancel at once also tells Stripe not to cancel at the period's end, and *)
(* nothing else: Stripe's subscription lives on.                              *)
CancelSubscription(q, e, atEnd, ok) ==
    /\ Subscribed(e)
    /\ ok => Reaches(e) /\ Room(e, 1)
    /\ LET n == rows[e].subscription.link
           r == [rows[e] EXCEPT
                   !.subscription.ends = atEnd,
                   !.subscription.status = IF atEnd THEN @ ELSE "canceled",
                   !.subscription.by = IF atEnd THEN @ ELSE "hand"]
           x == [r EXCEPT !.stripe.ends[n] = atEnd]
       IN  Handle(q, e, IF ok THEN Emitted(x, <<EventOf(x, "updated", n)>>) ELSE r)

(* The plan is looked at when the add-on is bought, and its status is not. *)
PurchaseAddon(q, e) ==
    /\ Subscribed(e)
    /\ rows[e].subscription.plan = "enterprise"
    /\ Handle(q, e, [rows[e] EXCEPT !.addon.status = "active"])

CancelAddon(q, e) ==
    /\ rows[e].addon.status # "none"
    /\ Handle(q, e, [rows[e] EXCEPT !.addon.status = "canceled"])

AccountRequest(q, e) ==
    \/ \E n \in 1 .. MaxCheckouts, plan \in Plans \ {"free_trial"}, interval \in Intervals :
         PayCheckout(q, e, n, plan, interval)
    \/ \E n \in 1 .. MaxCheckouts, status \in StripeStatuses \ {"none", "canceled"}, ends \in BOOLEAN :
         StripeUpdates(q, e, n, status, ends)
    \/ \E n \in 1 .. MaxCheckouts : StripeCancels(q, e, n)
    \/ \E status \in InvoiceStatuses : StripeInvoices(q, e, status)
    \/ \E i \in DOMAIN rows[e].stripe.queue, answered \in BOOLEAN : StripeWebhook(q, e, i, answered)
    \/ CreateTrial(q, e) \/ ActivateSubscription(q, e)
    \/ \E plan \in Plans, custom \in SUBSET Intervals : AdminUpdate(q, e, plan, custom)
    \/ \E status \in SubscriptionStatuses : AdminSetStatus(q, e, status)
    \/ \E ok \in BOOLEAN : TerminateSubscription(q, e, ok)
    \/ \E atEnd, ok \in BOOLEAN : CancelSubscription(q, e, atEnd, ok)
    \/ PurchaseAddon(q, e) \/ CancelAddon(q, e)

-----------------------------------------------------------------------------
(* What the webhook has written, of a subscription s, an invoice i and what    *)
(* Stripe has, x.                                                             *)
Mirrored(s, i, x) ==
    /\ s.by = "stripe" /\ s.status = "canceled" => x.status[s.link] = "canceled"
    /\ i.status = "paid" => x.invoice = "paid"
    /\ x.queue = <<>> /\ i.status = "paid" => i.dated
    /\ x.queue = <<>> /\ ~x.shuffled =>
         /\ s.by = "stripe" => s.status = x.status[s.link]
         /\ i.status = x.invoice

(* In whatever order Stripe delivers, and however often, the webhook marks no  *)
(* subscription as cancelled and no invoice as paid that is not so at Stripe, *)
(* and when every event has been answered a paid invoice has its date.  If    *)
(* those about one thing came in their order too, a status that the webhook   *)
(* set last is the one Stripe has for the subscription the row is linked to,  *)
(* and so is the invoice: whatever was cancelled, bought again and delivered  *)
(* twice.                                                                     *)
(* The handlers have no guard against another order: a late update puts back  *)
(* a status that Stripe has left, and an invoice that is finalised late is    *)
(* open again after it was paid.                                              *)
MirrorsStripe ==
    \A e \in Accounts \ raced : Mirrored(rows[e].subscription, rows[e].invoice, rows[e].stripe)

(* The stored price is the one of the plan, interval and custom terms the     *)
(* subscription has now, whoever changed them last.                           *)
PriceOfPlan ==
    \A e \in Accounts \ raced :
        LET s == rows[e].subscription
        IN  s.price # <<>> => s.price = EffectivePrice(s)

=============================================================================
