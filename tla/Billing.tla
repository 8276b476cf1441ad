------------------------------ MODULE Billing ------------------------------
(***************************************************************************)
(* The billing service (apps/billing/src): subscriptions, Stripe webhooks, *)
(* top-ups of the credits a user's API calls are paid from, and the alert  *)
(* mails.  A handler stops at every await that another one can come        *)
(* between: the processed-event check, the mark, the row, the balance, the *)
(* grant.  The balance lives in the ledger behind the gateway, which keeps *)
(* one event per nonce and amount; a balance that cannot be read counts as *)
(* zero, and an answer may be lost after the grant is stored.  Stripe      *)
(* delivers an event until it is acknowledged, and gives up waiting while  *)
(* the earlier delivery still runs.                                        *)
(***************************************************************************)
EXTENDS Integers, FiniteSets, Sequences

CONSTANTS
  Payers,        \* users
  Monthly,       \* plan slug -> monthly_credits
  PlanOfPrice,   \* Stripe price -> plan slug; the annual prices are not in it
  AnnualPrices,  \* prices only stripe_annual_price_id knows
  Grants,        \* amounts an administrator grants
  Alerts,        \* THRESHOLDS: <<percent, ...>>, highest first
  BillSlots,     \* handlers under way
  Ledgers        \* bounds to choose from: the balance and the open checkouts to start
                 \* with, deliveries of one event, and how many Stripe changes, calls,
                 \* spent credits, notification passes, faults and crashes there are

ASSUME BillingAssumption ==
  /\ "free" \in DOMAIN Monthly
  /\ \A p \in DOMAIN Monthly : Monthly[p] \in Nat
  /\ \A x \in DOMAIN PlanOfPrice : PlanOfPrice[x] \in DOMAIN Monthly
  /\ Grants \subseteq Int \ {0}
  /\ \A l \in Ledgers : l.start \in Int /\ l.open \subseteq DOMAIN PlanOfPrice \cup AnnualPrices
  /\ IsFiniteSet(Payers)

VARIABLES
  subs,      \* table subscriptions
  processed, \* table processed_stripe_events
  notified,  \* table billing_notifications: <<user, threshold>>
  credits,   \* the ledger: account credits of each __billing__ bucket
  granted,   \* the ledger: <<user, nonce, amount>> of the grants it holds
  sessions,  \* Stripe: open checkout sessions
  events,    \* Stripe: the events it made
  due,       \* Stripe: ids of the events it has not seen acknowledged
  job,       \* the handlers
  watch,     \* the notification loop
  customers, \* Stripe: customers made
  nonces,    \* random nonces drawn
  tries,     \* history: deliveries of each event
  over,      \* history: deliveries that have ended, <<event, delivery>>
  credited,  \* history: what each delivery put into the ledger
  bleft      \* what is left of the bounds

stripeVars == <<sessions, events, due, customers>>
ledgerVars == <<credits, granted, credited>>
billVars == <<subs, processed, notified, credits, granted, sessions, events, due, job, watch,
              customers, nonces, tries, over, credited, bleft>>

NoSub == [plan |-> "none"]
Free == [plan |-> "free", customer |-> 0, stripe |-> 0, status |-> "free", period |-> 0]
Quiet == [st |-> "idle"]

(* A payer with an open checkout has a customer of its own.                *)
InitBilling ==
  /\ bleft \in Ledgers
  /\ \E own \in [Payers -> 1..Cardinality(Payers)] :
       /\ \A u, v \in Payers : own[u] = own[v] => u = v
       /\ subs = [u \in Payers |-> IF bleft.open = {} THEN NoSub
                                  ELSE [Free EXCEPT !.customer = own[u]]]
       /\ sessions = {x \in [user : Payers, customer : 1..Cardinality(Payers), price : bleft.open] :
                        x.customer = own[x.user]}
  /\ processed = {} /\ notified = {}
  /\ credits = [u \in Payers |-> bleft.start] /\ granted = {} /\ credited = {}
  /\ events = <<>> /\ due = {}
  /\ customers = IF bleft.open = {} THEN 0 ELSE Cardinality(Payers)
  /\ job = [s \in BillSlots |-> Quiet] /\ watch = Quiet
  /\ nonces = 0 /\ tries = <<>> /\ over = {}

Spent(field) == bleft[field] > 0 /\ bleft' = [bleft EXCEPT ![field] = @ - 1]
Move(s, j) == job' = [job EXCEPT ![s] = j]
Stage(s, st) == Move(s, [job[s] EXCEPT !.st = st])

-----------------------------------------------------------------------------
(* The subscriptions table                                                 *)

get_or_create_subscription(u) == IF subs[u] = NoSub THEN [subs EXCEPT ![u] = Free] ELSE subs

(* An UPDATE of a row that is not there changes nothing.                   *)
Update(u, r) == IF subs[u] = NoSub THEN subs ELSE [subs EXCEPT ![u] = r]

activate_subscription(u, sub, plan) ==
  Update(u, [subs[u] EXCEPT !.stripe = sub, !.plan = plan, !.status = "active", !.period = sub])
update_subscription_status(u, new) == Update(u, [subs[u] EXCEPT !.status = new])
update_period(u, period) == Update(u, [subs[u] EXCEPT !.period = period])
cancel_subscription(u) ==
  Update(u, [subs[u] EXCEPT !.status = "canceled", !.plan = "free", !.stripe = 0])
set_stripe_customer_id(u, c) == Update(u, [subs[u] EXCEPT !.customer = c])
set_plan_manual(u, plan) ==
  [get_or_create_subscription(u) EXCEPT ![u].plan = plan, ![u].status = "manual"]

ByCustomer(c) == {u \in Payers : subs[u] # NoSub /\ subs[u].customer = c}
ByStripe(sub) == {u \in Payers : subs[u] # NoSub /\ subs[u].stripe = sub}

-----------------------------------------------------------------------------
(* A handler ends.  Stripe drops an event only if it hears the success.    *)

Ends(s, ok) ==
  /\ Move(s, Quiet)
  /\ IF job[s].op = "webhook"
     THEN /\ over' = over \cup {<<job[s].e.id, job[s].n>>}
          /\ \/ ok /\ due' = due \ {job[s].e.id}
             \/ UNCHANGED due
     ELSE UNCHANGED <<over, due>>

(* The handler goes on to top the user up; exact resets the balance.       *)
TopUp(s, u, plan, nonce, exact) ==
  Move(s, [job[s] EXCEPT !.st = "balance", !.u = u, !.want = Monthly[plan], !.nonce = nonce,
                         !.exact = exact])

Job(op, st, u) == [op |-> op, st |-> st, u |-> u, e |-> Quiet, n |-> 0, after |-> {},
                   want |-> 0, nonce |-> <<"none">>, exact |-> FALSE, delta |-> 0]
Keep == UNCHANGED <<processed, notified, ledgerVars, sessions, events, customers, watch, nonces,
                    tries>>

-----------------------------------------------------------------------------
(* Stripe and its webhooks                                                 *)

Emit(new) ==
  /\ events' = events \o new
  /\ due' = due \cup {new[i].id : i \in DOMAIN new}
  /\ tries' = tries \o [i \in DOMAIN new |-> 0]

(* A paid checkout makes a subscription: its session event and an invoice. *)
StripePays ==
  /\ Spent("stripe")
  /\ \E x \in sessions :
       LET i == Len(events)
           Made(type, k) == [type |-> type, id |-> i + k, user |-> x.user, sub |-> i + 1,
                             customer |-> x.customer, price |-> x.price]
       IN  /\ sessions' = sessions \ {x}
           /\ Emit(<<Made("checkout", 1), Made("invoice", 2)>>)
  /\ UNCHANGED <<subs, processed, notified, ledgerVars, job, watch, customers, nonces, over>>

(* A renewal, a failed payment or a cancellation of a subscription.        *)
StripeEvent ==
  /\ Spent("stripe")
  /\ \E i \in DOMAIN events, type \in {"invoice", "updated", "deleted"} :
       /\ events[i].type = "checkout"
       /\ ~\E k \in DOMAIN events : events[k].type = "deleted" /\ events[k].sub = events[i].sub
       /\ Emit(<<[events[i] EXCEPT !.type = type, !.id = Len(events) + 1]>>)
  /\ UNCHANGED <<subs, processed, notified, ledgerVars, sessions, job, watch, customers, nonces,
                 over>>

stripe_webhook(s) ==
  /\ job[s] = Quiet
  /\ \E i \in due :
       /\ tries[i] < bleft.tries
       /\ tries' = [tries EXCEPT ![i] = @ + 1]
       /\ Move(s, [Job("webhook", "check", events[i].user) EXCEPT
                     !.e = events[i], !.n = tries[i] + 1,
                     !.after = {d[2] : d \in {x \in over : x[1] = i}}])
  /\ UNCHANGED <<subs, processed, notified, ledgerVars, stripeVars, watch, nonces, over, bleft>>

(* A row of processed_stripe_events.                                       *)
AlreadyProcessed(e) == e.id \in processed

is_stripe_event_processed(s) ==
  /\ job[s].st = "check"
  /\ IF AlreadyProcessed(job[s].e) THEN Ends(s, TRUE) ELSE Stage(s, "mark") /\ UNCHANGED <<over, due>>
  /\ Keep /\ UNCHANGED <<subs, bleft>>

(* Marked before it is handled: a failure from here on is not repaired by  *)
(* Stripe's retry.                                                         *)
mark_stripe_event_processed(s) ==
  /\ job[s].st = "mark"
  /\ processed' = processed \cup {job[s].e.id}
  /\ Stage(s, job[s].e.type)
  /\ UNCHANGED <<subs, notified, ledgerVars, stripeVars, watch, nonces, tries, over, bleft>>

(* Faulty variant: a nonce of its own for every delivery.                  *)
NoncePerDelivery(j) == <<j.e.type, j.e.id, j.n>>

NonceOf(j) == <<j.e.type, j.e.id>>

(* The price is looked up among the monthly ones: an annual checkout ends  *)
(* here.                                                                   *)
handle_checkout_completed(s) ==
  LET e == job[s].e
  IN  /\ job[s].st = "checkout"
      /\ \/ Spent("faults") /\ Ends(s, FALSE) /\ UNCHANGED subs
         \/ /\ e.price \notin DOMAIN PlanOfPrice
            /\ Ends(s, TRUE) /\ UNCHANGED <<subs, bleft>>
         \/ /\ e.price \in DOMAIN PlanOfPrice
            /\ subs' = activate_subscription(e.user, e.sub, PlanOfPrice[e.price])
            /\ TopUp(s, e.user, PlanOfPrice[e.price], NonceOf(job[s]), FALSE)
            /\ UNCHANGED <<over, due, bleft>>
      /\ Keep

handle_invoice_paid(s) ==
  /\ job[s].st = "invoice"
  /\ \/ ByCustomer(job[s].e.customer) = {} /\ Ends(s, TRUE)
     \/ /\ \E u \in ByCustomer(job[s].e.customer) :
             TopUp(s, u, subs[u].plan, NonceOf(job[s]), FALSE)
        /\ UNCHANGED <<over, due>>
  /\ Keep /\ UNCHANGED <<subs, bleft>>

(* After the invoice's top-up; skipped if Stripe cannot be asked.          *)
InvoicePeriod(s) ==
  /\ job[s].st = "period"
  /\ subs' \in {subs, update_period(job[s].u, job[s].e.id)}
  /\ Ends(s, TRUE)
  /\ Keep /\ UNCHANGED bleft

handle_subscription_updated(s) ==
  /\ job[s].st = "updated"
  /\ IF ByStripe(job[s].e.sub) = {} THEN UNCHANGED subs
     ELSE \E u \in ByStripe(job[s].e.sub) : subs' = update_subscription_status(u, "past_due")
  /\ Ends(s, TRUE)
  /\ Keep /\ UNCHANGED bleft

handle_subscription_deleted(s) ==
  /\ job[s].st = "deleted"
  /\ \/ ByStripe(job[s].e.sub) = {} /\ Ends(s, TRUE) /\ UNCHANGED subs
     \/ /\ \E u \in ByStripe(job[s].e.sub) :
             /\ subs' = cancel_subscription(u)
             /\ TopUp(s, u, "free", NonceOf(job[s]), FALSE)
        /\ UNCHANGED <<over, due>>
  /\ Keep /\ UNCHANGED bleft

-----------------------------------------------------------------------------
(* Reading the balance and posting the difference                          *)

Positive(x) == IF x > 0 THEN x ELSE 0

(* What follows a successful top-up, or none.                              *)
Topped(s) ==
  IF job[s].op = "webhook" /\ job[s].e.type = "invoice"
  THEN Stage(s, "period") /\ UNCHANGED <<over, due>>
  ELSE Ends(s, TRUE)

(* get_billing_balance: a refusal is zero, and so is an error.             *)
get_billing_balance(s) ==
  LET u == job[s].u
      Seen(b) == LET d == job[s].want - b IN IF job[s].exact THEN d ELSE Positive(d)
      Go(b) == IF Seen(b) = 0 THEN Topped(s)
               ELSE /\ Move(s, [job[s] EXCEPT !.st = "post", !.delta = Seen(b)])
                    /\ UNCHANGED <<over, due>>
  IN  /\ job[s].st = "balance"
      /\ \/ Go(credits[u]) /\ UNCHANGED bleft
         \/ Spent("faults") /\ Go(0)
      /\ Keep /\ UNCHANGED subs

(* create_billing_event: the ledger keeps one event per nonce and amount   *)
(* and refuses a debit that overdraws.                                     *)
create_billing_event(s) ==
  LET j == job[s]
      grant == <<j.u, j.nonce, j.delta>>
      refused == j.delta < 0 /\ credits[j.u] + j.delta < 0
      Stored == IF grant \in granted THEN UNCHANGED ledgerVars
                ELSE /\ granted' = granted \cup {grant}
                     /\ credits' = [credits EXCEPT ![j.u] = @ + j.delta]
                     /\ credited' = IF j.op = "webhook"
                                    THEN credited \cup {[e |-> j.e.id, n |-> j.n, after |-> j.after,
                                                         amount |-> j.delta]}
                                    ELSE credited
  IN  /\ j.st = "post"
      /\ \/ refused /\ Ends(s, FALSE) /\ UNCHANGED <<ledgerVars, bleft>>
         \/ ~refused /\ Stored /\ Topped(s) /\ UNCHANGED bleft
         \/ ~refused /\ Stored /\ Spent("faults") /\ Ends(s, FALSE)
         \/ Spent("faults") /\ Ends(s, FALSE) /\ UNCHANGED ledgerVars
      /\ UNCHANGED <<subs, processed, notified, sessions, events, customers, watch, nonces, tries>>

-----------------------------------------------------------------------------
(* Users and administrators                                                *)

Call(s) == job[s] = Quiet /\ Spent("calls")

(* status: auto-provision, under one nonce per user and month.             *)
status(s, u) ==
  LET row == get_or_create_subscription(u)[u]
  IN  /\ Call(s)
      /\ subs' = get_or_create_subscription(u)
      /\ Move(s, [Job("status", "balance", u) EXCEPT !.want = Monthly[row.plan],
                                                     !.nonce = <<"grant">>])
      /\ Keep /\ UNCHANGED <<over, due>>

(* portal, load_subscription_dto: the row is made and read.                *)
portal(u) ==
  /\ subs[u] = NoSub
  /\ Spent("calls")
  /\ subs' = get_or_create_subscription(u)
  /\ Keep /\ UNCHANGED <<over, due, job>>

(* checkout: the customer as the row has it, or none yet.                  *)
checkout(s, u, x) ==
  /\ Call(s)
  /\ subs' = get_or_create_subscription(u)
  /\ Move(s, [Job("checkout", "customer", u) EXCEPT
                !.want = get_or_create_subscription(u)[u].customer, !.nonce = <<x>>])
  /\ Keep /\ UNCHANGED <<over, due>>

(* Customer::create, set_stripe_customer_id, CheckoutSession::create.      *)
CheckoutSession(s) ==
  LET j == job[s]
      new == j.want = 0
      c == IF new THEN customers + 1 ELSE j.want
  IN  /\ j.st = "customer"
      /\ customers' = IF new THEN c ELSE customers
      /\ subs' = IF new THEN set_stripe_customer_id(j.u, c) ELSE subs
      /\ sessions' = sessions \cup {[user |-> j.u, customer |-> c, price |-> j.nonce[1]]}
      /\ Move(s, Quiet)
      /\ UNCHANGED <<processed, notified, ledgerVars, events, due, watch, nonces, tries, over,
                     bleft>>

(* set_plan: a plan without credits leaves the balance alone.              *)
set_plan(s, u, plan) ==
  /\ Call(s)
  /\ subs' = set_plan_manual(u, plan)
  /\ nonces' = nonces + 1
  /\ Move(s, IF Monthly[plan] = 0 THEN Quiet
             ELSE [Job("set_plan", "balance", u) EXCEPT !.want = Monthly[plan],
                      !.nonce = <<"admin", nonces'>>, !.exact = TRUE])
  /\ UNCHANGED <<processed, notified, ledgerVars, stripeVars, watch, tries, over>>

grant_credits(s, u, amount) ==
  /\ Call(s)
  /\ nonces' = nonces + 1
  /\ Move(s, [Job("grant", "post", u) EXCEPT !.nonce = <<"admin", nonces'>>, !.delta = amount])
  /\ UNCHANGED <<subs, processed, notified, ledgerVars, stripeVars, watch, tries, over>>

(* API calls use credits up.                                               *)
UseCredit(u) ==
  /\ Spent("spends")
  /\ credits' = [credits EXCEPT ![u] = @ - 1]
  /\ UNCHANGED <<subs, processed, notified, granted, credited, stripeVars, job, watch, nonces,
                 tries, over>>

-----------------------------------------------------------------------------
(* The notification loop                                                   *)

(* check_all_users for one user: above half the alerts are forgotten,      *)
(* otherwise those whose threshold is reached and not sent are mailed.     *)
check_all_users(u) ==
  LET plan == Monthly[subs[u].plan]
      reached(b) == SelectSeq(Alerts, LAMBDA p : 100 * b <= p * plan)
      Look(b) == IF 2 * b > plan
                 THEN /\ notified' = {x \in notified : x[1] # u}
                      /\ UNCHANGED watch
                 ELSE /\ watch' = IF reached(b) = <<>> THEN Quiet
                                  ELSE [st |-> "send", u |-> u, alerts |-> reached(b)]
                      /\ UNCHANGED notified
  IN  /\ watch = Quiet /\ subs[u] # NoSub /\ plan > 0
      /\ Spent("checks")
      /\ Look(credits[u]) \/ (bleft.faults > 0 /\ Look(0))
      /\ UNCHANGED <<subs, processed, ledgerVars, stripeVars, job, nonces, tries, over>>

NextAlert == IF Len(watch.alerts) = 1 THEN Quiet
             ELSE [watch EXCEPT !.st = "send", !.alerts = Tail(@)]

(* send_email; what could not be sent is not marked.                       *)
send_email ==
  /\ watch.st = "send"
  /\ \/ /\ <<watch.u, Head(watch.alerts)>> \in notified
        /\ watch' = NextAlert /\ UNCHANGED bleft
     \/ /\ <<watch.u, Head(watch.alerts)>> \notin notified
        /\ \/ watch' = [watch EXCEPT !.st = "sent"] /\ UNCHANGED bleft
           \/ watch' = NextAlert /\ Spent("faults")
  /\ UNCHANGED <<subs, processed, notified, ledgerVars, stripeVars, job, nonces, tries, over>>

mark_notification_sent ==
  /\ watch.st = "sent"
  /\ notified' = notified \cup {<<watch.u, Head(watch.alerts)>>}
  /\ watch' = NextAlert
  /\ UNCHANGED <<subs, processed, ledgerVars, stripeVars, job, nonces, tries, over, bleft>>

(* The service restarts: handlers and loop are gone, Stripe keeps its list.*)
BillingCrash ==
  /\ Spent("crashes")
  /\ over' = over \cup {<<job[s].e.id, job[s].n>> : s \in {x \in BillSlots :
                                 job[x].st # "idle" /\ job[x].op = "webhook"}}
  /\ job' = [s \in BillSlots |-> Quiet]
  /\ watch' = Quiet
  /\ UNCHANGED <<subs, processed, notified, ledgerVars, stripeVars, nonces, tries>>

BillingNext ==
  \/ StripePays \/ StripeEvent
  \/ \E s \in BillSlots :
       \/ stripe_webhook(s) \/ is_stripe_event_processed(s) \/ mark_stripe_event_processed(s)
       \/ handle_checkout_completed(s) \/ handle_invoice_paid(s) \/ InvoicePeriod(s)
       \/ handle_subscription_updated(s) \/ handle_subscription_deleted(s)
       \/ get_billing_balance(s) \/ create_billing_event(s) \/ CheckoutSession(s)
       \/ \E u \in Payers :
            \/ status(s, u)
            \/ \E x \in DOMAIN PlanOfPrice \cup AnnualPrices : checkout(s, u, x)
            \/ \E p \in DOMAIN Monthly : set_plan(s, u, p)
            \/ \E a \in Grants : grant_credits(s, u, a)
  \/ \E u \in Payers : portal(u) \/ UseCredit(u) \/ check_all_users(u)
  \/ send_email \/ mark_notification_sent
  \/ BillingCrash

BillingSpec == InitBilling /\ [][BillingNext]_billVars

-----------------------------------------------------------------------------

(* A Stripe event tops a user up once, although Stripe repeats it, answers *)
(* get lost, the service restarts and the balance moves meanwhile.  Twice  *)
(* only if two deliveries were under way together and had computed         *)
(* different amounts, which the ledger does not recognise as a repeat      *)
(* (webhooks.rs, stripe_webhook).                                          *)
CreditedOnce ==
  \A a, b \in credited :
    a.e = b.e /\ a # b => a.n \notin b.after /\ b.n \notin a.after /\ a.amount # b.amount
=============================================================================
