# A formal model of the jewellery back office

TLA+ modules that model the core logic of the Odoo 18 add-ons of this repository, TLC
configurations that check them on small instances, and theorems about them that the TLA+
proof system (TLAPS) checks for instances of every size.

Contents: 1 inventory, 2 modules and how they correspond to the code, 3 runs, 4 proofs,
5 what is not modelled, 6 plan. `PROJECT.json` has the same by name: components, runs,
the lines each definition stands for (`map`), mutants, hazards, findings and theorems.

## 1. Inventory

The repository is a set of 38 Odoo 18 add-ons, about 48,000 lines of Python. Its own
logic, 25,000 of them, is in `contact_stage_bar`: the trade in lab-grown diamonds (LGD)
between vendors, the company and its customers, and keeping it in step with the customer
website. The other add-ons are smaller extensions and third-party modules (OCA, Odoo
Mates, MuK), of which `queue_job` (6,500 lines, a job queue with its own scheduler) has
the most behaviour. `contact_stage_bar` has no tests.

| component | state it keeps | operations | interacts with | what makes it correct |
|---|---|---|---|---|
| **Stone operations** (`lgd_ops_purchase_line.py`, `lgd_ops_purchase_order.py`) | stage of each purchase line, memo-return mark, quantity, state of the RFQ or PO, receipts and return moves | receive, reject, hand over, QC receive / pass / fail, confirm ready stones (split), accept, take on memo, mark returned, void or cancel a PO | sale lines (status), Odoo's purchase and stock | no stone bought twice, nothing ours that was not bought, no order left to pay whose stones went back, no stone stranded |
| **Status of a sale line** (`sale_order.py`) | `availability_status` of each line, status of the order | save statuses, website status call, cancel a line, automatic procurement, approval of a cancellation | stone operations, website, replacement | a status moves along the allowed transitions only, the order's status agrees with its lines |
| **Inventory and dispatch** (`lgd_inventory_sale_line.py`, `lgd_dispatch.py`, `wizard/lgd_dispatch_wizards.py`) | vault and dispatch flags, parcels with type, state, approval, batch and slips, outcome of each memo stone | put in vault, hand to Dispatch, make parcels, split, approve or refuse, print slips, hand over, deliver, return of order, re-dispatch, complete order, record a memo return | stone operations, customer invoice, stock, website | the stock is booked with the parcels, the slip lists the box, nothing leaves unapproved |
| **Customer invoices** (`lgd_customer_invoice.py`) | one open draft per order, posted invoices | prepare, re-scope to memos, narrow to a parcel, post | every write of a parcel's type or state and of a line's parcel | a stone is billed once, a memo stone only when kept |
| **Website status sync** (`sale_order.py`, `augmont_api_retry.py`, `controllers/website_api_route.py`) | status last sent for each line, retry rows | push a batch, mark, retry cron, inbound status calls | the website, inside database transactions | the two sides agree in the end; a status is left out of a call only if the website has it |
| **Replacement** (`stone_replacement_wizard.py`, `stone_replacement_api.py`, `lgd_replacement_push.py`) | replacement link, pending flag | propose, confirm, reject, push | sale lines, website | a pending replacement can be decided, a replaced stone has its successor, a swap is told once |
| **Offline orders** (`lgd_offline_push.py`, `customer_rfq.py`, `custom_sale_order`) | ids and push state of an order made in Odoo, RFQ of a customer, price checks | push, adopt ids, retry; send to procurement, send back, cancel | the website | an order is on the website in full under the right ids; what is sold is what was quoted |
| **Payments** (`lgd_payment_state.py`, `payment_offline_sales`, `odoo_payment_payu`) | payment state, transactions | pay, callback, webhook, bank transfer | orders, invoices | paid means paid: each line has its proof, the order shows it only then |
| **Document numbers** (`lgd_doc_series.py`) | counters per type, channel and financial year | next number | memos, invoices, orders | numbers are consecutive, and unique but for a race the repair ends |
| **Job queue** (`queue_job`) | state, retries, eta of each job, its lock row; the runner's channels | enqueue, start, lock, perform, done, fail, postpone, cancel, requeue of dead jobs, wake dependents | HTTP requests to workers, PostgreSQL notifications | capacity respected, effects once, parents first, every job ends |
| **Quality inspections** (`quality_control_oca`) | inspections and their lines | new, fill, confirm, approve | stock | a closed inspection stays as it was decided |
| **Sale orders** (`sale_order.py`, cancellation wizards) | state, status, lines and RFQs of an order | book, confirm, edit statuses, request, approve and reject a cancellation, cancel unavailable lines, pack | Odoo's purchase, replacement, website | the status follows the lines; what is cancelled takes along what it must and nothing else |
| **Website calls** (`controllers/website_api_route.py`) | orders, products, lines | bring an order, set statuses, singly or in bulk | everything that writes a line | an answered call is booked once and in full; what is answered is stored |
| **Transfers** (`stock_picking.py`) | pickings, verdicts of inspections | validate, pass, fail, return, re-dispatch | Odoo's stock, sale lines | nothing leaves without inspection and payment |
| **Partners** (`res_partner.py`, `lgd_ship_address.py`) | stage of an account, addresses | edit, advance, copy from the website, migrate | orders | gated stages hold complete accounts; the migration settles |
| **Assets** (`om_account_asset`) | assets, boards, entries | compute, post, reverse, modify, close | bills, accounting | depreciation sums to the value (but for an ending date), one asset per bill runs |
| **Accounting add-ons** (other `om_account_*`, `om_recurring_payments`, `om_fiscal_year`, `accounting_pdf_reports`) | budgets, follow-ups, recurring payments | compute, post, remind | accounting | a due line is generated once |
| **The rest** (projects, HR, goals, CRM, telephony, website, themes) | fields of single records | buttons and views | | little behaviour over several steps |

What is hard here:

- Several departments and the website write the same records, in transactions at
  PostgreSQL's REPEATABLE READ: what a transaction read may be old when it writes.
- HTTP calls to the website are made inside these transactions, before the commit, and are
  repeated after failures by a retry queue, by the server (serialization failures) and by
  users.
- A stone changes hands some ten times. Every step is guarded by the stage it finds, so
  what is possible is decided by sequences of individually legal steps: RFQs are split
  while stones are half way, a stone comes back from a customer and meets the guards of
  the inbound way, orders are voided when their last stone goes.
- One document stands for many stones. The one open draft invoice of an order is narrowed,
  re-scoped and posted by parcels that know nothing of each other.
- The job runner schedules from a memory that notifications update late, and asks for jobs
  by requests that nobody acknowledges.

## 2. Modules

| module | models | code |
|---|---|---|
| `StoneOps` | the stages of purchase lines and the orders they are on, from the RFQ to the inventory, the vendor or a customer memo and back | `lgd_ops_purchase_line.py`, `lgd_ops_purchase_order.py`, parts of `sale_order.py`, `lgd_inventory_sale_line.py` |
| `Dispatch` | the stones of a confirmed order from the vault to the customer, parcels, memos and the order's invoices | `lgd_dispatch.py`, `wizard/lgd_dispatch_wizards.py`, `lgd_customer_invoice.py`, `lgd_inventory_sale_line.py` |
| `StatusSync` | the status of the lines of one order, here and on the website | `sale_order.py`, `augmont_api_retry.py`, `controllers/website_api_route.py` |
| `SiteStatuses` | the table of transitions both sides follow; used by `StatusSync`, `ReplacementPush` | `sale_order.py` |
| `JobQueue` | the table of jobs, the runner, the workers and the users | `queue_job` |
| `JobGraph` | abstract: what `queue_job` promises of a graph of jobs; `JobQueue` implements it | |
| `Channels` | the runner's tree of channels: queues, sequences, etas, throttles and its timer | `queue_job/jobrunner/channels.py` |
| `Delayables` | graphs, chains and groups of jobs as a program builds them, and what is stored of them | `queue_job/delay.py`, `queue_job/job.py` |
| `OrderRules` | the status of an order as a function of those of its lines | `sale_order.py` |
| `SaleOrders` | a sale order from its booking to its cancellation, its RFQs and payment | `sale_order.py`, the cancellation wizards, `wizard/pay_confirm.py` |
| `Replacement` | extends `SaleOrders`: replacing a stone, by Procurement and by the customer | `stone_replacement_wizard.py`, `stone_replacement_api.py`, `sale_order.py` |
| `ReplacementPush` | telling the website about a replacement | `lgd_replacement_push.py` |
| `OfflinePush` | bringing an order made in Odoo to the website, its ids, its parcels | `lgd_offline_push.py`, `augmont_api_retry.py` |
| `WebsiteOrders` | the website's call that brings an order | `controllers/website_api_route.py` |
| `StatusApi` | the website's calls that set statuses | `controllers/website_api_route.py`, `sale_order.py` |
| `CustomerRfq` | a quote, its price, and the order made of it | `customer_rfq.py`, `custom_sale_order` |
| `Transfers` | receipt, inspection, staging, delivery of the stones of an order | `stock_picking.py` |
| `Payments` | payment of an offline order by link or by hand | `payment_offline_sales`, `odoo_payment_payu`, `custom_sale_order` |
| `Partners` | accounts and their stages; delivery addresses and their migration | `res_partner.py`, `lgd_ship_address.py` |
| `DocSeries` | document numbers and their repair | `lgd_doc_series.py` |
| `Assets` | assets, depreciation boards and entries | `om_account_asset` |
| `MC...` | the small instances for TLC | |
| `..._proofs` | inductive invariants and theorems of the module they are named after; `Office_proofs` has those of `Payments`, `Transfers`, `StatusApi`, `Partners`, `CustomerRfq`, `DocSeries` and `Assets`, `Replacement_proofs` also that of `ReplacementPush`, `JobQueue_proofs` also those of `Channels` and `Delayables`, `OfflinePush_proofs` also that of `WebsiteOrders` | |
| `CountingUp` | facts about numbers that these proofs share | |

The modules meet at the sale line. `StoneOps` puts a stone of ours into the vault, where
`Dispatch` begins; a memo return makes `Dispatch` send the stone back to the QC stages of
`StoneOps` (`MemoReturned` there, `MemoReturn` here). Every status that any of them
writes is pushed as `StatusSync` describes and summed up as `OrderRules` says.
`Replacement` is composed with `SaleOrders` (it extends it: everything that can happen to an
order happens between two steps of a replacement), and `JobQueue` with `JobGraph` by
refinement. The other neighbours are not composed: what one needs of another is a
nondeterministic action in it (`QcDecides` in `Dispatch`, `SaleStep` in `StoneOps`, `Save`
in `StatusSync`, `Deaths` in `Transfers`, `Move` in `ReplacementPush`), so that each is
checked, and proved, against everything its neighbours may do.

### 2.1 StoneOps

Line `l` is a `purchase.order.line` bought for one stone (a `sale.order.line`); a stone gets
a new line when it is split off its RFQ. The variables are the fields named in the module.
One action is one button (one RPC) of Inventory, QC, Procurement or Logistics, with all
that its writes trigger: `FailInbound` zeroes the quantity, restates the receipt, sets the
sale line's status and, if nothing live is left, voids or cancels the order
(`VoidOrCancel`, `_lgd_void_or_cancel_po`); `ConfirmReadyStones` either confirms the whole RFQ
or splits the ready stones into a new order and confirms that.

Choices made:

- The handlers take recordsets; they check all records and then treat one after another,
  which is a sequence of single-line steps. A line buys one unit, so quantities are 0 or 1.
- `sent` is `draft`, and `diamond_booked` and `confirmed` are one status: no handler of this
  flow tells them apart.
- `button_confirm`, receipts and return pickings belong to Odoo's purchase and stock
  applications; they are modelled from how this code uses them and marked external.
- Cancelling an order with Odoo's own button, and receiving in the warehouse application
  without the operations screens, are not modelled. Stones sold as a set are not either.
- The website and Sales write the same status without going through these buttons. `SaleWords`
  is the set of statuses they write: none (the operations flow alone) or all. Odoo logs a
  transition its table does not list and saves it all the same, so any may follow any. A
  write starts what it starts in the code: confirmation and receipt of the RFQs of an order all
  of whose stones are In QC, cancellation or reduction of the RFQs of a line given up. The
  inspection transfer that some of these writes validate belongs to `Transfers`.
- `payment_completed` stands for all the statuses after a payment that this flow treats
  alike.

### 2.2 Dispatch

One sale order. `status`, `vault`, `atDispatch`, `dest` and `outcome` are fields of its lines,
`parcelOf` their `lgd_dispatch_id`, `parcel` the `lgd.dispatch` records; `draft` is the set of
stones on the order's one open draft invoice, `posted` counts the posted invoice lines of
each. `Prepare`, `Rescope` and `Narrow` are `_lgd_try_create_invoice`,
`_lgd_sync_invoice_scope` and `_lgd_narrow_draft_to_parcel`; every write of a parcel's type
or state and of a line's parcel ends with `Rescope`, inside the action that writes.

Choices made:

- Products are invoiced on ordered quantity. The order stays confirmed, and statuses that
  the website writes meanwhile belong to `StatusSync`.
- `Held` stones are a vendor's until bought. Buying one in while it is out is left out, so
  `Held` is a constant, and a held stone is not cancelled; `Cancellable` is a bound on who
  else is.
- Label, ticks of the checklist, courier, tracking number and dates are typed in before the
  hand-over and change nothing else: left out. The invoice slip and the memo slip stay,
  because a split must clear them.
- `PostInvoice` (`action_lgd_post_invoice`) has no button but is public; Accounting posts the
  same draft with Odoo's button.

### 2.3 StatusSync

One order whose lines have website ids of their own. A request (`txn`) is a transaction with
a snapshot of `status` and `last`; it is saved (`Save`), asks the website with one call for
all lines whose status differs from what was last sent (`PostOk`, `PostRefused`,
`PostFails`), writes what it was told (`Mark`) and commits, or fails to, because another
transaction wrote a row it writes, and is then run again (`Rerun`) by the server. Rows of the
retry queue are written by the same transaction and re-sent by `Cron...`, one
transaction for all rows. The website is external: it follows the same table of
transitions, takes or refuses a batch as a whole, names one transition in a refusal and
repeats its own calls until they are answered.

Choices made:

- The order row is locked by a save before it pushes, so of two saves the second waits.
- A rerun works on the same cursor, so the memory of what was pushed before the failure
  survives: that is how Odoo's `retrying` works (it is not in this repository).
- A 5xx answer is like none (`EXCEPTION`); 408 is kept apart, because the cron treats it as
  neither permanent nor transient.
- Users choose statuses along the table. The passing runs use words a line takes once.

### 2.4 JobQueue

Rows of `queue_job` and `queue_job_lock`, the requests under way, the workers, the runner's
memory of one channel and the notifications it has not read. A worker goes through the
transactions of `runjob`: mark the job started (`Start`), lock it (`Lock`, `Acquire`), perform it
(`Succeed`, `RetryLater`, `Conflict`, `FailJob`), wake its dependents (`Wake`); it may be
killed between any two (`Crash`).

Choices made:

- Notifications are a set, not a queue: the runner reads the row when it handles one.
- `clean` says whether a worker's snapshot is current: an update of a row that changed since
  then fails (`Conflict`) and is retried by `runjob`.
- `ready` is the answer a job cached about its parents when it started.
- One root channel. The micro-race between two runners' `SKIP LOCKED` is left out (one runner).
- Users act where the wizards and views let them.
- `"slow start"` is the assumption that makes the ten seconds enough: unless it is a fault of
  the instance, a request is served and its job locked before the job's ten seconds pass.
  No passing run has that fault: it is what refutes `OnlyDeadRequeued`.

### 2.5 OrderRules, SaleOrders, Replacement

`StatusOf` is `_compute_order_status_from_lines`, its eleven rules in their order. `SaleOrders`
keeps one order as a record; the whole of `sale.order.line.write` is the operator `WriteLines`
from one record to the next (a dead line leaves its RFQ, an RFQ nobody wants anything of is
cancelled, a line that enters QC confirms the order and every RFQ whose lines are all in
QC, the order's status is computed), so that a handler that writes line after line is a
fold of it. The cancellation of unavailable lines is two actions, because it commits between
them. `Replacement` adds the wizard (open, submit, later, on what the order has become), the
website's call, and the confirmation and rejection by Sales.

- Whether a replacement's price or laboratory differs too much is a choice, and so is what a
  user selects. Activities, mails and rights are left out.
- Writes of one order run one after another (the order's row is written by each); what
  survives a commit is between actions.

### 2.6 ReplacementPush, OfflinePush

`ReplacementPush` is the transaction of the wizard in its steps (made, told, committed or
rolled back because another user saved meanwhile), the website that swaps by itself, the
retry rows, and the ordinary push before and after. `OfflinePush` has the order on both
sides: what the website took, what Odoo knows of it (`number`), the payloads in retry rows,
which are what the order was when they were built, and the ways lines are grouped to
entries. `Groups` is `_lgd_offline_groups`, `Reported` and `Targets` are what a status of a
parcel means in either direction.

- An id is written as the line it was asked for, so a wrong id shows.
- The website takes an order once by its invoice number and may keep the ids of an order
  it refused; both are said in comments of the code (external).

### 2.7 WebsiteOrders, StatusApi

Both are transactions at REPEATABLE READ: a call computes on the snapshot of its begin,
a record it changes that somebody else changed fails it, and Odoo runs it again. In
`WebsiteOrders` an error of an entry is answered and what came before it is committed. In
`StatusApi` each entry locks its order's row, and a bulk call may be answered entry by entry.

- A product is one of the stones the entries name, or a parcel; it is found by
  certificate, LGD's number or the vendor's, in that order.
- Lines whose entry reaches several lines (parcels) are in `OfflinePush`.

### 2.8 Transfers, CustomerRfq, Payments, Partners

`Transfers` has the chain of pickings of one order: one action per `button_validate` of each
kind, pass and fail of each stone, and the statuses these write for the whole order.
`CustomerRfq` computes a quote from rows, prices, margins and the dollar rate as the code does:
amounts in cents, rounded half up where the code stores them in a monetary field or in a unit
price (two places), and not before. Quantities and the weight of a piece are multiples of 1/44,
which has the usual piece of 1/22 carat and halves. The binary floats in between are exact
numbers here. A form is what its user could edit when it was opened. `Payments` has links, the buyer's redirect, the
provider's messages (late, twice, never), and `proof`, a ghost variable: what proved the
payment of a line. `Partners` has the gated stages with the data each gate needs, and the
addresses of one customer with the migration that runs at every update. Whom a delivery
address names is scrubbed before it is created, and then composed again of first and last
name (`res_partner.py:631`): whether that name stays depends on further writes of the same
create, the mirroring of the billing address and core's, so the model allows both. Every later
write scrubs it. The phone is not among the fields that are scrubbed and is not modelled.

### 2.9 Channels, Delayables, DocSeries, Assets

`Channels` keeps the tree, the clock and the table as far as the runner has seen it; one step
of the runner is `get_jobs_to_run` until nothing more runs, as in the code.
`Delayables` builds objects out of objects made before, connects them, delays one and stores
the merged graph, or runs it at once. `DocSeries` has draws inside transactions that may roll
back, the change of the year, resets and the repair of the module's update. `Assets` computes
the board around the lines already posted, in whole units of the rounding, for assets that go by
a number of entries and for those that go by an ending date; `Save` is any save of the form, for
which the board is computed again. An amount typed into a line of the board is not modelled.

## 3. Runs

The runs that pass explore the whole state space of their instance. Several small claims about
one component are one property: the conjunction has a name for what it says, and its
conjuncts are commented where they stand. States are distinct states, counted up to the
symmetries the configurations name (of parcels, of workers, of the parents of a join).

| run | instance | what it shows |
|---|---|---|
| `flow` | two procured stones of one order on one RFQ, each can be split off once; a third stone from stock; no sale-side writes | `BoughtOnce`: one live purchase per stone, received on confirmed orders, ours only if bought. `InspectedFirst`: payment and release only after inspection. `NothingStranded`: no live line on a dead order, no stone nobody can move |
| `sale` | two procured stones of two orders merged on one RFQ, one can be split off; the website and Sales write any status into any line at any time | `StonesAreSafe`: whatever they write, and whatever is confirmed, received or deleted in consequence, a stone is bought once (`BoughtOnce`), and what was received stays on its order and is sent back by a move if it fails (`GoodsGoBack`) |
| `dispatch` | two stones (a vendor's with a purchase line; ours without, which may be cancelled at any time), two parcels, two addresses | `BilledAsDecided`: billed once, nothing on memo billed, every kept stone billed. `ParcelsAccounted`: Odoo's stock books each stone of ours out with its parcel and in with its memo return, once each, and the slip lists the box. `SaleLeavesBilled` |
| `dispatch_returned` | the same | finds that a stone returned from a memo can be billed |
| `sync` | two lines, two requests at a time, the website sets one word; two saves, one re-send, two faults, one rollback, one website move; fairness | what is recorded as sent was held by the website; `SilenceIsAgreement`: what a push leaves out is what it holds, and there is no disagreement until a fault; every retry row ends |
| `jq_faults` | two jobs and one that waits for both, two workers, capacity 2; crashes, restarts and lost requests, two of them | no lost wake-up, and `JobQueue` implements `JobGraph` (effects once, parents first, ends stay) |
| `jq_users` | a chain of two jobs, capacity 1, two user actions, one fault | capacity holds although users change rows behind the runner's back |
| `jq_live` | the three jobs, capacity 1, one crash or restart, fairness | every job that may run ends |
| `orders` | an order of one stone with place for two more lines, typed in or replacements, one vendor; booked or confirmed; two edits by hand or of the website | `StatusFollowsLines`: the order shows what its lines say after every handler. `CancelsExactly`: no open RFQ buys what nobody wants, an RFQ is not lost to a live sibling, an approved cancellation is complete. `ReplacementsKept`: a pending replacement can still be decided, and a replaced stone has a replacement that Sales did not refuse, though wizards are submitted on stones that were replaced, cancelled or found meanwhile |
| `offline` | three stones, two of them one parcel; refusals, lost answers, roll-backs, replays, kept ids; parcels sent in all three ways, which may change; fairness | `PushedIsRouted`, `DeadAndAliveApart`, `EventuallyPushed` |
| `office` | twelve components that share no state, one at a time (see below) | `SoldAsQuoted`, `GoodsMatchStatuses`, `BookedAsCalled`, `AccountsMoveOn`, `AddressesSettle`, `ChannelsHold`, `JobsInOrder`, `NumbersAreSound`, `BooksAgree`, `PaidMeansPaid`, `ShownIsStored`, `SwapToldOnce` |
| `swap` | two stones on the website, a place for two replacements, three changes, no faults | finds that a swap the website made itself is told again by a later save, and refused |

The runs named with "finds" expect a violation; the others hold. `CHECK_DEADLOCK FALSE` is
set everywhere: each of these systems may come to rest (all stones delivered, all jobs
ended, no message under way).

**The pooled run.** `MCOffice` puts the instances of twelve small components into one
specification. `part` is chosen at the start; its component runs, the variables of the others
keep one of their initial values. The state space is the disjoint union of those of the
components, and nothing is assumed of one by another: a property of a module is
violated here exactly if it is in the module's own instance. What each instance has:

| part | instance |
|---|---|
| `rfq` | quotes of two rows (in carats or pieces), of a parcel, and of the older kind; pieces of the usual weight and of one that is typed; rows that are rounded away, to even and cut; two prices, two rates, a margin that falls with the weight; one user's forms |
| `transfers` | three stones of two vendors, one of them not known to the website; six ways a line dies elsewhere; one delivery |
| `website` | an invoice with a faulty parcel, its correction, and another invoice with a certificate of the first; two processes, four calls served |
| `accounts`, `addresses` | one account with the website's copies of it; three addresses, one text and one that is none, one order |
| `channels` | a sequential and a throttled channel under the root; two jobs with etas |
| `docs` | three documents of one type in two series that share a prefix; one reset, one change of the year |
| `assets` | a linear asset that goes by an ending date and may be made twice, a degressive one by number with prorata that runs at once; one entry (with two, and 177 036 states, the part passes as well) |
| `payments` | two lines, two links, PayU and Stripe |
| `api` | a single call, a call with an invalid entry, a list whose last entry may fail in the database, a user's form; three lines of two orders; two tries |
| `push` | two stones and a place for one replacement; one fault, three changes by users |
| `delay` | three delayables (two keyed, whose jobs may exist), two chains or groups, one `on_done`; it holds with four and six objects as well (344 822 states in five minutes, too many for the run), where groups have chains in them |

**Bounds, and why they are enough.** `StoneOps`: the properties relate one stone to its
lines and to one order; an order needs a second stone so that a split leaves something
behind and that a void has a last live line and a not last one. In `sale` the two stones
belong to two sale orders, for the checks over several orders of one RFQ. Two POs are the original and the one
split off; a second split of the same stone would copy the zeroed line of the first one.
`Dispatch`: two parcels are the fewest with which one narrows the draft of the other, a split
has a sibling, and a memo and a sale share the draft; two stones leave one behind after
a parcel has one, and a cancelled line matters to one other stone of its order at a time (it
makes the order ready, or is in the parcel with it). With a third stone, of ours with a
purchase line, the same properties were explored too (2.5 million states), and the proofs
are for any number. `StatusSync`: two lines make
a batch that one line can spoil; two requests are the fewest that can conflict, with the
cron and the website beside them; the bounds on saves and faults let one old row be
overtaken by a save and its re-send (the safety properties were also explored with three
saves). `JobQueue`: three jobs are the smallest join; two workers can hold one job between them
(one taken for dead); two faults can hit one job twice. `RequestBound`, `RetryBound` and
`MaxRetries` are above what the other bounds allow one job to need. `Replacement`: a stone
that is typed in shares the RFQ of the first, so that one can die beside the other, and the third
line is the replacement of either; or both further lines are replacements, one of the other or
both of the first stone; two edits bring a line away and back. New lines come in the order of
their ids (`Fresh`).
`OfflinePush`: a parcel of two and a stone beside it are the fewest whose answer can be
matched wrongly; one pending row is the old payload that a later push overtakes. The parts of
`office` have the smallest instances in which the hazard of each property happens; that it
does is what the mutants show.

**Each property can fail.** `PROJECT.json` lists for each property a plausible mistake in the
code (a guard that is left out, a read that is not refreshed, a flag that is not cleared) and
TLC finds the property violated with it. These variants stand before the definition they
change, marked "Mutant".

**Fairness.** `JobQueue`: the runner is a loop that never ends, so each of its steps is weakly
fair, and so is time (the ten seconds, an eta); a worker that is alive goes on, but nobody
has to restart or to kill anything, and users need not act, except that a transaction begun is
committed. `StatusSync`: the server finishes the requests it began, the website repeats its
calls until they are answered, and the cron is scheduled again and again; that a call goes
unanswered is never fair, and neither are users. `OfflinePush`: the sweep is scheduled every
ten minutes, and a website that is asked again and again answers some time (strong fairness
of the accepted sweep: between two attempts the order may be briefly out of its reach);
somebody adds the missing data, which the error on the order asks for. `EventuallyPushed`
therefore excepts an order that is cancelled, dead, older than seven days, or whose ids the
website kept. The other modules state no liveness: nobody has to press a button.

### Claims the code refutes

Two have a run. `dispatch_returned`: a memo closed with one kept stone becomes a sale, and its
returned stones, which are at QC and so not dead, count as ready to be invoiced. `swap`:
what the website did itself is remembered on the database cursor only, so the next
transaction tells it again. See `findings` for the quoted lines.

The others stand in the modules, after a comment "Refuted" with the words of the code they
restate. Each is violated in the named instance if it is put among the properties of that
configuration:

| claim | where | how it fails |
|---|---|---|
| `VoidedHoldsNoStock` (`StoneOps`) | `StoneOps_flow.cfg` | an order is flagged "Returned - do not pay" when its last line is spent, and a stone that came back from a memo and failed QC counts as spent though it is ours |
| `InspectedFirst` (`StoneOps`), with sale-side writes | `StoneOps_sale.cfg` | the website or Sales may write Payment Pending, or Returned from memo, of a stone that is with QC: the table of transitions lists both after In QC process, and QC's own step is not asked for |
| `StockIsHere` (`Dispatch`) | `Dispatch_orders.cfg` | a return of order ("Returned to us") books nothing: the stone is in the building and not in stock until the parcel goes out again |
| `OnlyDeadRequeued` (`JobQueue`) | `JobQueue_users.cfg` with `Faults = {"slow start"}` | the ten seconds start at the runner's mark, not at the start of the job, and a job is locked in a second transaction |
| `EnqueuedMovesOn` (`JobQueue`) | `JobQueue_live.cfg` with `"lost request"` | dead jobs are found through `queue_job_lock`, where a job has no row before its first start |
| `Converges` (`StatusSync`) | `StatusSync_sync.cfg` | a status that only the retry cron delivered is never recorded as sent; it is sent again with the next line's update, the website refuses both, and the retry of that update is dropped too |
| `SequentialInOrder` (`Channels`) | `Office_day.cfg` with three jobs, all in the sequential channel, and `Etas = {0, 1, 2}` | only the job with the nearest eta is compared with the next one that is due; a job of higher priority with a later eta is passed, although the comment says that a sequential queue waits until the eta |
| `ChainsInOrder` (`Delayables`) | `Office_day.cfg` with `part = "delay"` only, `Leaves = 4` and `MaxObjects = 6` | the tail of a chain that begins with a chain is the head's: in `x.on_done(chain(chain(a, b), c))`, b waits for a and x, and a for nothing |
| `ReplacedSaysBy` (`Replacement`) | `Replacement_orders.cfg` | a wizard left open while the customer replaces the stone replaces it once more, and keeps Replaced as the status to go back to: when Sales refuses that replacement, the stone is Replaced and points to nothing, which `_create_replacement` calls lost data; the first replacement is still on the order |
| `PackMovesOnlyDue` (`Replacement`) | `Replacement_orders.cfg` | confirming the payment in Logistics writes the order's status, whose cascade raises every line behind it |
| `CourierHasIt` (`Transfers`) | `Office_day.cfg` | Dispatched and Return of Order are written for the whole order |
| `OrderTotalIsLines` (`CustomerRfq`) | `Office_day.cfg` | the total is computed from the exact rate, the price of each stone from the rate rounded to a cent, and is rounded again: 4 carats at 3.01 plus margin are quoted at 14.21 and ordered at 14.20, though the comment (`customer_rfq.py:816-819`) says they are equal by construction |
| `PriceIsTheOneSeen` (`CustomerRfq`) | `Office_day.cfg` | an edit of a quote's basis after it was sent back changes what it totals |
| `NumberedIsBooked` (`WebsiteOrders`) | `Office_day.cfg` with a call of two loose stones, neither with a certificate or an LGD number | an entry with a number of its own is matched to another entry's line by its stone |
| `BoardIsComplete` (`Assets`) | `Office_day.cfg` | up to an ending date `_compute_board_undone_dotation_nb` counts the periods from the first line still to come, and the loop over the lines subtracts those that have entries once more: an asset of which a line was booked keeps too few lines when it is saved again, or none, and the rest of its value has no line |
| `AtMostOnePrimary` (`Partners`) | `Office_day.cfg` | two primary addresses can be saved side by side |

### Seen while modelling

Not properties, and not kept as runs; each is a behaviour of the model.

- `StoneOps`: the automatic procurement validates a receipt without Accept; an RFQ emptied by
  splits stays open.
- `Dispatch`: a memo's round posts the whole open draft, though its comment says "Invoice the
  kept stones, and only them"; the memo slip survives a split; a line cancelled while its
  parcel is a draft is dispatched with it, without ever being billed, or stays on the draft
  and is; what a parcel leaves behind can leave later without approval, in a second parcel;
  confirming a delivery overwrites the status of stones that came back; a stone on memo
  that is returned from `return_of_order` or `re_dispatched` reaches no status from which QC
  or Inventory would release it; an order becomes ready also when its last stone that is not
  in the vault is cancelled, which `_lgd_put_in_vault` does not see.
- `StatusSync`: with statuses a line takes more than once (QC Fail and back) an old retry row
  can move the website back while Odoo believes it told the latest.
- `JobQueue`: a job that is set to wait while it is queued or running stays there, runs all
  the same or blocks the channel; a requeued job can be stored as waiting when its last
  parent finishes meanwhile; a worker killed between the commit of a job and that of the
  wake-up leaves the dependents waiting; retries after a serialization failure are not
  counted against the maximum; cancelling does not reach grandchildren.
- `SaleOrders`: `action_cancel` writes lines one by one, so cancelling a confirmed line off a
  shared RFQ may confirm it for a sibling that is cancelled next; the second step of
  cancelling unavailable lines reads nothing again; a line revived after its RFQ line was
  zeroed keeps quantity 0; lines that enter QC before the order is confirmed get no PO.
- `Replacement`: the wizard does not look at the original again when it is submitted; a
  rejection does not look whether the replacement is still pending; a confirmation closes
  every open activity of its kind.
- `ReplacementPush`: a serialization failure after the post makes the swap be posted again; after a
  rejection the original is Not available here and Cancelled there; the hint to fill in what
  is missing and run the wizard again comes when there is nothing left to replace.
- `OfflinePush`: a replay brings stones that have died since its payload was built, and stores
  no ids; the hint that nothing was sent is shown for timeouts too; ids of a refused order
  stay reserved; the website may cancel an entry whose id Odoo does not know; once parcels
  are sent stone by stone, the one id of a parcel pushed before speaks for its own line only,
  and the death of that line ends the entry of the stones beside it.
- `WebsiteOrders`: two first calls make two orders; a call repeated after the confirmation makes
  a second order of the invoice; an answer may say "updated" of lines it never updates.
- `StatusApi`: a database error in the last entry takes back entries answered with success; bulk
  calls that lock orders in different orders deadlock and are run again; a status may
  revive a dead line.
- `Transfers`: Pass and Fail revive a line that died during inspection; a receipt leaves alone every
  settled status but Replaced; a dead line in a packed delivery blocks it; when all
  stones fail, the order is cancelled under the transfer that is being validated.
- `Payments`: a repeated message of PayU pays lines that became due later; an older link can still
  be paid, and its token is unknown then; an order that was cancelled can be paid.
- `Partners`: a stale form leaves the mirrored address differing; a text that comes back re-points
  an order Sales had re-addressed.
- `DocSeries`: two first draws make two counters with the same numbers; duplicates of an old
  year are renumbered into the current one; after a reset the repair can leave duplicates.
- `Assets`: a linear board whose rounded parts exceed the value ends with a negative line;
  cancelling an entry leaves its line linked; the wizard asks that the number of entries leaves
  one to come also of an asset that goes by an ending date, and nothing of the date.

## 4. Proofs

Everything below is proved for all values of the constants: any number of stones, lines,
orders, parcels, jobs, requests, messages and words. The assumptions are the named ones
beside the constants (`StoneOpsAssumption`, `DispatchAssumption`, `SyncAssumption`,
`JobQueueAssumption`, `OfflinePushAssumption`, `SaleOrdersAssumption`, and those of the parts of
the office), which TLC evaluates in every run; they say what kind of value a constant is, that
data of orders are finite, and that a mark for "none" is not a member. A theorem that needs more names it as a
hypothesis; each hypothesis below holds in the instance whose run checks the same
property.

**StoneOps_proofs** has three inductive invariants, each resting on the one before.
`IInv`, about purchases, gives `TypeOK` and `BoughtOnce` (that is `OneLivePurchase`,
`ReceivedMeansPurchased` and `InventoryIsBought`). None of them is inductive alone. That
inventory is bought needs to know that a stone coming back from a memo "to stock" had been
received (`ReceiptsOK`), and that needs where such a stone can be (`MemoOK`), what a vaulted
stone's stage can be (`VaultOK`) and that only vaulted stones go out (`OutOK`); `RecordsOK` says
that free identities are blank. `ReceiptsOK` also carries that a receipt exists only on a
confirmed order, for which the lemma on `VoidOrCancel` shows that an order with a done
receipt is never cancelled. `GoodsGoBack` and `GoodsOK` follow what was received, at whatever stage. `IInv` says
nothing of the status of a sale line, which anybody may write: it gives `StonesAreSafe` with no
hypothesis on `SaleWords`. `InspectionInv` adds what the sale side is told of a stone and gives
`InspectedFirst` under `LeaveItToQc`: the website and Sales leave Payment Pending and Returned from
memo to the departments (without it `InspectedFirst` is refuted, section 3); all their other
writes, with what these confirm, receive, cancel and delete, are allowed. `CustodyInv` adds
that a dead order has nothing live and that every stone has a way on; it gives
`NothingStranded` for the operations flow alone (`SaleWords = {}`), as in the run `flow`: a sale
line that dies elsewhere strands its stone.

**Dispatch_proofs**: all the properties of the run `dispatch`: `TypeOK`, `BilledAsDecided`
(`InvoicedOnce`, `MemoUnbilled`, `KeptBilled`), `ParcelsAccounted` (`StockFollowsParcel`,
`SlipListsParcel`) and the action property `SaleLeavesBilled`. Added to them for induction are `Custody` (a stone in a parcel is in the
vault's books and its parcel exists; one with a memo outcome is in a parcel that left) and
`DraftSlips` (the slip of a draft parcel is empty or lists its stones). The operators of the
invoice have lemmas (`PrepareFacts`, `RescopeFacts`, `LeavingFacts`, `KeptFacts`); `MakeFacts` and
`SplitFacts` say what the two actions that move stones between parcels do, in the terms the
invariants use. `NothingBilled` is what most steps do to the books, and one lemma shows that it
keeps them; the three steps that post an invoice are treated one by one.

**StatusSync_proofs**: `TypeOK` and `LastWasHeld`: the status recorded as sent is one the website
really held. The invariant (`HeldInv`) says it of every place from which it may still be
recorded: snapshots and answered batches of open requests, the cron's transaction, the
website's unanswered calls.
`SilenceIsAgreement` is proved for any number of lines, requests, saves, re-sends, faults and
website moves, under `OneWay`: a line takes a status at most once, the website sets only a last
status, and where it may set one Odoo has none left to set. `PaidWayIsOneWay` shows that the
way from booking over QC to the payment, the one the run `sync` checks, is such a scenario. This
restricts the scenario and not the code: the table has cycles (QC Fail and back to In QC),
and on a cycle an old row that is re-sent can move the website back. The invariant
has two parts, for the two promises. `AgreeInv`, while no request is rolled back after its call:
the website's history only goes forward and every status was told by one request (`ToldInv`);
a row is written by one request, which saw it as it is and has told it (`LockInv`, `FreshInv`); a
save goes forward from what is stored, and never has to run again after its call (`SaveInv`);
whatever may still be told was reached in Odoo (`WayInv`), so that the website is never ahead
of Odoo but by its own calls (`SiteInv`). What is recorded as sent was held, hence not ahead of
the website: equal records mean equal sides (`SilentAgrees`). `QuietInv`, while there was no fault
either: there is nothing to re-send, and a save sends its own line and nothing else, which
the website takes (`OwnEntry`).

**JobQueue_proofs**: `IInv` gives `TypeOK` and `CapacityRespected`, whatever users do. The number of
active rows is bounded because the runner's memory, though late, always covers them
(`ActiveCounted`) and is bounded itself (`RunningBounded`): a row becomes active only by the
runner's own update, and the runner forgets it only after it has read that the row is not
active any more. `QuietInv` says where the one request or worker of each job is and what the
table holds meanwhile (`RequestsOK`, `WorkersOK`, `QueueOK`, `HistoryOK`). From it follow
`CommittedOnce`, `ParentsFirst`, `NoLostWakeup` and the refinement `ImplementsJobGraph`: every step
of the queue is a step of the graph or changes nothing the graph shows. It needs an
`Undisturbed` queue: users leave the rows alone, and no worker is so slow to start that it is
taken for dead; both do break these promises (sections 3, "Claims" and "Seen"). `NoLostWakeup`
needs moreover that no worker is killed between the commit of a job and that of its wake-up.
`ChannelsInv` is about the runner's tree, for every tree of channels, capacities, delays and
number of jobs, and gives `ChannelsHold`. Each job is nowhere, failed in its own channel, running
all its way to the root, or in one queue of its way and running in the channels before it
(`InPlace`); it is where its row says once that was read, and one that Odoo has runs all its way
even before, so that telling the tree never makes a channel run more. One round of a channel's
loop either changes nothing but etas that are past or moves one job on (`RoundFacts`); the
queue gets shorter, so the loop ends with a channel that has nothing to do (`Quiet`), and as
children come first it stays so (`PulledFacts`). From there on nothing can be let through in a
channel that is looked at before the first end of a pause or eta, and what the others let through
does not reach one that is looked at (`StillOn`): this is why the timer may leave out what is
behind a full or pausing channel.
`DelayInv` is about delayables and gives `JobsInOrder`. An object is made of objects with smaller
numbers (`MadeOK`), so what the code computes by recursion over the nesting is what its definition
says at each object (`Recursing`, from which `HeadTailFacts` and `JobsOfFacts` follow); as many
rounds as there are objects reach all of them (`Filling`). Of groups without
chains heads and tails are all jobs (`BunchedFacts`), of a chain those of its first and of its
last part if these have no chain in them (`ChainEnds`). Then, by induction over the nesting
(`ByParts`), each job of an object leads to a last one and comes from a first one of it
(`Within`, with `FromFirst` and `ToLast` along a chain), so whatever is connected to the object is
connected to all of it (`Joined`). Chains may nest in groups and inside of chains, groups in
both; the only nesting left out is that of a chain that begins or ends with a chain, where the
code itself loses an edge (`ChainsInOrder`, section 3). Run at once, a job's count is that of its parents still to run, and it is in the queue or
has run when the count is zero (`Going`); among jobs that never run each has one before it, so
one of them is before itself (`Cycle`).

**Replacement_proofs** treats every handler of an order as a function of the order's record, and
says what it keeps: `Sound` (an open RFQ buys what is wanted), `Kept` (links and pending
replacements), `Evolves`, `OnlyDead` and `NoCancel` (for what an RFQ may be cancelled). Handlers
that write one line after the other are folds over the order's lines; their lemmas go through
the positions of the lines with `CountingUp!UpTo`. Each action is then one of five kinds
of step (`FiveSteps`), and the invariants look at those only. `Inv` (types, RFQs, links) gives
`TypeOK` and `CancelsExactly`. `StatusFollowsLines` is proved for orders that have a line
(`Spares # Line`: with none, cancelling it names a status its lines do not give).
`ReplacementsKept` (from `HistoryInv`, `TwiceInv`, `AskedInv`) needs that the website closes no line as
Replaced or Returned from memo by itself (`Honest`), as in the runs. The wizard may be submitted
as late as one likes: a stone that a refusal would put back to Replaced has two replacements
(`TwiceInv`), so one of them is left. At its end the module turns to
`ReplacementPush`: `PushInv` (ids are unique in the database and in the view of the open
transaction, and the push's memory holds what a swap did) gives `SwapToldOnce`.

**OfflinePush_proofs**: `RoutedInv` says of every payload, at the website or waiting in a retry
row, that its groups are disjoint, each under the id of one of its own lines, and that ids are
learnt at once and once. It gives `TypeOK` and `IdsAreRouted` with no hypothesis.
`CompleteInv` (no payload misses a living line) gives `PushedIsRouted` under `DeadForGood`: no
user brings a dead line back. This is a restriction of the scenario, not of the code, whose
table of transitions lets a stone that failed QC or came back from a memo go In QC process again:
a stone that was dead when its order was pushed and is revived later is missing on the website.
`DeadAndAliveApart` has no hypothesis: users revive what they like and parcels may be sent in all
three ways, one after the other. It is a statement about steps, which `SentAlive` (`RoutedInv`,
and nothing waiting is dead) supports: where an id speaks for other lines, exactly what lives of
its parcel is written (`TargetsAre`) and the least advanced of these is reported (`Speaks`), so a
batch or a call that makes an entry dead leaves none of its stones alive (`TellDied`,
`SiteMoveDied`). What is left is in the property: the website moved the entry before Odoo knew
its id, parcels have since been sent stone by stone, or a user revived a stone.

At its end the module turns to the other direction, `WebsiteOrders`. `OrdersInv` gives
`BookedAsCalled`: the committed tables are good, each call being served computes on tables that
were committed before, with all the ids its process drew, and what was answered with success
is shown. Good tables (`Good`) have one line per entry and child, the right stone behind each line, a
parcel's line above each child's, and in every order's total exactly its lines. The last is
what carries two calls at once: a line is only inserted, which conflicts with nothing, but it changes
the order's total, so that if two calls are merged the new lines of an order come from one
of them (`MergedGood`). Within a call the proof follows the loops over entries and children
(`EntriesBooked`, `ChildrenBooked`) by what each step keeps (`RunsKeep`). The theorem supposes
`Unambiguous`: a certificate or number means one stone, a number on an invoice one entry, and
an entry without a number is described alike each time. The run's calls are such (`MCUnambiguous`).
Stones with neither a certificate nor a number of LGD are not promised to be there: see
`NumberedIsBooked` in section 3.

**Office_proofs** has a section for each of seven components of the pooled run.

- `Payments`: `PaidInv` (every message of a payment has the money behind it, every paid line its
  proof) gives `PaidMeansPaid`. That the order is not shown as paid too early is read off the
  rules of its status (`ShownPaid`).
- `Transfers`: `PassedInv` gives `GoodsMatchStatuses`. To the property it adds what is still on
  the way: a stone that comes in or reads In QC has no verdict yet, what is picked for a
  delivery was passed, and what is packed is paid.
- `StatusApi`: `ApiInv` relates each transaction to the database: its view is as stored but for the
  rows that others changed since, it changes rows only while it holds them, as it saw
  them, no two hold the same row, and its answers are true of its view. The theorem is
  `ShownIsStored`: the stored status follows the stored lines, and a commit makes the answers
  true of what is stored.
- `Partners`: types are enough for `AccountsMoveOn`; the steps themselves show the rest.
  For `AddressesSettle` types are the invariant too (`AddressInv`). The migration is a loop
  over the old texts; the proof says what one round leaves (`BlockFacts`, `ConvertOne`), that
  it leaves no name on what it writes (`NoNewNames`), that the loop takes each text once,
  and that for what it leaves a second run finds nothing to do.
- `CustomerRfq`: `QuoteInv` (the order exists when its quote says so, once, at its rate) gives
  `SoldAsQuoted`. A rounding is half a cent off at most (`CentsAre`); the stones of a whole row
  cost what its weight costs at the rate shown, to half a cent each (`RowIsItsStones`), the
  sums keep that bound (`SumsBounded`), and the rate shown is half a cent off for each carat.
- `DocSeries`: `DocsInv` gives `NumbersAreSound`. Two of its parts carry the argument: the numbers of
  a prefix and year are those from the first up to the counters' greatest (`Numbering`), and a
  number given twice has two counters behind it (`Explained`). A draw keeps both because a
  request draws from a counter it has locked and read; the repair merges the counters of each
  prefix into the greatest and then gives the later of two equal documents a new number, one
  document after the other, and the proof follows it by the documents' ids.
- `Assets`: `BooksInv` gives `BooksAgree`. To the property it adds that an active asset has a
  posted bill (`OneActive`, else a bill posted twice would have two), and that a draft has
  nothing booked. A new board is followed line by line (`LineAdded`): the lines so far and what
  is left add up to what was to be written off, however each line rounds, and the last line takes the rest.
  This needs that at least one line is missing when something is left (`HasRoom`): `LongEnough` asks it of
  a modification, and any save has it because a board by number never has more lines than the
  number (`AssetOK`) and what is left has a line without an entry. By an ending date it fails, and
  then the board has no line without an entry (`Complete`). What the cron does to the sums is shown entry by entry: each line
  it books has one entry, and each entry has the sum of the lines that got it.

**CountingUp** has what several of these need of numbers: a set of them has a least one, a
function that steps through a sequence keeps what each step keeps, a set within `1..n` has
at most `n` elements, and a finite one has a greatest. It also has the lemmas on sums: of
a function over a finite set, how a change of one value, an empty set or a split changes it.

**Only model-checked.**

- Liveness: `EventuallyEnds`, `RowsEnd`, `EventuallyPushed`. The prover does not reach it.
- `OfficeTypeOK`, the types of all twelve parts together; those a proof needs are in its
  invariant.

## 5. What is not modelled

`PROJECT.json` has every component with its reason. In short:

- Wording, layout, reports, notifications, mails, access rules, log rows and fields of single
  records are left out everywhere, and so are the add-ons that consist of nothing else:
  accounting reports, themes, the catalogue, analytics, telephony, project helpers, partner
  add-ons, budgets, fiscal years, follow-ups.
- `quality_control_oca`, `om_recurring_payments` and `employee_goals` have states, but each
  record goes through them by one button after another, with nothing concurrent and
  nothing another component reads.
- Arithmetic is modelled where a property is about it (`CustomerRfq`, `Assets`), with the
  rounding of stored amounts; the error of binary floats between two roundings is not. Taxes and currencies are not.
- Odoo itself (orders, moves, invoices), PostgreSQL and the website are external and appear as
  this code uses them.
- Two transactions at once are modelled where the code is about them (`StatusSync`,
  `JobQueue`, `WebsiteOrders`, `StatusApi`, `DocSeries`, `ReplacementPush`); `StoneOps`,
  `Dispatch`, `SaleOrders`, `Replacement` and `Transfers` run one operation at a time, so
  write skew between two of them (two last stones failing QC at once, two last stones
  put into the vault at once) is not in them.
- Purchase orders found by a piece of their origin's text, and stones sold as a set, are not.
- No persistent state is lost in a crash but what an uncommitted transaction wrote: that is a
  step that does not happen.

Of the code of `contact_stage_bar`, `queue_job` and the payment and asset add-ons, most of what
is not named in `map` is payloads, views and messages.

## 6. Plan

The modules of the plan are done: first the core of the trade (`StoneOps`), then what runs under
and beside it (`JobQueue`, `StatusSync`, `Dispatch`), then orders, the website and the offices.
The theorems cover every core module and all of the offices. What is left, in this order:

1. The void and vault decisions of `StoneOps` and `Dispatch` under snapshots (write skew).
2. The custody of one stone (wanted, with us, ours, out, released) as an abstract specification
   that `StoneOps` and `Dispatch` should implement.
