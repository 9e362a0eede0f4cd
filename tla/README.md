# eSIM Ego Server: a verification development

TLA+ models of the server in `src/app` (Flask, SQLAlchemy 2 on PostgreSQL,
Redis, Celery; several gunicorn workers), TLC configurations that check them on
small instances, and TLAPS proofs for every value of the constants. The
repository has no tests; `README.md` and `API.md` are its only statements of
intent.

## The system

Every request handler is a static method of a service class and works through
`core/database.py:get_session`: commit on normal exit, rollback on an
exception, `autoflush=False`, PostgreSQL's READ COMMITTED. Concurrency comes
from the workers: any two handlers, callbacks or Celery tasks may interleave
between any two SQL statements.

| Component | State | Operations | Interacts with | What makes it correct |
|---|---|---|---|---|
| Wallet ledger (`wallet_service`, `admin_service`) | `wallets.balance`, `frozen_balance`, `wallet_transactions`, `wallet_freezes` | deposit, adjust, freeze, release | payments, orders, refunds, referrals | the balance is the sum of the journal; frozen money is not spent |
| Payments (`payment_service`, `routes/payments`) | `payments.status`, `payment_provider_transactions` | initiate, confirm, callback, webhook, cancel, refund | ZainCash, QiCard (HTTP, notices), wallet | one credit per completed payment, only for money taken |
| Orders (`order_service`, `admin_service`) | `orders`, `order_items` | create, approve, cancel, reprocess | wallet, inventory, coupons, eSIM provider | charged once; what is paid is delivered or refunded |
| Refunds (`refund_service`) | `refunds`, `orders.refunded_amount` | create | wallet, orders | never more than was charged |
| Inventory and activation (`inventory_service`, `activation_service`, `routes/esim_callback`) | `esim_inventory` | import, allocate, activate, retry, callbacks | eSIM Go | an eSIM belongs to one item; statuses only move forward |
| Coupons (`coupon_service`) | `coupons.used_count`, `coupon_usages` | validate, consume, update | orders | use limits hold under concurrency |
| Authentication (`auth_service`, `core/security`, `core/middleware`) | `otp_codes`, `device_sessions`, Redis revocations and token versions | register, send, verify, refresh, logout | Redis and PostgreSQL, not atomically | three tries; a refresh token is used once; logout ends sessions |
| Referrals (`referral_service`) | `referral_rewards` | apply, qualify, credit, cancel | orders, wallet | one credit per qualified reward |
| Support (`support_service`) | `support_tickets`, `support_messages` | create, message, reply, close, status, assign | users, staff | a closed ticket is dated and silent |
| Backups (`backup_service`, `tasks/backup_tasks`) | `backup_records`, dump files | scheduled and manual dump, retention, delete | Celery, pg_dump | a record never promises a missing file; one dump per interval; every dump ends |
| Push and SMS (`push_service`, `tasks/push_tasks`, `providers/sms`) | `device_tokens`, `sms_provider_transactions` | register, unregister, notify, retry, send code | Celery, FCM, OTPIQ, BulkSMSIraq | no notice twice; a code on a phone is in the database |
| Catalogue, currency, settings (`plan_service`, `currency_service`, `settings_service`) | `plans`, `exchange_rates`, `system_settings`, two cache files and a lock file | fetch, index, import, edit, delete; set and fetch rates | eSIM Go, orders, a rate service | one builder; one plan per bundle; no order without its plan |
| Provider clients (`providers/payment`, `providers/esim`) | `esim_provider_transactions` | initiate, status, cancel, refund, order, verify | ZainCash, QiCard, FIB, eSIM Go | a client says only what it knows |
| Administration and audit (`routes/admin*`, `audit_service`) | `audit_logs`, `updated_by` | a change, then its audit row | all services | the log tells what happened last |

The behaviours that make it hard: objects read before a row lock and used after
it; checks in one transaction and effects in the next; calls to gateways made
with, and without, a row lock held; notices that come late, early, twice or
never; a worker that dies between a gateway's reply and the commit.

## Modules

| Module | Models |
|---|---|
| `Settlement` | the abstract promise of the money side: each business event changes one row's status and writes its journal entry in one step |
| `Ledger` | every handler that moves money, as a transaction: first read, lock, commit or rollback |
| `MCLedger` | a small instance |
| `LedgerProofs` | its proofs, sums over finite sets, and what follows from `Settlement` alone |
| `Payments` | a deposit between the server, its workers and the gateways; implements `Settlement`, too |
| `MCPayments`, `PaymentsProofs` | a small instance; its proofs |
| `Stock` | the abstract promise of fulfilment: stock is sold to items of charged orders, or bought for them, then activated or suspended |
| `Fulfilment` | sale, on-demand purchase, activation, retries, callbacks, reprocessing and cancellation, by several workers and a slow provider |
| `MCFulfilment`, `FulfilmentProofs` | two small instances; its proofs |
| `Offers` | the abstract promise of coupons and referrals: an order may add its buyer to a coupon's users within the limit, and a charged order qualifies a reward |
| `Promotions` | coupons that orders use up while administrators change them; referral rewards that orders qualify and administrators cancel |
| `MCPromotions`, `PromotionsProofs` | two small instances; its proofs |
| `Access` | the abstract promise of sign-in: one device holds the account, and gets it by spending a code |
| `Sessions` | one-time codes, device sessions, token versions and refresh tokens in PostgreSQL and Redis |
| `MCSessions`, `SessionsProofs` | a small instance; its proofs |
| `Requests` | what the ten modules below share: workers, and how SQLAlchemy writes an attribute of a stale copy |
| `Tickets`, `Usage`, `Console` | tickets; callbacks about an eSIM's usage; administrators' changes and their audit rows |
| `Backups`, `Pushes`, `Messages`, `Providers` | dumps; push notices; the SMS of a code; the HTTP clients of gateways and eSIM provider |
| `NetworkIndex`, `Plans`, `Rates` | the catalogue's files and lock; plans, imports and orders; exchange rates |
| `MCOperations` | the ten side by side: they share no state, so each behaviour follows one of them (`part`) |
| `RequestsProofs`, `CatalogueProofs`, `TasksProofs` | the proofs of the ten and of their composition |

### Ledger

`balance`, `frozen`, `pay`, `ord`, `refunded`, `frz` are the columns. `posted`
and `net` are sums over `wallet_transactions`, per wallet and per payment or
order. `pc`, `job` and `copy` are a worker's session: how far its transaction
has come, the request it serves and the `Wallet` object in its identity map.

The relationships are declared `lazy="selectin"`, so loading a `User`,
`Payment`, `Order` or `WalletFreeze` also loads the wallet, unlocked
(`EagerLoad`). The later `with_for_update()` waits for the row lock
(`LockWallet`) but, without `populate_existing()`, does not refresh the object:
the handler computes from `copy` and writes an absolute value (`WriteBalance`,
`WriteFrozen`). `freeze_balance`, `manual_adjust_wallet` and `deposit` read the
wallet with the lock (`LockFirst`).

`raced` is a history variable: the wallets some transaction has changed while
another one had them in its session, unlocked. The main invariant is stated
under it: as long as nobody raced, the balance is the sum of the journal.
Without that condition it is false, which the run `ledger_conserved` shows.

`LocksJoinedRows`: `approve_order`, `create_refund` and `cancel_order` ask for
`FOR UPDATE` together with `joinedload`. PostgreSQL rejects FOR UPDATE on the
nullable side of an outer join, so with it these handlers raise. The runs that
pass set the constant to TRUE and check the transactions as they are written;
the two violations are found with it FALSE, where only the handlers that work on
PostgreSQL run.

Facts of the code the models take as they are: `manual_confirm_payment` refers
to a class its module does not import, so only the other two ways to confirm
exist; `create_refund` raises after its commit, because it reads an expired
instance, so `cancel_order` of a paid order is the refund alone;
`payments.order_id` is never set, so `manual_refund_payment` always takes the
wallet branch; `WalletService.deposit` is the transaction of
`manual_adjust_wallet`.

### Payments

`pay` and `credit` are the row and its journal, `recorded` the provider's row,
`pc` and `at` the workers' requests, `gw` the gateway's session and `notices`
the success notices sent so far, which are never consumed: a gateway may repeat
them at any time. The initiation is three steps with the gateway's call in the
middle; callbacks read in one transaction and confirm in another; cancellation
and refund hold the row lock during the gateway's call. A reply may be lost, and
every step may fail (`Fail`), which leaves what was committed before.

The gateways are external. Assumed of them: they take money only for a session
they opened; ZainCash signs a success only for money it has taken; QiCard's
notices may name any session, because `handle_webhook` accepts result code 0
under any status, but its status query tells the truth; a cancel or refund
request may be carried out or only acknowledged.

`Payments` implements `Settlement` as `Ledger` does, with a user for each payment,
the amount 1 and no orders or adjustments: `credit` is both the row's and the
wallet's journal. `Ledger` has the wallet's copies and locks, `Payments` the
gateways and the separate transactions of a callback; what both do to a payment is
the same abstract settlement.

### Fulfilment

`ord`, `iccid`, `inv`, `retries`, `owner` are `orders.status`,
`order_items.esim_iccid` and the columns `status`, `activation_retries`,
`order_item_id` of `esim_inventory`; all orders are for one plan, because plans
share no rows. The status of an item is not a variable: it is `pending` until
`cancel_order` closes the order. `bundle` and `boughtFor` are the provider's
side. `pc`, `order`, `rows`, `want`, `cur` and `copy` are a worker's request:
what it has locked or still has to buy and to activate, and the record in its
session.

`create_order` and `approve_order` have the same shape. The first transaction
(`CreateOrder`, `ApproveOrder`) takes up to `quantity` available rows with
SKIP LOCKED; its commit (`CommitSale`) charges the order, links the rows to
items and leaves the rest to be bought, or fails under `inventory_only`. A
manual approval mode inserts the order and gives the rows back (`PlaceOrder`).
`CreateOrder`'s order id is new, so no one else works on it; an approval locks
the order's row. Then, outside any transaction, each missing eSIM is bought
(`Buy`, `BuyFailed`), recorded in a transaction of its own (`Record`), and the
rows from stock are activated one by one (`Apply` to `CommitActivated`).
`reprocess_order` enters the same loop for the items that have an ICCID.

Row locks on inventory exist in two places only: during the sale, and in
`retry_activation`, which keeps its lock while it talks to the provider.
`activate` and the first-attachment callback read without a lock and wait for it
only when they write; SQLAlchemy writes the attributes that differ from what was
read, so `CommitActivated` may write the status and not the counter, or the
other way round, or nothing.

Assumed of the provider: it issues an eSIM once; a CSV file or a bulk purchase
holds only eSIMs that were not bought for an item; an answer that says
"activated" is true; a request may be carried out long after the answer to it
was lost or said something else; the first-attachment notice is sent only for an
eSIM that has its bundle.

Facts of the code taken as they are: no code path sets an inventory row to
`processing`, `expired` or `revoked`; `allocate_iccid` and `check_expiry` have
no caller; `reprocess_order` sends the plan's name where the other callers send
the provider's bundle id (the model has one bundle); the tables' UNIQUE
constraints on both link columns are guards of the sale and of `Record`, and the
invariants show that the sale never needs them.

### Promotions

`ord` is `orders.status`, as far as it matters here; `maxUses`, `active`,
`usedCount` are the columns of `coupons`, `usage` the rows of `coupon_usages`;
`referredBy` is `users.referred_by_id`, and `reward`, `referrer`, `terms`,
`trigger` are the columns of `referral_rewards`. `copy` is the coupon in a
worker's session.

`create_order` reads the coupon with `FOR UPDATE`, validates it, and increments
the counter of its copy at the end of the same transaction
(`CreateOrderWithCoupon`, `CommitOrder`). `update_coupon` reads without a lock;
its UPDATE has only the columns whose value differs from what was read, so it
neither undoes a concurrent use nor waits when there is nothing to write
(`CommitCoupon`). `apply_referral` checks `referred_by_id` without a lock, waits
when it writes it and only then looks for an existing reward. After the commit
that charges an order, `check_and_qualify` runs in a transaction of its own,
and its failure is only logged (`Return`).

`Promotions` implements `Offers` under `limit` = `maxUses`, `used` = `usedCount`,
`users` = the buyers of the orders in `usage`. A coupon's validation, its use and
the change of its limit are single steps there, so the refinement says that the
row lock makes `create_order` atomic; a second referral of a user changes
`referred_by_id` alone and is no step of `Offers` at all.

Facts of the code taken as they are: a cancelled or refunded order gives back
neither its use of the coupon nor the reward it has qualified, which is why an
order's life ends here at `paid`; a discount that rounds to nothing is not a use;
an order uses its coupon when it is placed, not when it is approved; no UNIQUE
constraint covers `coupon_usages`; `apply_coupon` has no caller. `_do_credit`
parses `referrer_id` with `UUID(...)`, but the column, whose type comes from its
foreign key, already holds a `UUID`, and the constructor raises: `credit_reward`
and a reward under `auto_credit` always roll back, so no reward is ever credited
and the status `credited` is not in the model.

### Sessions

`codeState` and `attempts` are the rows of `otp_codes`, `blocked` is
`users.otp_blocked_until`, `active` and `version` are `device_sessions`,
`redisVersion` and `revoked` the keys in Redis, `pair` the tokens in the
clients' hands and `req` the workers' requests with what they have locked and
read. `wrong` and `raced` are history variables, `lost` counts requests that
Redis did not answer (whatever it did with them).

`verify_otp` is one transaction with up to three locks: the newest unused code
(`VerifyOtp`, `LockCode`; a request that waited for a code that is used up meanwhile
gets the next older one of those its SELECT had seen), the active session it replaces
(`LockSession`) and the device's own row (`RaiseVersion`). The last step also raises
the version in Redis, before `CommitLogin`. A unique partial index allows one active
session per user, so a login whose SELECT missed the session of another login raises
at its commit, with the version raised. Loading the user loads the rows of
`device_sessions` too, and the locked SELECTs do not refresh those copies: `own` and
`kept` are what they say, `LockSession` sees the row as it is, and `CommitLogin`
writes `is_active` and `token_version` only where they differ from the copies, so that
the row of a device that was signed out meanwhile may stay inactive. A request with a
token passes two reads of Redis, not atomic with anything (`RefreshToken`, `Logout`);
without an answer the revocation check finds nothing and the stored version is
compared. `Return` is a refusal, an error or a lost deadlock at any point.

`Sessions` implements `Access` under `spent` = the used codes, `holders` = the
devices with a token of the current version, `outage` = Redis has lost a
request. `RotatedOnce` holds under two conditions that the code needs: the check
of `refresh_token` and the revocation are two requests to Redis, so two uses at
the same time both succeed (`raced`), and a lost request revokes nothing.

Facts of the code taken as they are: `verify_otp`'s branch for a code whose
tries are used up is never taken, as `TriesCounted` shows; role and
`is_active` come from the token until it expires; the routes for 2FA in
`routes/admin.py` use a `g` that is not imported and raise.

### Tickets, Usage, Console

`ticket` is a row of `support_tickets` and `desk` the requests with the copy each
has read; all handlers read without a lock, and the status is written only when
it differs from the copy (`Written`). `ClosedProperly` holds unless a request has
committed over another (`overtaken`); with that, a closed ticket gets messages
or loses its date, which the code does not prevent.

`Usage` has the callbacks of eSIM Go that `Fulfilment` does not have: a DataUsage
callback logs before it commits, a FirstUse callback after it, and each pushes a
notice to the owner at the end. Reports may be late or repeated. Of two callbacks
between read and commit the later commit wins, even with the lower report: the code
does nothing against it, so `HighestIsKept` exempts the row from such a commit until
the highest report is stored again (`collided`). `ToldWasStored` has no such
exemption: whatever overlaps, what the log calls a success and what the owner is
told has been committed, or its callback is under way. A top-up tells nobody: its
parser drops the ICCID, so the branch that would push is dead.

`Console` follows one row (`kind`: a setting, an account, a tax rate or coupon, an
order or payment) through the administrators' handlers. The audit row is a
second transaction that may fail, or not be there: `update_server_config`,
`toggle_user_active` and the handlers of finance and inventory write none,
`refund_order` builds it with two names that are not defined, after its change is
committed (`adjust_wallet` has the same fault), and the backup settings are
audited without `updated_by`. The repository's README claims a full audit trail
of administrators' actions (lines 120 and 131), which these handlers contradict.
What is left, and proved, is `TrailTellsLast`: where the last change
overlapped with no other (`mixed`) and has its audit row (`audited`), the row tells of
that change.

### Backups, Pushes, Messages, Providers

`record` and `files` are a backup's two halves. A dump inserts its record as
running, writes a file while `pg_dump` runs, and ends as completed or failed;
`CleanUpOld` and `DeleteBackup` remove files one by one, then rows in one
transaction. `Fault` is an error or the hard time limit. `fresh` and `old`
are a backup's age relative to the interval and the retention. A fault between the
removal of files and of rows leaves completed records without a file: those older
than the retention, whose removal the next cleanup finishes, and those an
administrator has asked to delete (`condemned`), which stay until he asks again.
`CompletedIsRestorable` says that there are no others. `orphaned` are records that
say running for ever: their worker was killed, or the database failed while it was
to record the failure; nothing in the code looks for them. `overlapped` are the
scheduled backups of tasks that ran beside another one. Nothing keeps such tasks
apart, since a running record does not count for the interval, so `SpacedOut` says
only that a backup which comes too early is one of them.

`Pushes` has the registered devices, the Celery task with its retries and late
acknowledgement, and FCM's answers. A task that a time limit or a lost machine interrupts
half-way is sent again to all devices, so a device gets a notice once, and once more
at most for each interruption (`PushedOncePerTry`, `cuts`).

`Messages` follows a code from its row to the phone. `register` calls the provider
inside the transaction that creates user and code, `send_otp` after the commit. So a
code of `register` may be on the phone while its transaction is open, or after it was
undone, and `ReceivedIsStored` exempts it; a code of `send_otp` is always stored.
`SentAsRecorded` is the converse: no user without a code that was sent.
`otpiq_callback` is not modelled: it looks for a field under another name than the one
that was stored and finds no row.

`Providers` has the clients of ZainCash, QiCard, FIB and eSIM Go with a payment
or an order each. A call the client has given up may be served later
(`ServeLate`), an error may be answered before or after the effect, and so may a
page that is not JSON under status 200 (`raw`). eSIM Go's client wraps such a page
and returns and logs it as a success (`TakenAsSuccess`); what keeps it from becoming
an eSIM is that `create_order` looks for the eSIM and its ICCID in the result
(`HasEsim`). The gateways' clients raise on it.
`said` is what the service has been told and must be true (`ClaimsAreTrue`).
`LogTransaction` is a transaction of its own whose error is swallowed, so that an
order may leave no row, although the README (line 446) says that all calls are fully
logged. Facts taken as they
are: FIB's link comes in a field the service does not read and its failures are
recorded like successes, so no FIB deposit can be paid; a cancel or refund at
QiCard sends the server's payment id, which a gateway may not know (`kept`);
`handle_webhook` takes result code 0 as a success, which is why its claim is
"notified" and the service verifies.

### NetworkIndex, Plans, Rates

`NetworkIndex` has the steps of `build_network_index` and
`fetch_full_catalogue` on three files that several processes share: the lock file
is looked for, read, removed, created and signed in five steps, and an open for
writing empties a file before it is filled. Facts taken as they are: two processes at
the lock file together may both build (`raced`, exempt in `OneBuild`); a partial
fetch overwrites a whole cache; a lock left by a process whose id is in use
again after a restart blocks every build until somebody deletes it.

`Plans` has the import (one transaction per bundle, no UNIQUE constraint on
`provider_bundle_id`), the administration and the orders that refer to plans. Deleting
a plan clears `plan_id` of all its orders and deletes the row, where API.md (line 917)
promises a soft delete. Facts taken as they are: two imports that are about to add the
same bundle both do (`contested`, exempt in `OnePlanPerBundle`); an order waiting for
approval can then never be approved, because `approve_order` reads the plan's name;
`sync_catalogue_from_provider` is not reachable.

`Rates` has the two ways an exchange rate changes. The value and the source are
written separately, each only if it differs from the copy, so two changes that cross
may leave one's value under the other's source (`crossed`, exempt in `RateAsTold`).

## Runs

| Run | Result | What it shows |
|---|---|---|
| `ledger` | holds, 124,088 states | all invariants of `Ledger`, the refinement of `Settlement` and that no request waits for ever |
| `ledger_conserved` | `Conserved` violated | a confirmed deposit overwrites an adjustment made between its read and its lock |
| `ledger_available` | `SpendsAvailableOnly` violated | an order is paid with money frozen between its read and its lock |
| `payments` | holds, 6,440 states | one credit, for captured money, one session per key; what is paid is settled; the refinement of `Settlement` |
| `payments_cancel` | `CancelledAtGateway` violated | a payment is cancelled here and captured there |
| `fulfilment` | holds, 198,349 states | one owner per eSIM, at most one purchase per item, suspension only by the last retry, `activated` only with a bundle, and the refinement of `Stock` |
| `fulfilment_reprocess` | `ReprocessedIsFulfilled` violated | an order whose purchase failed gets no eSIM by reprocessing |
| `payments_refund` | `RefundTakesCreditBack` violated | a card refund leaves the wallet credited |
| `promotions` | holds, 2,068,898 states | uses are counted, within the limit in force, once per user; rewards are qualified by charged orders and stay cancelled; the refinement of `Offers` |
| `promotions_referrer` | `RewardIsForReferrer` violated | two referrals at once leave two referrers |
| `sessions` | holds, 5.3 million states | a code logs in once, tries are counted, a refresh token is used once unless requests raced on it or Redis lost one, and the refinement of `Access` |
| `operations` | holds, 821,104 states | see below |

What `operations` shows differs by service, because some of their handlers are kept
apart by nothing. Whatever overlaps, fails, crashes or is repeated: a completed backup
has its file until its retention is over or its deletion asked for; a notice reaches a
device once for each try; a code of `send_otp` on a phone is stored; no client tells
what has not happened; no callback is logged as a success or told that was not
committed; every order's plan is a row; a running dump ends, unless its worker or the
database does. With overlaps exempt, at the commits that the history variables name:
the closing of tickets, the spacing of scheduled backups, one index builder, one plan
per bundle, the source of a rate, the highest usage and the audit trail. Those races
are in the models, which reach the states they lead to; no document says that they
cannot happen, so they are hazards in `PROJECT.json` with a note, not findings.

Bounds. `ledger`: one wallet (handlers of different wallets share nothing), one
payment and one order of amount 2, so that partial refunds exist, two freezes,
adjustments of 1, two workers; `MaxPosted` = 1 stops an adjustment that would
raise the journal above it, which leaves room for one adjustment at a time next
to the deposit and the order. Two workers suffice for every race in the code: a
copy is stale as soon as one other transaction commits. `payments`: a ZainCash
and a QiCard payment with the same idempotency key, three workers, so that two
notices and a cancellation run together.

`fulfilment`: an `inventory_only` order of one item and a
`hybrid` order of two, two eSIMs, two workers, `MaxRetries` = 2. Three items and
two eSIMs make stock run out in every way (before, between and within the
orders); two retries separate the last failure from the others; both workers,
the provider and the importer race on the same rows. `on_demand_only` is left to
the proof; it only makes `Taken` empty. Workers, eSIMs and the two items of the
second order are symmetric, and no liveness is checked under the symmetry.
`fulfilment_reprocess` has one order, one worker and three eSIMs, so there is
always one left to buy.

`promotions`: a user with two orders and one with one, so that one user's two
orders and two users' orders compete for the coupon; the limits 0 (none) and 1,
which an administrator may set at any time, also below the uses already made;
two workers, because every race is between two transactions. One order is large
enough for a `min_amount` reward. `promotions_referrer` has a third user, so
that two of them can refer the first.

`sessions`: two codes, two devices, three pairs of tokens, two workers. Two codes
make the newest and the next older one; two devices replace each other; three
pairs allow two logins and a rotation, or two rotations of one token. `MaxAttempts`
= 2 separates the last try from the others. `MaxVersion` = 2 lets a login or logout
raise the version after another one did; `MaxLost` = 1 suffices for every property,
which say nothing after a loss. Workers and devices are symmetric, and no
liveness is checked.

`operations`: two workers, two rows of each table (one order, one notice). `MaxUsage`
= 2 gives a low, a middle and a high report; `MaxRetries` = 2 is a first, a last
and no further retry, and `MaxCuts` = 2 bounds the interruptions of a task by a time
limit or a crash. Two backups, one of them still running, completed, failed or
deleted when the next is made, and two import workers meet on one bundle. There
is no symmetry, because `BackupsEnd` is a liveness property.

Deadlock is not checked in the first three models: their rows are finite and every
one may reach its final status. It is checked in `Promotions`, `sessions` and
`operations`, where something can always happen: a coupon is edited, a logout is
repeated, a callback comes again.

Fairness. `Ledger`: PostgreSQL queues the waiters of a row lock, so `LockWallet` is
strongly fair; a handler that has its locks commits or rolls back (weak fairness of
the disjunction: nothing promises that it commits). `Fulfilment`: only for
`fulfilment_reprocess`; a request gets on with its work and an administrator
reprocesses a paid order again and again, as long as that does anything. `Payments`: a
worker does not keep a request for ever; a gateway repeats its notice until it is
answered with success and not every attempt to handle it fails (strong fairness of
receiving, verifying and confirming a payment). That is an assumption about the
gateways, and `PaidIsSettled` says nothing of a callback that never comes: no code
polls for it. `Backups`: `pg_dump` has a time-out of 600 s and the task a soft limit
of 30 s, so a job that is not killed goes on (`BackupsFairness`, weak fairness of a
worker's `Progress`; nothing promises that a dump succeeds). A job that is killed, or
whose failure the database does not record, goes to `orphaned`, which `BackupsEnd`
excludes: its record says running for ever.

## Proofs

`LedgerProofs` proves `TypeOK`, `PaymentSettledOnce`, `RefundWithinCharge`,
`ConservedUnlessRaced`, `FreezesCovered`, `SpendRespectsFreeze` and `Settles` (the
refinement) for any sets of users, rows and workers and any amounts. The inductive
invariant adds to them what a handler knows while it holds its locks: two workers
never hold the same row or the same wallet (without it a commit could invalidate what
another one has checked); a worker's request matches the row it locked (a payment, an
order, a refund or a freeze), so the status it read is still the status; and the copy
of a worker that holds the wallet, or has loaded it, equals the wallet unless it has
raced. The last part carries `ConservedUnlessRaced`: a commit writes `copy + amount`,
which is `balance + amount`.

`PaymentSettledOnce` and `RefundWithinCharge` are proved of `Settlement`
(`SettlementKeepsBooks`) and reach `Ledger` through the refinement, so they hold of
any other design that keeps the promise. So does `SettlementAddsUp`: a wallet's
journal is the sum of the entries for its owner's payments and orders and of
what administrators added, which with `ConservedUnlessRaced` explains the balance
row by row (`BalanceIsExplained`).

`FreezesCovered` and `SettlementAddsUp` speak of sums over sets, which
`SumFunctionOnSet` defines by recursion. The library's induction theorems cannot be
instantiated, but a set of natural numbers that is not empty has a least element
(`LeastNumber`, from `WFMin`, which takes a set), and a least counterexample does what
induction does: there is a function that satisfies the recursive equation on the
subsets of a finite set (`AlwaysSolvable`), only one (`UnfoldingIsUnique`), and it
does not depend on the order in which elements are taken out (`SumTakesOut`). So
freezing or releasing adds or removes one amount (`SumOfFreezes`), and an entry
moves one term of one sum (`SumMoves`).

`LedgerSoundOneAtATime` is about the two findings: in every behaviour in which no
request works on a wallet while another one holds an unlocked copy of it, the
balance is the sum of the journal, the freezes are covered and no order spends
them, without the exception for raced wallets. Serving a user's requests one after the
other would be enough, and so would a locking SELECT that refreshes the copy.

`PaymentsProofs` proves `TypeOK`, `CreditedOnce`, `VerifiedWasPaid`,
`OneSessionPerKey` and, as `PaymentsClosed`, that no cancelled or refunded payment is
credited again; no run checks that one by itself, since `Settles`, which `payments`
checks, has no such step. The invariant adds that a worker about to confirm after a
verification has a captured payment, that a row exists before a session, and that the
workers in the middle of an initiation have payments of their own. `PaymentsSettle` is
the refinement of `Settlement`: a confirmation has seen the row pending under its
lock, so its commit is a `Credit`.

`FulfilmentProofs` proves every invariant of `Fulfilment` and `Delivers`, the
refinement of `Stock`, for any orders, eSIMs, modes, workers and retry limit.
Most of the work is done without locks, so the inductive invariant says what a
request may still rely on: the items it has to buy for are in no other request
and have no eSIM (`WantsAreOpen`, for `BoughtOnce`); an eSIM it has bought is
not in the database yet (`Purchases`, for `OneOwner` and `Record`'s constraints); the
rows it activates stay sold, whatever else happens to them, and what the
provider reported stays true (`Working`, for `ActivatedHasBundle`); a retry's row
keeps the status and count it was read with (`Retrying`, for `SuspendedAtLimit`);
and the provider was never asked about rows still in stock (`StockIsBlank`).
Of `Stock` alone it proves that an item has one eSIM at most, that an order charged
from stock has one for each item (`StockServes`), and that an eSIM never leaves its
item nor the status `activated` (`StockNeverMoves`).

`PromotionsProofs` proves every property of `promotions`, and that a cancelled reward
stays cancelled (`PromotionsCancelledStays`, which the run checks as a part of
`KeepsOffers`). `CouponsHeld` carries
the coupon's part: until its commit, what an order has validated stays true and
its copy stays equal to the row, because the lock keeps out other orders and
changes of the limit. `NewOrders` says that an order being placed has no usage yet,
so that `CountIsUsages` follows from one more element in a finite set;
`Unlocked` says what the requests without locks rely on, above all that a charged
order stays charged and a reward, once inserted, is never deleted. The same
invariant gives the refinement of `Offers` (`PromotionsKeepOffers`), one lemma for
each commit. Of `Offers` alone follow `OffersCountHeads` (the counter is the number of
different users) and `OffersKeepLimit` (while a limit stays n, no more than n users
use the coupon). `ReferrerKeptOneAtATime` is about the finding of
`promotions_referrer`: where no two requests refer the same user at the same time,
the reward and `referred_by_id` name the same referrer.

`SessionsProofs` proves every property of `sessions`. `CodesInv`: a code is in the
hands of one request from its lock to the commit, is unused and has the tries that the
request has read, from which `TriesCounted` and `OneLoginPerCode` follow. The copies
of `device_sessions` need no part of it: one active device is what the unique index
leaves of a commit, whatever it was computed from, and who holds tokens is decided by
Redis's version. `RotationInv`: as long as Redis answers, a token that is being
refreshed is not revoked unless somebody came between, and every token that was handed
on is revoked. `VersionsInv`: as long as Redis answers, each login that is about to
commit has a version of its own, no higher than Redis's and on no token yet. So a
commit either has the newest version, and then every older token is below it, or comes
too late to matter: that is the refinement of `Access`. Of `Access` alone follow that
one device at most holds the account (`AccessHasOneHolder`) and that none comes to
hold it without spending a code (`AccessCostsACode`), both while Redis answers.

The ten services are proved one by one and composed at the end: a step of
`MCOperations` is a step of one service and a stutter of the others (`StepOfRequests`,
`StepOfTasks`, `StepOfCatalogue`), so the invariants of all hold of it. Each theorem
has the exemptions of the property it proves. `RequestsProofs` has `Tickets` (late
messages need a closed ticket), `Usage` (without a collision one callback reads at a
time, so its copy is the row; a callback tells the owner after its commit, which has
raised the highest report to its own) and `Console` (a request that was alone has the
row it read; an audit row about to be written tells of the last change).
`CatalogueProofs` has `Rates` (a change that no other crossed has read the only row),
`Plans` (an import that adds a bundle finds no other import adding it; a deletion has
cleared every order it must) and `NetworkIndex` (without a race one process is between
the test of the lock and the end of its build; the lock file of a builder at work
holds its id). `TasksProofs` has `Messages` (a code sent by `send_otp` was stored
before; nothing is logged before the answer), `Providers` (a reply on its way stays
true, because what happened at a provider is undone only by a call of ours), `Pushes`
(a notice is in the hands of one worker at most; a device that is left to be told has
got it no more often than its task was interrupted) and `Backups` (one worker per
record; a file that a worker has written stays on disk until its record is completed,
unless somebody has asked to delete it; at most one scheduled backup that did not
overlap is young or being made, and none while a task has just found that there is
none).

The assumptions are the named ASSUMEs on the constants: the row sets are disjoint, the
sets of rows that are counted or summed are finite, amounts are positive (CHECK
constraints and the handlers' tests), an item belongs to one order, the limits of
retries and tries are positive, and nulls are no members of their sets.

Model-checked only: `RequestsFinish`, `PaidIsSettled` and `BackupsEnd`, which are
liveness under fairness, and the six violations, which are counterexamples. Every
other property of a run is stated by a theorem.

## What could come next

Abstract promises for the ten smaller services; price, discount and tax
arithmetic against a reference over bounded inputs; `Ledger`, `Fulfilment`
and `Promotions` as one order.

## Divergences without a run

Three statements of the repository's documents are contradicted by a single handler
each, so that reading it is enough and no run searches for a counterexample; the models
have the code's behaviour.

- README.md:120 and 131, a full audit trail: `toggle_user_active`
  (`routes/admin.py:99`), `update_server_config` and the handlers of taxes and coupons
  commit a change and write no audit row; `refund_order` raises before it does.
- README.md:446, every provider call is fully logged: `_log_transaction`
  (`providers/esim/esimgo.py:42`) swallows its own errors, and the catalogue's queries
  never call it.
- API.md:917, deleting a plan is a soft delete: `delete_plan`
  (`plan_service.py:441`) clears the plan of its orders and deletes the row.

## Hazards without a property

`PROJECT.json` lists the hazards. For seven of them it says in a note why no property
covers them: the models have the race, nothing in the code prevents it, and no
document says that it cannot happen. They are `auth_service.py:255` (two uses of a
refresh token), `support_service.py:136` (messages beside a closing),
`backup_tasks.py:33` (two scheduled tasks), `auth_service.py:71` (`register`'s code
after a rollback), `plan_service.py:163` (two builders at the lock file),
`currency_service.py:38` (two changes of a rate) and, of simultaneous imports only,
`plan_service.py:249`. These are left, and no property of the project would show them
going wrong:

- `payment_service.py:544`: the worker dies after the gateway has returned the money
  and before the commit, so the payment stays completed. Nothing in the code recovers
  from it.
- `payment_service.py:539`: `refund_qicard_payment` makes a new request id for every
  attempt, so a retry after a lost reply is a second refund to the gateway. What the
  gateway does with it is not in the repository.
- `payment_service.py:277`: a ZainCash callback that never arrives leaves the payment
  pending. No task polls the gateway.
- `refund_service.py:94`: `create_refund` reads an expired, detached instance after its
  transaction is committed; the request fails although the refund is made.
- `referral_service.py:160`: `_do_credit` parses an id that is already a UUID; the
  credit raises, and with `auto_credit` the order that qualified the reward fails.

## Not modelled

Prices, taxes, discounts and currency conversion (inputs of the models), read-only
endpoints, analytics, reports and invoices, HTTP validation and translation, Socket.IO
events, request signing and parsing. Of authentication: the revocation of
access tokens, which live 15 minutes, and the 2FA routes, which raise. Handlers that no
route or task reaches: `allocate_iccid`, `check_expiry`, `apply_coupon`,
`check_transaction`, `reverse_transaction`, `sync_catalogue_from_provider`,
`send_to_all`, `sms_tasks`. `SERVER_TZ` is read at import, so a change of the
time zone setting needs a restart; the models have no calendar.
