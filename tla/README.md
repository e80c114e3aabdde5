# weriKana: models, checks and proofs

weriKana is a Go service over one database (GORM, PostgreSQL), one NATS server
and the M-Pesa gateway. Customers hold accounts with bookmakers and other
markets; the service books deposits, trades and withdrawals on those accounts,
prompts customers' phones for payments, credits them when M-Pesa calls back,
and sends withdrawals to workers over NATS.

This directory holds TLA+ modules translated from the Go source, TLC
configurations for small instances, and proofs checked by TLAPS for every value
of the constants. Paths below are relative to `src/`.

Run a check with `tlc -config StkOverlap.cfg MCStkDeposit.tla`, a proof with
`tlapm StkDepositProofs.tla`.

## 1. Inventory

### Money in

| component | code | state | operations |
|---|---|---|---|
| smart deposit | `api/handlers/smart-mpesa-depo.go` | account rows, transaction rows, the handler's locals | split an amount over the bookie accounts by balance; per leg read, save, insert; publish the legs or mark them instantly credited |
| STK push consumer | `api/handlers/depo_seqncr.go`, `service/mpesa/client.go` | the messages of each subscription | per leg push a prompt to the phone, record status and CheckoutRequestID |
| STK callback | `service/mpesa/callback.go` | none of its own | find the row by CheckoutRequestID, credit, settle |
| account ledger | `AccountDeposit`, `BaseDeposit`, `api/handlers/trade.go`, `api/handlers/fake-topup.go`, the debit of `service/dd_rr/foreman.go` | account row, profile row, transactions | deposit, trade, top-up and withdrawal, each as a chain of statements |
| transactions table | `models/transaction.go`, `db/initdb.go` | the rows | the `BeforeCreate` hook, the unique indexes |

### Money out

| component | code | state | operations |
|---|---|---|---|
| withdrawal codes | `service/otp/otp.go`, `api/handlers/otp.go` | a map in the process, one sleeping goroutine per code | send, verify, expire |
| smart withdrawal | `service/dd_rr/foreman.go` | account rows, transaction rows, locals | plan, debit leg by leg, insert rows, publish |
| execution engine | `service/natsAnish/server.go` | messages of each subscription | decode a message, start a goroutine per leg |
| secure withdrawal | `service/dd_rr/nats_publisher.go`, `api/handlers/smart-width.go` | one transaction row under a row lock, a JetStream stream | lock, publish, wait for the acknowledgement, record |

| allocation | `api/handlers/allocation.go` | the amounts and what remains of a balance | give each bookie its share, minimum, maximum or nothing; hand out the remainder by score |

### The rest

Ciphers and signatures (`service/dd_rr/crypto.go`), the key store, the
withdrawal listeners, the NATS helper, login and middleware, read-only handlers,
routes and configuration, and the entity models. `PROJECT.json` lists them with
the reason each is left out.

### How the parts interact

- Requests run on goroutines of their own and meet only in the database. Apart
  from the secure withdrawal, no handler holds a database transaction around
  its work: `SmartDeposit` opens one around statements that go to `db`, and
  `SmartWithdraw` opens one and then uses `db`. So a *statement* is the unit of
  atomicity, and rows read earlier are written back whole (`Save`).
- `SmartDeposit` publishes to `mpesa.stk.sequence` on core NATS. The consumer is
  subscribed in `main.go:136` and again in `routes/routes.go:41`, without a queue
  group: each message is handled once per subscription.
- The gateway answers a push and, later and independently, posts the callback.
  The callback may come before the push's answer was stored.
- `SmartWithdraw` publishes to `bets.cashout.withdraw`; the engine's goroutine
  panics on a message without legs, and takes the process with it.
- The withdrawal debits, in SQL, the rows that deposits and trades read and save
  back whole.
- `SendSecureWithdrawalViaNATS` publishes from *inside* a transaction; the
  publish survives a rollback, and an error of the commit does not tell the
  caller whether the row was changed.
- On SIGTERM `main` waits for the requests being served (`Shutdown`) and asks NATS
  to drain without waiting for it, so queued messages can be lost.

### What is hard, and what makes each part correct

| part | hard behaviour | correct when |
|---|---|---|
| smart deposit | overlapping requests on the same accounts; a leg saved whose row is refused; a restart between two legs | balances are explained by what was posted; only complete requests prompt a phone; legs stay within the amount unless an account is overdrawn |
| consumer | two subscriptions, timeouts that leave a prompt open, lost messages, a failing leg among others, a stop that does not wait | prompts have rows and ask for what the row says; every leg of a message gets its outcome; a row goes forward but for what a further subscription records over it |
| callback | callbacks posted twice, served concurrently, before the reference was stored, or across a restart | credits need payments; a payment is credited |
| ledger | stale rows saved over each other, debits planned on a row that has changed, failed statements half way | nothing is overdrawn; balances and volumes are exact; each call is atomic; all unless a stale row was used, and each says of which kind |
| codes | overlapping sends, late goroutines, restarts | a code lives no longer than its time, is the customer's last and has its timer; the empty code passes only without a code; a lone code lives that long |
| smart withdrawal | overlapping requests, refused rows, the engine's panic | overdrafts need overlap; debits stay within the request; what is debited is sent |
| secure withdrawal | late and lost acknowledgements, retries, an unanswered commit, a lock held over a network wait | one call sends a transaction; the audit trail points at its envelope; every call ends |
| allocation | shares raised to a minimum, cut and dropped, then a remainder that looks at maxima only | only minimums exceed the budget; one amount at most is too small; the remainder goes by score |

`PROJECT.json` has the hazards behind this table, each at its line, with the
properties that cover it.

## 2. Modules

| module | models |
|---|---|
| `Transactions` | `BeforeCreate` and the unique indexes: which rows a `Create` accepts. Extended by every module that books a row |
| `Split` | the proportional share of an account |
| `StkDeposit` | smart deposit, NATS topic, consumer, push, gateway and callback, composed in one module because they meet in the same rows |
| `Payment` | the abstract payment that `StkDeposit` implements: a leg is booked once, only a booked leg is prompted for, a prompt is decided once, only a paid prompt is credited |
| `Ledger` | `AccountDeposit`, `BaseDeposit`, `PlaceTrade`, `FakeTopup` and a one-account `SmartWithdraw` on one account and its profile |
| `AtomicAccount` | the abstract account those handlers promise: each call takes effect at most once, in one step, a trade or withdrawal only when covered |
| `Otp` | `Send`, its goroutines, `Verify`, restarts |
| `Withdraw` | `SmartWithdraw` of `foreman.go`, the topic, the engine's decoder, `TestWithdrawal` of `main.go` |
| `SecureSend` | `SendSecureWithdrawalViaNATS` with its lock and its stream |
| `Allocation` | `AllocateFunds`, one action per iteration of its two loops |
| `MC...` | constants for TLC |
| `Sums` | no code: lemmas about sums over finite sets, induction over them, and `Split`, for the proofs |
| `...Proofs` | the theorems |

**State and actions.** A table is a function from ids to the columns somebody
reads; a handler is a `pc` and its locals; one action is one SQL statement, one
NATS call or one HTTP exchange, with everything the code does up to the next
one. Names follow the code (`Submit`, `ReadAccount`, `SaveAccount`, `CreateTxn`,
`Publish`, `Lookup`, `Credit`, `Settle`, ...). `PROJECT.json` maps each
definition to its lines. History variables (`posted`, `saved`, `stale`,
`credits`, `basis`, `recorders`, `applied`, `counted`, `debited`, `sent`, `raised`) are
written for the properties and read by no guard; `storedAt` also bounds how late a goroutine starts (`Tick`).

Each module also has a few operators commented "Variant of ...". They are
plausible mistakes in that place of the code and are used to see that a
property notices them; no specification uses them.

**Readings.** The tree does not build as it stands; where a declaration is
missing, the model makes it a parameter or takes the reading the callers need:

- `db.Init` and the `BookieAccount` model are not defined. The struct tags
  declare unique indexes on `reference` and `idempotency_key`, but SQL beside
  them may not; `UniqueColumns` is a parameter and runs use all, one and none.
  Whether the hook sees a bookie account's id is the parameter `BookieIsSports`.
- `StatusInitiated` is used and not declared; it is taken to be the status
  `"initiated"`.
- `otp.Service` in the handlers is taken to be the package functions of
  `otp.go`; `GenerateOTP` is taken to return what its caller uses.
- Nothing mounts `STKCallbackHandler`; it is taken to be served. The gateway posts
  the struct it decodes, with the `CheckoutRequestID` it answered to the push. A
  body cut off on its way (400) ends like a lookup that fails (404): neither
  changes anything, and the gateway may post again. Posts without an id, whose
  empty string would match the `third_party_ref` of a push answered without one
  (`callback.go:45`), are not modelled.
- The process is restarted after a panic, and then `main` runs from the top.

**Data.** Amounts are integers in cents. `int64(float64(amount) * proportion)`
is floor division, except that an exact product whose proportion has no exact
float64 may come out one lower; `LegAmount` in `Split` leaves that choice open per
account (`short`). Balances may be negative: a withdrawal debits more than is left
when two overlap, and a top-up is not checked. `Share` is what such an account counts
in the split: nothing when its sign is not that of the pot, since the loops skip a
proportion that is not positive. `Allocation` keeps its floats as exact fractions (reserve in
percent, beta in tenths, returns and volatilities as integers); scores that are
equal as fractions may be taken in any order. The five branches of `PlaceTrade`
(`trade.go:44`) differ in the table only; the map names the first. Metadata is kept as far as somebody reads it
(`third_party_ref`, `final_status`). Names, phone numbers, signatures,
encryption, logging and the wording of answers are left out. A Go map's order of
iteration and an unordered query are a free choice of the next account. 64-bit
overflow of cents is out of the range of the values the code can meet and is
not modelled.

## 3. Runs

Every configuration sets `CHECK_DEADLOCK FALSE`: requests, codes and calls are
finitely many and a loop ends, so each system stops when they are over. Bounds are
constants: `MaxFaults` (failed statements, lost messages, stops, unanswered
commits), `MaxCrashes`/`MaxRestarts`, `MaxDuplicates`, `MaxTime`.

### Passing

| run | instance | what it shows |
|---|---|---|
| `StkOverlap` | 2 real requests of 150 or 350, 2 accounts holding 1 and 200, 2 subscriptions, pushes that may be refused, 2 goroutines per callback, unique reference, a gateway that deduplicates, 1 duplicate | Two deposits race over the same rows. `BalancesArePosted`: a balance is its opening plus what was posted, or less on an account a stale row was saved to. `PromptsAreComplete`: a request whose second leg is refused by the index prompts nobody. `EveryCreditIsPaid` under concurrent callbacks. `RowsKeepOrder`: a row recorded by one subscription goes forward only; the other records over it once, whatever it was, and only after that is a settled row settled another way. `PaymentSpec`: the deposit implements `Payment` under `booked <- Stored`, `prompt <- checkout` |
| `StkLifecycle` | 1 request in all 4 modes, 2 accounts of 100 and 200 real and -50 and 100 fake, 1 subscription, every push error, a gateway that opens a checkout per push, 1 fault (failed statement, lost message or stop), 1 restart, fair | `PromptsAreBooked`, `PromptsAreComplete`, `EveryCreditIsPaid` across a restart between credit and settlement. `SplitWithinRequest`: the legs are within the amount (amounts that split exactly, with a cent left, and zero), and within twice the amount where the overdrawn account leaves a pot of 50 for a balance of 100. `PublishedIsRecorded`: each leg's outcome is recorded though others fail. `PaidIsCredited`: also when the callback overtakes the record of the push |
| `LedgerRace` | 3 overlapping calls (deposit, trade, top-up, withdrawal) of 0, 100 or 150, 1 fault, both indexes | `NeverOverdrawn`, `ExactUnlessStale`, `TablesAgree` when no call is under way. `AtomicUnlessStale`: the handlers implement `AtomicAccount` under `funds <- account`, `done <- applied`, but for a save or debit on a row that had changed |
| `Otp` | 2 customers, 3 codes, TTL 2, Slack 1, clock to 10, 1 restart | `CodeIsFresh`: whatever is presented, a code that was sent or the empty string, is accepted only if it is the customer's last code within its time, or empty when the customer has no code left. `LoneCodeLives` |
| `Withdraw` | 3 requests, 2 accounts, 2 subscriptions, 1 fault, development message | `OverdrawnOnlyByOverlap`, `DebitsWithinRequest`, `NothingIsPaidOut` |
| `SecureSend` | 2 transactions in any status, 3 calls, 1 fault (unanswered commits included), 1 restart, fair | `SentOnce`, `AuditIsInStream`, `CallsEnd` |
| `Allocation` | 3 bookies, each of 6 kinds, balances 0, 10, 20 and 35, reserve 10 % and 150 %, beta 0, 0.5 and 1, minSend 0 and 3 | `OnlyMinimumsOverspend`, `OneSmallAmount`, `RemainderByScore` |

The type invariant of `StkDeposit` is checked in `StkLifecycle`; the other passing
runs carry that of their module. Together they take every action of every module.
TLC finds 430444 distinct states in `StkOverlap`, 86472 in `StkLifecycle`, 133112 in
`Otp`, 323264 in `Withdraw`, 271194 in `SecureSend` and 65280 in `Allocation`.

### Counterexamples

Each checks one sentence of the repository against what the code does.

| run | sentence | what happens |
|---|---|---|
| `StkUnpaid` | "true = MPESA for smart" (`smart-mpesa-depo.go:36`) | `BaseDeposit` adds a real leg to `real_balance_cents` before any prompt is sent; the callback adds it again |
| `OtpStaleTimer` | "invalid or expired OTP" (`smart-width.go:27`) | the timer of an earlier code deletes the customer's newer one |
| `WithdrawUnsent` | "proportional debit + send to Execution Engine" (`foreman.go:39`) | the leg's row has a negative amount, the hook refuses it, the rollback is on a transaction nobody used and the debit stays |
| `SecureTwice` | "dedup + ack", "idempotency guard" (`nats_publisher.go:100`, `:64`) | an acknowledgement that comes too late rolls the row back; the retry has a fresh MsgId and the stream stores the transaction twice |
| `AllocationOverspend` | "Reserve buffer" (`allocation.go:31`), "round up to min if funds permit" (`:79`) | a share raised to its minimum leaves less than the later shares, which are checked against nothing: the plan takes the reserve |

Further behaviours are allowed for inside passing properties. A leg whose
account is saved and whose row is then refused stays in the balance
(`BalancesArePosted` counts it as posted; `PromptsAreComplete` keeps it from the
phone). Two overlapping trades may both pass the check on the same money, and
the second save then hides the first; a withdrawal may debit money that was
spent since it looked. `ExactUnlessStale` and `AtomicUnlessStale` except exactly
the saves and debits made on a row that had changed, and `NeverOverdrawn` only the
debits: a stale save is wrong, but never negative.

`Verify` does not ask whether there is an entry, so a customer who has no code, never
sent, expired or lost with a restart, passes with the empty string, which
`SmartWithdraw` does not refuse (`foreman.go:58`). `CodeIsFresh` says that the empty
code passes only then. An overdrawn account makes the pot smaller than the balances
of the others, and the legs of a smart deposit then exceed its amount (balances of
-50 and 100 and an amount of 300 give a leg of 600); `SplitWithinRequest` bounds them by
the amount times what those balances make of the pot, and by the amount itself when no
balance has another sign than the pot. `updateTxStatus` does not look at the row, so the
second subscription of the process records a settled or credited row as initiated
again, and its callback settles it again; `RowsKeepOrder` says that this is the only way
back and that each further subscription takes it at most once per leg.

`OverdrawnOnlyByOverlap` says that two requests debited an overdrawn account. They
planned on the same pot, or the later one would have found it covered; that part is
not in the property.

### Why the bounds are enough

- Races here are between a read and a write of one row: two requests or calls
  show each of them, a third (in `Ledger`, `Withdraw`, `SecureSend`) shows a
  victim that took part in neither. In `Withdraw` the third request plans on a pot
  that two others have overdrawn, which is what the exception in
  `DebitsWithinRequest` is about.
- A reserve above 100 % makes the allocatable amount negative; the plan is then
  compared with zero, and the run has such a reserve.
- Two accounts make a partial booking possible, and a split with a remainder.
  Three bookies let a raised share, a capped one and one served last meet.
- Balances and amounts are chosen so that the branches of the split are met: a leg
  of zero, an exact product, a remainder, an empty pot, a pot that is spent, an
  overdrawn account beside a larger balance. A pot that is itself negative is left to
  the proof.
- Failures, duplicates and restarts are one each: a second of a kind repeats
  what the first can leave behind. Where that is not obvious, the theorems of
  section 5 hold for any number.
- `StkOverlap` has refused pushes but no timeouts, faults or restarts, and `StkLifecycle` has one
  request, one subscription and one goroutine per callback: the two together with
  all options are beyond a few minutes of TLC. `PaymentSpec`, `BalancesArePosted`,
  `SplitWithinRequest`, `EveryCreditIsPaid`, `RowsKeepOrder` and the two properties of
  prompts are proved for all options at once. The process makes two subscriptions;
  `RowsKeepOrder` is checked with two. The two liveness properties are checked with
  one only.
- In `Otp`, a code is gone after `TTL + 2 * Slack` = 4 ticks; with a clock to 10,
  a second code can begin after the first one's end and be followed to its own.
- Symmetry is used in safety runs only, over ids that the specification compares
  by equality only. The one `CHOOSE`, in `StkDeposit!CheckoutOf`, is over a set of at
  most one checkout: a gateway that deduplicates opens one per leg.

## 4. Fairness

- `StkDeposit`: weak fairness for each request's statements, each
  subscription's steps, the gateway's delivery of a callback it owes, and each
  goroutine serving one. Started goroutines are scheduled, database and
  gateway calls have timeouts, and a gateway that is not answered 200 posts
  again (`Redelivers`, an assumption about it). Nobody has to submit or to pay,
  and no failure has to happen. `StkLifecycle` takes its liveness through a fault
  or a restart too, but nothing in the code repeats a lost message, so
  `PublishedIsRecorded` and `PaidIsCredited` promise nothing once one happened.
- `SecureSend`: weak fairness for each call's next step and for the arrival of an
  envelope that was not lost. The wait for an acknowledgement ends by itself
  (`AckWait`). Weak fairness is enough for the row lock: calls are finitely many
  and each releases the lock on all of its paths, which is what `CallsEnd` tests;
  it holds with faults and a restart.
- `Otp` and the others state no fairness. `Otp` bounds how late a goroutine can
  run by `Slack` in the guard of `Tick`, so its timing properties are invariants.

## 5. Proofs

The theorems hold for every value of the constants that meets the module's named
assumption: finite, non-empty sets of accounts, integers for the balances a deposit
finds, natural numbers for amounts and bounds. TLC evaluates those assumptions in the runs.

Every invariant and every action property of the passing runs is stated by a
theorem, and so is the refinement of both abstract specifications. A failed
proof has corrected a property: `OnlyMinimumsOverspend` compared the plan with the
allocatable amount, which is negative for a reserve above 100 % while the plan
is not; it now compares with zero then, and the run has that case.

**`Sums`.** Amounts are added up with `SumFunction`, a fold that is defined as a
solution of a recursive equation and takes whichever element `CHOOSE` picks next.
`StrongSubsetInduction` gives induction over the subsets of a finite set from
their well-founded order, for a *set* of subsets, since the provers cannot
instantiate an induction theorem with an operator. With it the equation is shown
to have a solution, and one only (`SolutionExists`, `SolutionsAgree`), for sums and
products alike; by a further induction `SumRemove` and `SumAdd` take out or put in any
element, whichever the fold picks. The rest
(`SumMonotonic`, `SumUpdate`, `SumPlus`, `SumScale`, `SumOfOnes`, ...) follows by
induction. `LegIsFloor` says that a leg is at most its share of the amount, whatever
the signs of the balances, `SplitIsWithinShares` that legs which are each within their
share are within the shares together, and `SplitIsWithinAmount` and `SharesOfOneSign` that
they are within the amount when the parts are of one sign: n floors of parts of a
whole are within it.

**`StkDepositProofs`.** `TypeCorrect`, by one lemma per group of actions.
`BalancesCorrect`: `Spec => []BalancesArePosted`. The invariant is not inductive:
a save writes back a row read earlier, and nothing in the property bounds that
row. `LedgerInv` adds `HeldRowsArePosted`: a row held by a handler shows no more
than the opening plus what has been posted by now, which stays true because
`posted` never falls. A save then keeps the upper bound, and keeps equality when
the row is still the one in the table.
`ImplementsPayment`: `Spec => PaymentSpec`, each step of the
deposit is a step of the payment or leaves its three variables alone. That a
push asks for a booked leg and a credit follows a paid prompt is not visible in
the step: `PayInv` follows the leg through the request, the message, the
subscription (`LegsAreBooked`) and the reference through the answer, the row and
the callback (`AnswersAreOwn`, `RefsAreOwn`, `CallbacksAreOwn`).

**`PromptProofs`.** `PromptsHaveRows`: `Spec => []PromptsAreBooked`;
`PromptsAreWhole`: `Spec => []PromptsAreComplete`. A push knows its message only,
so the properties say nothing of why the request behind it is complete.
`PromptInv` strengthens `PayInv` with `LoopInv` (what of its plan a request has
booked at each `pc`, and that it saves nothing else), `MessagesAreComplete` (a leg
in a message is one of a complete, real request, with the amount of its row) and
`PromptsAreDue` (the same of a prompt). It is kept because a request publishes
after its loop, and no step undoes a booking.
`RowsGoForward`: `Spec => RowsKeepOrder`, for any number of subscriptions. `RowInv` orders
the writers of a row, which never meet: until its first push is recorded a row is as it
was booked (`StageInv` before the publish, `RecordedInv` after it); a subscription has no
leg twice in its messages and none it has recorded (`WaitingInv`), so it records a leg
once; an answer with a reference is an initiated one (`AnswersInv`); and a callback that
found a row carries the decision of its own checkout (`ServedInv`). While one subscription
has recorded a leg, all who refer to the row or found it do so by one checkout, and the
row is what the customer's decision on it allows (`RecordedInv`), so it only goes forward.
A second record breaks that and is what `RecordsOver` and `SettlesOver` name.
`SplitStaysWithinRequest`: `Spec => []SplitWithinRequest`, for balances of any sign.
`SplitInv` adds that a leg without a row has no amount (`UnbookedIsFree`) and an idle
request no plan (`IdleIsFree`). Then `Submit` starts from an empty sum (`NothingIsWithin`)
and plans each leg within its share (`LegsAreWithin`), `CreateTxn` moves a leg from the
plan to its row, every other step drops a plan or leaves both alone, and what the
request was split by does not change (`BasisStays`).
`CreditsArePaid`: `Spec => []EveryCreditIsPaid`, for any number of goroutines per
callback, duplicates and restarts. A bound on the credits alone says nothing of a
callback under way, so `CreditInv` counts those too (`Accounted`): credits, paid
callbacks that are still due and callback goroutines that may still credit are
together no more than the paid prompts, duplicates and restarts. It needs to know
which callbacks cannot credit any more: one is `Findable` while its row refers to
its checkout or a push of the leg is still to be recorded, and a settlement, which
clears the reference, takes that away from whoever has not looked the row up yet.
`OneRef` (a row and an
answer name one checkout at most) is why a restart makes one callback due again
and not several; `UndecidedIsQuiet` is why a decision adds one to both sides.

**`LedgerProofs`.** `TypeCorrect` and `FundsStayPositive`:
`Spec => []NeverOverdrawn`, overlaps and faults included. `FundsInv` says of each
handler about to save that the row it holds is itself not negative and, for a
trade or withdrawal, covers the amount: the balance written is right even when the
row is stale, and a debit is covered when it is not. `ImplementsAtomicAccount`:
`Spec => AtomicUnlessStale`; the checks that a handler made on its row are those
of `AtomicAccount` as long as row and account agree, and a call that has yet to
write has not taken effect.
`ExactBalances`: `Spec => []ExactUnlessStale`. `BooksInv` equates account and volume
with sums over the calls that took effect (`ExactInv`), and says at each `pc` which
of those sums the call is already in (`Settled`), so that each save adds its call to
one of them; the row it was read from is the one in the table, or the save is
stale. `TablesStayInStep`: `Spec => []TablesAgree`;
when all calls are over, `Settled` makes the calls counted in the account those in
the journal, the top-ups and the errors.

**`OtpProofs`.** `TypeCorrect`; `CodesAreFresh`: `Spec => []CodeIsFresh`;
`LoneCodesLive`: `Spec => []LoneCodeLives`. `FreshInv` has `EntryHasTimer` (an entry
of the map is a code of that customer whose goroutine is starting or asleep),
`EntryIsLast` and `TimersAreInTime` (neither is late by more than `Slack`); the
bound on a code's age is their sum. `MissingIsOver` is for the empty code: an entry is
missing because nothing was stored since the process started, or because a goroutine of
the customer woke when every code of the customer had been stored (`EntryIsLast`), and
a later `Store` makes an entry. A lone code lives because the goroutines of
older ones are over by then, and its own sleeps its whole time (`SleepIsWhole`).

**`WithdrawProofs`.** `TypeCorrect` and `WithdrawalsStayUnpaid`:
`Spec => []NothingIsPaidOut`. `RowIsRefused` is the fact it turns on: the row of a
leg has a negative amount, whatever the indexes. `PaidInv` says where a request
that has debited an account can be, at that account's row or over.
`OverdraftsAreShared`: `Spec => []OverdrawnOnlyByOverlap`; `DebitInv` adds what a plan
is bounded by (`PlanInv`) and what an account with no debtor or with one has lost
(`BalanceInv`). One debtor took no more than the opening balance, so a balance
below zero has two. `DebitsAreWithinRequest`: `Spec => []DebitsWithinRequest`: what a
request debits is zero or what it planned, and a plan adds up to no more than the
amount (`SplitIsWithinAmount`) unless the pot it was divided by held an overdrawn
account, which stays overdrawn since nothing is paid in.

**`SecureSendProofs`.** `TypeCorrect` (with: a row has one holder), `SendsOnce`:
`Spec => []SentOnce`, `AuditCorrect`: `Spec => []AuditIsInStream`. `SendInv` has
`HolderInv` (a call past the guard holds the lock and its row is not pending),
`SentInv` (a row with a key is pending and the key stays) and `AckInv` (an
acknowledged envelope is where the stream said; the stream only grows). Mutual
exclusion from the lock and the status guard together give `SentOnce`; neither
would alone.

**`AllocationProofs`.** `TypeCorrect` (nobody is sent more than the maximum),
`SmallAmountIsLast`: `Spec => []OneSmallAmount`, `RemainderGoesByScore`:
`Spec => []RemainderByScore`, for any bookies, scores and rounding. `AllocInv`
adds `RestInv`: while something remains, the bookies the second loop has served
are full, so the one it leaves short is its last.
`MinimumsBoundOverspend`: `Spec => []OnlyMinimumsOverspend`. `BudgetInv` keeps each
amount of the first loop at its floor of the allocatable amount or at the minimum
it was raised to (`SharesInBudget`); the floors add up to no more than that amount
(`RaisesBoundExcess`), so an excess is what shares were raised by. The second
loop moves money from what remains to an amount and stops at zero.

**Only model-checked.** Liveness (`PublishedIsRecorded`, `PaidIsCredited`,
`CallsEnd`): it rests on fairness and `ENABLED`, which the prover does not handle.
The properties of the counterexample runs are refuted there and not proved.

## 6. Not modelled

- The goroutines the engine starts per leg: they call scraping functions that are
  not defined, and `NothingIsPaidOut` shows that no message reaches them.
- `CalculateAllocations`, which `smart-width.go` calls, is not defined;
  `ProcessWithdrawal` and `PublishWithdrawal` have no callers.
- `EV`, a float sum of `PlaceTrade` beside the volume.
- Ciphers, signatures, the key store (`service/keystore`), login, middleware: data
  and checks without state that others change. Nothing fills the key store's map.
- The withdrawal listeners print or log a message; the payment call they make is
  not defined. The NATS helper is a connection and a publish, and what core NATS
  does with it is in `StkDeposit` and `Withdraw`.
- Read-only handlers, routes, configuration and the columns of the entity models:
  the columns that change are variables of the modules above.
- Flags, logging and the opening of connections in `main.go`. Its graceful stop is
  `Stop` of `StkDeposit`; a restart can also happen at any point.
- That nothing mounts `STKCallbackHandler`, and that `smart-width.go` sends a
  transaction with a fresh id, which `First` never finds: fixed facts of the code,
  not behaviours. The models take the callback as served and let `SecureSend`
  start from rows that exist and rows that do not.
- What happens to an SMS: `Send` publishes it to a fixed subject and drops the
  error; no state depends on it.

## 7. Plan

In this order; all but item 9 are done.

1. `Transactions`, `Split`, `StkDeposit`: the money that comes in, with its proofs.
2. `Ledger` over `AtomicAccount`: the account row under its five writers.
3. `Otp`: the codes.
4. `Withdraw`: the money that goes out.
5. `SecureSend`: the lock, the stream, the retry and the commit whose outcome the
   caller does not learn.
6. `Allocation`: the two loops of `AllocateFunds`.
7. `Payment`, the abstract deposit that `StkDeposit` implements.
8. Theorems about prompts, payments, rows, the atomic account and lone codes.
9. A withdrawal with its code: `Withdraw` composed with `Otp` through `Verify`, for
   how many withdrawals one code authorises.
10. `Sums`, and with it theorems for the properties that add up or count:
    `SplitWithinRequest`, `EveryCreditIsPaid`, `ExactUnlessStale`, `TablesAgree`,
    `OverdrawnOnlyByOverlap`, `DebitsWithinRequest`, `OnlyMinimumsOverspend`.
