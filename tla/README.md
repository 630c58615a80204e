# SGI-Curime: verification of the backend

SGI-Curime is the management system of a community association: a NestJS
backend over Prisma and PostgreSQL (`src/backend`), a React client
(`src/frontend`) and its documents. The client decides nothing the backend
does not decide again, and the backend keeps no state of its own between
requests: everything that lasts is a row. What can go wrong is therefore in
the handlers that run at the same time, between the moment each reads its rows
and the moment it writes them. That is what these modules model.

## Inventory

| part | state it keeps | operations that change it | interacts with | what makes it correct |
|---|---|---|---|---|
| reservations | `ReservableResource`, `Reservation` | create, approve, reject, cancel | opens and cancels charges; inbox notifications in the same transaction | no hour booked twice, statuses follow the policy |
| financial | `FinancialCharge`, `Payment`, `FinancialMovement` | recordPayment, createMovement | charges belong to reservations | one payment per charge, ledger agrees with payments |
| donations | `Donation`, `FinancialMovement` | create, update, cancel, remove | posts and reverses movements | donation and movement agree, one reversal, nothing orphaned |
| inventory (categories, items, movements, loans, alerts, reports) | `InventoryItem`, `InventoryMovement`, `InventoryLoan` | entry, exit, adjustment, lend, return, cancel, activate | loans take from and give back to the stock | stock is the sum of its movements and never negative, a loan comes back once |
| assemblies | `Assembly`, calls, convocations, attendance | lifecycle, convocations, attendance | justifications and sanctions refer to attendance | nothing edited after it is locked or finished |
| absence justifications, sanctions | rows and evidence files | create, decide | assemblies, affiliates | one per absence, no row without its file |
| affiliate requests, affiliates | `AffiliateRequest`, `Affiliate` | submit, approve, reject, update | assemblies convoke affiliates | one standing per person, an affiliate has one approved request |
| user requests, community accounts | `User`, `UserRequest`, `AccountActivationToken` | submit, approve, reject, register, correct, reverify, resend, verify, activate | create the users auth admits; send e-mail | decided once, a link works only for the address it was mailed to |
| auth | `User`, `Session`, `PasswordResetToken` | login, refresh, logout, password changes and resets | everything | a refresh token rotates once; no session or token outlives what revokes it |
| users and roles | `User`, `Role` | register, activate, deactivate, change role | auth: both bar sessions | an administrator always remains |
| volunteering | `VolunteerOpportunity`, `VolunteerApplication`, `VolunteerParticipation` | create, update, sessions, publish, close; submit, approve, reject | persons | seats and deadlines respected, approval and participation agree |
| institutional board, profile, events, entrepreneurship, territorial catalog | their own rows | CRUD, terms and appointments | persons | appointments meet their term |
| notifications, audit, reports, health, common | inbox rows, audit rows | inserts and reads | called by all | deduplicated, complete |

`PROJECT.json` lists every part with its sources and says which are modelled.
Its hazards are the places where two handlers, a retry, a failure or a
boundary can break one of those promises.

## Modules

| module | models | extends |
|---|---|---|
| `ReservationRules` | the pure rules: blocking statuses, transition policy, overlap, time range, pricing | |
| `SerializableTx` | what PostgreSQL promises to a Serializable transaction (external) | |
| `Reservations` | reservations and their charges, payments and movements; the seed | both above |
| `ReservationBook` | the abstract specification: holdings, debts, receipts | `ReservationRules` |
| `ReservationRefinement` | the mapping from the rows to the book | `Reservations` |
| `Donations` | donations and their movements | `SerializableTx` |
| `InventoryStock` | stock, movements, loans, activation of items | |
| `Assemblies` | one assembly: lifecycle, call rounds, convocations, attendance | |
| `AbsenceJustifications` | the justifications of its absences, composed with its handlers | `Assemblies` |
| `Volunteering` | opportunities, applications and participations under an advisory lock | |
| `Affiliations` | affiliation requests and the affiliates they make | `SerializableTx` |
| `Enrolment` | requests for an account, community accounts, activation and verification links | `SerializableTx` |
| `Accounts` | users and roles, sessions, access tokens, password resets | `SerializableTx` |
| `MC...` | the small instances TLC checks | the module named |
| `ReservationsProofs` | theorems about `Reservations` and its refinement | `ReservationRefinement` |
| `AssembliesProofs` | theorems about `Assemblies` and `AbsenceJustifications` | `AbsenceJustifications` |
| `DonationsProofs`, `InventoryStockProofs`, `AffiliationsProofs`, `EnrolmentProofs`, `AccountsProofs`, `VolunteeringProofs` | theorems about the module named | that module |

Definitions called "Mutant" restate one rule with a plausible bug; each
property of a passing run is violated when one of them takes the rule's place.

### How a transaction is modelled

A handler is a value of `tx`: idle, waiting (its request has arrived), or open.
`Begin` is everything a transaction reads and checks, `Commit<Op>` everything
it writes; any steps of other handlers come between. For a Serializable
transaction (reservations, financial, donations, affiliation requests, community accounts
and the administrators) that is exact: it reads one snapshot and its writes appear at once.
PostgreSQL refuses some of them: each commit dooms the open transactions that
conflict with it, by `SerializableTx!Conflict` on their footprints. The
footprint of a reservation's operation is the rows it reads and updates and
the hours of the resource its blocking query covers or its writes fall in. A
doomed transaction can only fail, and `SerializationFailure` retries it on a
new snapshot until the attempts are used up. Only first-updater-wins and
cycles of two antidependencies are refused, fewer than PostgreSQL refuses, and
any open transaction may also fail without cause: the model has every
behaviour the database has. `Lose` is the death of the process or connection.

A Read Committed transaction (`update` of donations, all of inventory) is its
reads and then its writes on whatever the rows have become. The writes are one
step because the first of them locks the row (the donation, the item) that
every rival also writes before it commits. `setActive` of an item runs outside
any transaction, so its read, its count of loans and its update are three
steps. Nearly every handler of assemblies and justifications works in that way:
`Begin...` is its first read, `Count...`, `Find...`, `See...` the ones after it,
one step each, and a write goes by id. `deleteMany` and `createMany` are two
statements with a snapshot each, so a replacement has a step (`DeleteMany`)
that fixes the rows it deletes. A handler keeps in `seen` the rows whose ids
it holds; a row leaves it when it is deleted, even if another row takes its
key, which is what the foreign keys and the claim by id go by. The one
Serializable handler there, `remove`, is doomed by any commit after its
snapshot. Guards inside an `updateMany` are guards of the commit; a `CHECK`
constraint that refuses a row rolls the transaction back.

`Affiliations`, `Enrolment` and `Accounts` mix both kinds. A Serializable
handler is *open* from its reads to its commit; a Read Committed one that reads
before it writes is *read* in between, and its commit tests only what its
`updateMany` tests. Statements at Read Committed take no part in PostgreSQL's
detection of cycles, so their footprint (`RowOnly`) is the row they write: only
first-updater-wins can doom a Serializable rival. Where a transaction's first
write locks the row every rival also writes (login, the resets, the claim of a
link), the whole transaction is one step.

In `Volunteering` every transaction is Read Committed but takes the advisory
lock of its opportunity first. `Acquire` is the lock, `Check` the reads and the
checks, and the commit the writes, three steps; the lock is freed when the
transaction ends, however it ends. `create` and `update` of an opportunity take
no lock and may come at any time, also between a check and its write.

### Correspondence

| code | `Reservations` |
|---|---|
| an HTTP request reaching the service | `Submit` |
| reads and checks of create, approve, reject, cancel, recordPayment | `CreateAllowed` ... `PayAllowed`, taken by `Begin` or `Refuse` |
| what they carry in local variables | `WorkOf` |
| their writes | `CommitCreate` ... `CommitPay` |
| P2034, the loop of three attempts | `SerializationFailure` |
| createMovement | `CreateMovement` |
| the seed's update loop | `Seed` |

Time is an hour counter; a slot is a pair of hours. `amount` stands for a
price in CRC, 0 for a null price. Ids are drawn from finite sets and never
reused. Requesters, texts, dates of approval, notifications written in the
same transaction, and listings are left out: no property tells them apart.

`Donations`: `amount` stands for both fields a donation shares with its
movement (amount and receivedAt). Deleted ids are never reused, as with an
autoincrement column. `InventoryStock`: a request refused on its first reads
changes nothing, so it has no action; the condition of an item and the dates
of a loan are left out. In `Assemblies` a later refusal, a constraint that
fails and a lost process are one action, `Fail`: the caller gets an error and
nothing is written. Each of its two counts in `complete`, and each of the
reads a justification sends at once, is answered at a moment of its own.
`lockConvocations` has no route and no caller, so it is not an action. Titles,
dates, times of rounds and the role snapshots of convocations are left out;
every affiliate of the model is active. `AbsenceJustifications` runs the
handlers of `Assemblies` and its own in one next-state relation; a deletion of
attendance cascades to justifications in the same step.

`Volunteering`: a contact is the set of e-mail and phone an applicant gives,
and two contacts that meet are duplicates. `Affiliations`: the resolver of
persons is a choice of the handler's outcome, it finds the person or refuses.
`Enrolment`: the two kinds of account are those of the code; `STAFF` is every
role but the community's. `sentTo` and `from` are history: where a link was
mailed and which request it came of. The three resends of an hour are the links
the model has. `Accounts`: `issued` is the set of access tokens ever signed,
with the refresh token each was exchanged for; a token is never taken from it.
`MEMBER` is every role but the administrator's, and `Join` stands for all that
`Enrolment` does to bring an account to ACTIVE. `barred` and `ended` tell apart
the two reasons a session is revoked for; the row has one column.

## Runs

| run | asks | bounds |
|---|---|---|
| `races` | all safety properties of `Reservations`, and that `ReservationBook` is implemented, under every interleaving of two handlers | 1 resource, ranges that overlap and one too long, 2 reservations, a FIXED, a FREE and an INACTIVE tariff, 2 payments, 2 movements, 2 attempts, a clock of one hour |
| `donation_races` | safety of donations, and that everyone is answered | 3 handlers, 1 donation, 3 movements, 2 amounts, 2 attempts |
| `donation_edited` | can a cancelled donation be edited? | violated |
| `stock_races` | safety of the inventory | 2 handlers, 1 item, 2 loans, 4 movements |
| `loan_twice` | can a loan be returned twice? | violated |
| `assembly_frozen` | does the freeze survive two handlers? | violated |
| `justification_races` | what the constraints, the Serializable removal and the guarded claim keep of assemblies, attendance and justifications | 2 handlers of each kind, 1 affiliate, 1 round, quorums 1 and 101 |
| `justified_present` | are only absences justified? | violated |
| `volunteering_races` | do seats, contacts, participations and the reception of applications agree while capacity and deadline are edited? | 2 handlers, 1 opportunity of one seat or unlimited, 2 applications, 2 persons, one of them registered, a clock of two hours |
| `accounts_races` | does any session, access token or reset token outlive what revokes it, and does an administrator remain? | 2 handlers, 2 users, 1 session, 2 reset tokens, 1 generation, 2 rotations, 2 attempts |
| `enrolment_races` | do requests, accounts and links agree, and is a link good only at its address? | 2 handlers, 2 users, 2 requests, 3 links, 2 addresses, 2 identities, a limit of 2 |
| `affiliation_races` | does a person have one standing, and an affiliate one approved request? | 3 handlers, 2 persons, 3 requests, 2 addresses, 2 attempts |

Why the bounds are enough: every property relates at most two reservations,
payments, applications, users or handlers, and a conflict is between two
transactions; two attempts have a first, a retry and a refusal. Donations and
affiliations need a third handler because an update can disturb a decision that
races with another. Quorum 101 is one over the largest percentage. The
assembly's properties relate one affiliate's rows, so `justification_races` has
one. Two users are the least for which one administrator can act on another,
and for two to remove each other. One session shows every race on a session,
since sessions meet only in their user; two rotations let a refresh token be
presented after its successor exists. A generation of 1 lets a user be barred
and come back. Three links are one more than the limit of resends, and one
movement more than the story needs lets a wrong extra one appear. The symmetry
sets only permute handlers and ids, which no definition tells apart, and are
used in no run with a liveness property.

Fairness: `donation_races` assumes, in `FairSpec`, weak fairness of each
handler's own progress (begin, refuse, fail or commit). The Node event loop
resumes every promise and the database answers or fails every statement, so an
enabled step of a handler is taken eventually; nothing is assumed of arrivals
or losses. The property is about the retry loop: even when every attempt
fails, the attempts end. The other retry loops have the same shape.

### Findings

1. `donation_edited`: `update` of a donation checks the status, waits, and
   writes by id. If a cancellation commits in between, the donation and its
   original movement change although the reversal has the old amount
   (docs/modules/donations.md:50 says it cannot be edited).
2. `loan_twice`: `return` and `cancel` of a loan close it by id alone. Two
   concurrent returns both add the quantity to the stock
   (inventory-loans.service.spec.ts:260 says a loan is not returned twice). A
   return racing a cancellation is refused, but only by the database's CHECK
   on the evidence of the status (`StatusHasEvidence`).
3. `assembly_frozen`: rounds and convocations validated before the start are
   replaced after it, and the attendance of the convocations goes with them
   (assembly-calls/spec.md:28).
4. `justified_present`: attendance validated while the assembly was in progress
   is written after its completion, under a justification
   (integrity-rules.md:88, ASM-R10).

`assembly_frozen` stands for its kind: start, update, complete and the
replacements all decide on a read made before their transaction and write by
id. An item deactivated while a loan of it is being created (`CountLoans`
before `CommitLoan`, `CommitSetActive` after) is another. `approve` accepts
FREE resources and opens no charge for them, where docs/modules/reservations.md:168
says only FIXED tariffs with a positive price are approved; the model does what
the code does.

## Proofs

The theorems hold for every value of the constants. TLC checks the same
properties on small instances, and most of the invariants the proofs need were
tried there first. Every safety property of the runs that must pass, invariant
or action, is a theorem.

`ReservationsProofs` holds for every finite or infinite set of
handlers, resources, reservations, payments and slots. They assume what the
modules state: `MaxAttempts` is positive, slots are pairs of naturals, typed
amounts are positive, tariffs have their shape, the lengths allowed are at
least one hour, and the null differs from every row.

The properties of the rows are not inductive: nothing in
`NoDoubleBooking` says that the transaction about to commit looked at a slot
that is still free. The inductive invariant is

    IInv == TypeOK /\ RowsOK /\ UndoomedIsCurrent

where `RowsOK` is the four properties of the rows and `UndoomedIsCurrent` says
that an open transaction nothing has doomed would make the same decision now.
A commit preserves `RowsOK` because its
decision is current. It preserves `UndoomedIsCurrent` because a commit that
would make another's decision stale conflicts with it and dooms it:
`CreatesConflict` (two bookings overlap exactly when they share an hour,
`OverlapIsAnHour`: back-to-back bookings never exclude each other),
`DecisionsConflict` and `ChargeWritersConflict`. Everything else writes no row.
From `Spec => []IInv` follow the theorems `TypeCorrect`, `SlotsAreExclusive`,
`ChargesFollow`, `SettledOnce`, `LedgerAgrees`, `DecisionsAreCurrent`, and the
action properties `PolicyIsFollowed` and `ChargesStay`. `BookIsImplemented`
shows that the initial state maps to an empty book and every step to a step of
the book or to a stutter: a create is a Hold, a priced approval a Bill, a
payment a Settle, a rejection or cancellation a Release.

`AssembliesProofs` holds for any number of handlers, reviewers, affiliates and rounds. They assume that the affiliates are finitely
many, that quorum values are positive and that the null is no row and no
status. `RowsHaveParents` needs one fact about handlers, `FoundAreConvoked`:
the convocations a handler still holds are there. A commit that deletes some
takes them from every handler (that is the foreign key), so an upsert that
passes has its parents. `HistoryIsKept` needs `SnapshotsAreCurrent`: a removal
nobody has doomed sees what its snapshot saw, so the count it made of the
history is still zero. `JustifiedAreRecorded` follows in the same way from
`FoundIsRecorded`, and `DecisionIsFinal` from the guard of the claim.
`AssemblyIsUndisturbed` shows that adding the justifications changes no
behaviour of the assembly.

`DonationsProofs`: an edit is not Serializable, so a decision current when it
was made may be overtaken by one. `AmountsAgree` is inductive only with
`WorkIsLinked` (what a handler has read keeps its original movement, even when
the donation is removed), `UndoomedAreCurrent` for cancellations and removals
(an edit writes the row and dooms them) and `ReversalsPosted`.
`CancellationStays` needs that a row once cancelled is only deleted.

`InventoryStockProofs`: the database here refuses nothing but a negative stock
and a status without its evidence, so the invariant says little of handlers:
`WorkIsGrounded`, that the item and the loan a handler works on exist. The
rest is in the rows. `StockIsExplained` is about a sum over the movements of an
item, and the sum is a fold, which no prover here can reason about by
induction. The lemmas go round it: `Additive(F, f, M)` says that F is a sum of
f over every subset of M; were there a finite family without one, there would
be a smallest (`MinimalSubset`, from the well-foundedness of strict inclusion),
and `AdditiveExtends` gives it one. `TotalIs` identifies the fold with F, by a
smallest set on which they differ; `TotalKept` and `TotalGrows` are what the
steps need: a posted movement adds its delta to the sum of its item and leaves
the others. The movements may be infinitely many; `FinitelyPosted` says that
only finitely many are there. The theorem is then that what each commit adds to
the stock is what it posts, and that the guarded adjustment, which writes an
absolute value, is applied only to the stock it was computed from.
`EvidenceAgrees` rests on the CHECK constraint.

`AffiliationsProofs`: `UndoomedAreCurrent` again, but weaker than what the
approval checked: an update of an affiliate is at Read Committed and may take
the e-mail an open approval found free, and then the unique index refuses the
approval. What it cannot take is the request or the person's place.

`EnrolmentProofs`: a link that expired after a handler checked it may still be
claimed, so `LiveTokenFollowsEmail` is inductive only for the expired links
too (`UnusedFollowEmail`), with `OneLiveLink` and the unique index on the
address (`OneAccountPerEmail`). A correction uses up every link it counts on,
also the expired ones; a resend only the live ones, which is enough because
the address has stayed. What handlers know is little: `ReaderKnows` that the
link to be claimed is there and that an account still INACTIVE has the address
it was read with (so a reverification mails its link to the right one), and
`ResenderKnows` that the account of an open resend has the address and the
number of links that were read. A rival that issues a link to that account, or
moves its address, read and wrote the predicate of its links, as the resend
did, and dooms it (`ResendMissed`). `OwnAddressVerifies` follows from
`UnusedFollowEmail` at the claim, `ResendsStayLimited` from `ResenderKnows`,
and `RequestsAndAccountsAgree` from the guard of the claim of a request.

`VolunteeringProofs`: no snapshot is taken and nobody is doomed; the advisory
lock does the work. `LockHeld` says a handler past `Acquire` holds the lock of
its opportunity, and `WritersStand` that what it found still stands: room among
the seats it saw (though the capacity may have been edited since), no
duplicate, an opportunity still published. Every step that could disturb this
is behind the same lock.

`AccountsProofs`: `Sound` is what each handler may count on between its reads
and its writes, and `IssuedSound` orders every token ever signed: its
generation is at most its user's, and behind it once its session is barred; the
refresh token it came of is behind the session's. From these follow
`BarredStayOut`, whenever the token was signed, and `RotationIsOne`.
`UserWrite` is the heart of `AdministratorRemains`: a write that takes an
administrator away reads and writes the predicate of the administrators, and so
conflicts with any other that counted on that one; any other write leaves the
counts of its rivals standing. The same argument gives `FirstIsOne`. It assumes
no bound on administrators, handlers or generations.

Only model-checked: liveness (`EveryRequestIsAnswered`; fairness and ENABLED
are outside the prover).

## Not modelled, and the plan

Reads for reports and listings, formatting and validation of input, e-mail,
file storage, rendering, the frontend and the deployment are outside: they
decide nothing that lasts. Left out inside what is modelled:

- Routes that still ask for the role name `Administrador`: the guard compares
  canonical codes, so at this commit nobody passes it. Sanctions and
  `AffiliatesService.setStatus` are behind them. `RegisterUserUseCase` has no
  route.
- The lockout after failed logins, subscriptions and the age of sessions: each
  only refuses more.
- The institutional board: `updateTerm` reads the appointments of a term, and
  `createAppointment` the term, both at Read Committed with no row in common, so
  the two may leave an appointment outside its term; two replacements of one
  appointment both find it open and both write a successor. Its rows meet those
  of no other component.
- Longer cycles of antidependencies than two, and PostgreSQL's false positives:
  see `SerializableTx`, which errs on the side of more behaviours.

The plan, in order of what the races can break:

1. `InstitutionalBoard`: terms and appointments, as above.
2. The evidence file of a justification, written before its row and removed on
   error, with failures between.
3. `TreasuryReport`: the totals of a batch of Read Committed queries over the
   ledger of `Reservations` and `Donations`; the audit after the commit.
4. The composition of `Enrolment` and `Accounts` over one `User` table, in
   place of `Join`, with the theorems of both carried over.
