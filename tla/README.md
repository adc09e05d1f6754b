# A TLA+ model of the SaaS backend

The repository is a NestJS backend for a multi-tenant SaaS product: organisations
(tenants) register, invite users, pay through Stripe, organise work in workspaces, upload
files, and receive notifications. State lives in MongoDB and in the services it calls
(Stripe, Cloudinary, an LLM provider, SMTP). There is no lock in the application: every
`await` of a request is a point where other requests, webhooks and cron jobs run, and a
process may die at any of them. That is what the models are about.

Paths below are relative to `src/` of the repository checkout, e.g.
`src/billing/services/stripe-webhook.service.ts`.

## 1. Inventory

| Component | State it keeps | Operations | What is hard about it |
|---|---|---|---|
| Stripe webhook (`billing/services/stripe-webhook.service.ts`) | `stripe_webhook_events` (unique event id) | `handleRawEvent`: claim, dispatch, five handlers | at-least-once, unordered delivery; claim before work; errors swallowed; concurrent handlers |
| Tenant billing (`tenant-billing.service.ts`) | `subscriptions`, one row per tenant | checkout, confirm, cancel, lazy backfill, portal, refund | read, call Stripe, write back, with webhooks in between |
| Entitlements (`subscription-entitlements.service.ts`) | none, reads the row | limits on workspaces, users, files, storage; chatbot access | count-then-insert without a lock |
| Plan administration (`subscription-plan-admin.service.ts`) | `subscription_plans`, Stripe products and prices | create, update, archive | two systems, no transaction |
| Auth sessions (`auth/auth.service.ts`) | `refresh_tokens` (TTL), users | login, refresh (rotation), logout, revoke all | rotation races, lost session after a partial failure |
| Second factor (`auth/mfa/*`) | `mfa_challenges`, `user_mfa` | challenge, attempts, consume, enrol, backup codes | attempt cap and single use under concurrency |
| Registration (`auth/auth.service.ts`) | tenants, users | transaction, fallback, compensation, verify email | partial failure of the compensation |
| Tenant users (`tenant-user/*`) | users, `tenant_user_invites` (TTL) | invite, re-invite, accept, delete | quota race, accept against re-invite, fallback writes |
| Workspaces and tasks (`workspace/*`) | workspaces, tasks | create, update, complete, delete | checks outside the transaction |
| Files (`file/*`) | `file_assets`, Cloudinary | sign, register, finalize, delete, cleanup cron | two stores, rollback of one of them, expiry racing use |
| Notifications and realtime (`notification/*`, `workspace/realtime`) | `notifications`, socket rooms | store, publish, mark read | audience rules, store then publish |
| Tenants and platform (`tenant/*`, `platform/*`) | tenants | update, soft delete, TTL purge | what a deleted tenant's users may still do |
| Chatbot (`chatbot/*`) | sessions, messages | send, delete | message stored before the model answers |
| Guards (`auth/guards/*`) | none | check a signed token | the token outlives its user, its tenant and a change of role |
| Email, common, bootstrap, scripts | none | wiring, HTML, configuration | not modelled: no state of its own |

Interactions. Billing publishes domain events (`emitAsync`) that notification and email
listeners handle in the publisher's request. Tenant users, workspaces, files and the
chatbot ask the entitlements, which read the row the billing services write. Files take
part in the transactions of tasks. Registration, invites and platform administration write
the same `users` and `tenants` the auth service reads.

What makes each component correct:

* billing: a row never points at another tenant's customer or subscription; it never shows
  a state the subscription was not in; its plan key is a name of the plan it pays for; an event is handled once at most and, without
  faults, once at least; entitlement follows payment;
* entitlements: usage never exceeds the highest limit there was by as much as the number of
  concurrent writers;
* sessions: a refresh token yields one successor (it may yield two, section 4); the session of
  a deleted user or tenant does not go on;
* second factor: no more guesses than the cap; a challenge, a time step and a backup code
  finish one login each;
* registration: an organisation and its first user exist both or neither, unless a crash cut
  the request short, and never the user without the organisation;
* invites: an invitation activates an account of the organisation that issued it, and is refused
  to whoever comes later (it may be used again without transactions, section 4);
* tenants and plans: what is deleted or archived stays so, although others had read it before;
* tasks: a completed task stays completed; a deleted workspace leaves no more tasks behind than
  there were creations under way; whoever gets a task is notified, and every list that shows
  a change is told;
* files: a final asset has its file, a failed finalization gives the names back, and a task
  lists only what was finalized for it;
* notifications and sockets: whoever is pushed a notification finds it in a list; a socket
  hears one board;
* chatbot: the model is asked with the question in the prompt.

## 2. Plan

1. **Billing** (done): `SubscriptionStore`, `PlanNames`, `StripePlatform`, `StripeWebhook`,
   `TenantBilling`, composed by `BillingSystem`; abstract specification `EventOwnership`;
   proofs in `BillingProofs`.
2. **Authentication** (done): `UserMfaStore`, `AuthRequests`, `MfaChallenges`,
   `AuthSessions`, `MfaSettings`, composed by `AuthSystem`; proofs in `AuthProofs`.
3. **Organisations** (done): `Entitlements` with its abstract specification `Quota`;
   `TenancyStore`, `Registration`, `TenantUsers`, `TenantDirectory`, `PlanCatalog`, composed
   by `TenancySystem`; proofs in `QuotaProofs`.
4. **Work** (done): `WorkStore`, `FileAssets`, `WorkspaceTasks`, `BoardSockets`,
   `Notifications`, `Chatbot`, composed by `WorkSystem`, again with `Entitlements` and `Quota`.
5. **Theorems** (done for every safety property of the runs that pass): on top of the
   proofs above, `TenancyProofs` and `SeatProofs` for organisations, `RowProofs` for the rows and
   the publications of billing, `WorkProofs` and `TaskProofs` for work.
6. Beyond this plan: the reads and the analytics of section 7, should they ever write.

## 3. Modules

| Module | Models | How |
|---|---|---|
| `SubscriptionStore` | `subscription.repository.ts`, the row | one pure operator per atomic MongoDB write; `None` is an undefined field; dates are reduced to which of them are known |
| `PlanNames` | `subscription-plan.repository.ts`, the look-up by price; the renames of `subscription-plan-admin.service.ts` | the name each plan has now, which rows copy when they are written, and the names it has had |
| `StripePlatform` | Stripe (external) | customers with their tenant metadata, Checkout sessions, subscriptions, and the log of emitted events with the snapshot each carries |
| `StripeWebhook` | `stripe-webhook.service.ts`, `stripe-webhook-event.repository.ts` | several `Workers`; `hook[w].pc` names the next await; `Deliver` may pick any event again and again |
| `TenantBilling` | `tenant-billing.service.ts` | several `Requests`; `req[r].pc` names the next await, the other fields are the locals kept across it |
| `BillingSystem` | the composition, and its properties | `Next` is a step of Stripe, of a handler or of a request, or the rename of a plan |
| `EventOwnership` | abstract: what the event ledger promises | handlers own each event at most once |
| `MCBilling` | TLC instance | constants and symmetry |
| `BillingProofs`, `RowProofs` | proofs | see section 6 |
| `UserMfaStore` | `user-mfa.repository.ts`, the row; the match rule of `totp.service.ts` | one pure operator per MongoDB update, and one for the filter of each conditional update |
| `AuthRequests` | what all authentication requests share | the collections, `req[r].pc` (the next await) and the locals kept across it |
| `MfaChallenges` | `mfa-challenge.service.ts`, `mfa-verification.service.ts` | issue, load, compare, claim, count a failure, consume, clear |
| `AuthSessions` | `auth.service.ts` | login, requestLoginCode, issueTokenPair, refresh, logout, revocation |
| `MfaSettings` | `mfa.service.ts`, `resetMfaForUser` | enrol, enable, disable, regenerate, reset, preferences |
| `AuthSystem` | the composition with time, TTL indexes, deletions and crashes, and its properties | `Next` is an arrival, a step or a crash of a request, or a step of the environment |
| `MCAuth` | TLC instance | constants and symmetry |
| `AuthProofs` | proofs | see section 6 |
| `Entitlements` | `subscription-entitlements.service.ts` | the limits and the assistant that a subscription row and its plan row give, and the comparison with a count |
| `Quota` | abstract: what a limit promises | count, take, give up, release, raise; nothing holds a place between count and take |
| `QuotaProofs` | proofs | see section 6 |
| `TenancyStore` | the repositories of tenants, users and invitations | one operator per query or update; collections are sequences of everything ever created |
| `Registration` | `register`, `verifyEmail` of `auth.service.ts` | one step per await, in both deployments |
| `TenantUsers` | `tenant-user.service.ts` | invite, accept, delete, update |
| `TenantDirectory` | `tenant.service.ts`, `platform.service.ts` | update, soft delete, purge |
| `PlanCatalog` | `subscription-plan-admin.service.ts` | a plan is its product, its price and its row |
| `TenancySystem` | the composition with subscriptions, expiry, TTL and crashes, and its properties | `Next` is an arrival, a step or a crash of a request, or a step of the environment |
| `MCTenancy` | TLC instances | scenarios |
| `TenancyProofs`, `SeatProofs` | proofs | see section 6 |
| `WorkStore` | the collections and rooms of one tenant, requests and transactions | `req[r].pc` names the next await |
| `FileAssets` | `file.service.ts`, `file-asset.repository.ts`, Cloudinary | a file asset is a row and a place at Cloudinary |
| `WorkspaceTasks` | `workspace.service.ts`, `task.repository.ts` | a task is a draft until its transaction commits |
| `BoardSockets` | the two websocket gateways | the rooms of every socket |
| `Notifications` | `notification.service.ts`, its publisher and listeners | a row and the users it was pushed to |
| `Chatbot` | `chatbot.service.ts`, `llm-router.service.ts` | sessions, messages, providers tried in turn |
| `WorkSystem` | the composition with changing subscriptions, expiry and crashes, and its properties | as `TenancySystem`, and what happens in one step (sockets, read marks, creations) |
| `MCWork` | TLC instances | scenarios |
| `WorkProofs`, `TaskProofs` | proofs | see section 6 |

Correspondence in the webhook: `ClaimOwned`/`ClaimRefused` are `claimEvent` (its `catch`
returns false for a duplicate and for a database error alike); `ResolveTenant` is
`resolveTenantIdFromCustomer`; `FindExisting` the fallback to the row; `LookupPlan` the look-up
of the plan by price, whose name becomes the row's `planKey`; `WriteUpsert` and
`WriteCanceled` the writes with the early return for a missing period end; `Publish`
the `emitAsync`, whose listeners run before the answer. `HandlerFails` is the `catch`
of `handleRawEvent`, which still answers 200; `Crash` is the process dying.

A plan may be renamed at any moment (`RenamePlan`, the update of the administrator), and no
row is touched: `plan` of a row is the name that was read before the write, so it may lag
behind the catalog. `ConfirmLookup` and `BackfillLookup` are the same look-up in two of the requests;
`cancelSubscription` makes none and writes the key back that it read from the row.

In the requests: `Checkout*` is `createCheckoutSession`, `Confirm*` is
`confirmCheckoutSession`, `Cancel*` is `cancelSubscription` in both forms and
`Backfill*` is what `getTenantSubscription` does when the row lacks dates or a price.
`RequestEnds` is any call that throws, or Stripe saying no.

In authentication, `verifyMfaChallenge` is `LoadChallenge` (with the refusals of `load`),
`CheckUser`, `ReadSecrets`, one of the two claiming updates (`tryConsumeTotpStep`,
`markBackupCodeUsed`), `ConsumeChallenge`, then `issueTokenPair` as `AssertTenantActive` and
`CreateToken`, and `ClearChallenges`; a wrong code goes to `RecordFailedAttempt` and, when
the budget is spent, `DropChallenge`. `refresh` is `Refresh` (the token is found),
`RefreshReadUser`, `RotateToken`, `AssertTenantActive`, `CreateToken`. `disableTotp` is
`ChangeProtected`, `CheckPassword`, `ReadSecrets`, the claim, `WriteDisabled`,
`ClearChallenges`, `RevokeTokens`; `resetMfaForUser` enters at `WriteDisabled`. A request that
is refused without a write takes no step.

Challenges and tokens are sequences of everything ever created; `stored` says whether MongoDB
still has the document. Secrets, activation times and recovery codes are serial numbers; a
set of ten recovery codes is a set of one, since the codes of a set differ in nothing.
`redeemed` is a history variable, and so is `late` of a token.

In organisations, `register` is `Register`, then `RegisterInTransaction` or `CreateTenant`,
`CreateFounder` (or `DropTenant`), then `SendVerification` and, when the mail fails,
`UndoRegistration` and `UndoTenant`. `inviteUser` is `InviteUser` (the address is looked up),
`InviteReadTenant`, `InviteCount`, `ReadSubscription`, `AssertWithinUserLimit`, then
`InviteInTransaction` or `InviteWriteUser`, `UpsertInvite` (or `UndoInvitee`), then `SendInvite`.
`acceptInvite` is `AcceptInvite`, `AcceptFindAccount`, `Activate` and, without transactions,
`DropInvite`. `transactions` tells once and for all whether MongoDB is a replica set: every
service tries a transaction and falls back when there are none.

In work, `createTask` is `CreateTask`, `DraftTask` (the transaction starts), the steps of
`finalizeTemporaryAssets` (`Sweep` and its loop, `FindTemporaryAssets`, `RenameAsset` and
`FinalizeRow` per asset, `Rollback` when one fails), `CommitCreate`, `NotifyAssignee`, `Publish`.
`updateTask` is the same between `UpdateTask`, `ReadTask` and `CommitUpdate`. Outside a
transaction (`FinalizeAsset`, `UploadViaApi`) the row is written at once (`FinalizeAlone`).
A transaction sees the tasks and rows of its start (`found`) and aborts when another commit
wrote a task it has read (`stale`) or a row it would write (`LockedFile`). The history
variables say what a failure, which the code answers or logs, leaves behind: `stray` (a file
where its row does not say), `untold` (an assignee whose notification was not stored),
`silenced` (a list nobody told). The properties except exactly those, so that what they say
of the rest is not weakened by the failures beside it.

The scenarios of `MCTenancy` and `MCWork` are the initial choice of a behaviour: which
operations clients call, which faults happen, what exists at first, and the bounds. One run
covers them all, and the state graph of each stays small enough for two requests to
interleave at every await.

Assumptions of the authentication model: passwords and token secrets are right (a wrong one
is refused without a write), users are active, verified and on the portal of their role, and
an access token stays good until it expires, even when its user is deleted.

Abstractions in organisations and work. Names, titles, texts and amounts are left out; a plan
has one limit that differs (users) in `MCTenancy` and all four in `MCWork`; addresses and users
are numbers, so that the initial admin has a known one. The statuses of a task but
`DONE` are alike, since any may become any other. A publicId is registered once: after
finalization the client could register the temporary id again, and the model does not. Of
links that clients write themselves (`attachmentUrls`) the model keeps none. Every file has a
megabyte. The ceilings of seats and workspaces, which remember the highest limit there was, start
no lower than the free plan's. Socket.IO's in-memory adapter joins and leaves without waiting, so the moves
between rooms after a look-up are one step; a Redis adapter would split it. Storing a notification
and pushing it are one step, because nothing is awaited in between. `uploader.destroy` and the
other external calls either happen, or fail without effect, except that a rename may
happen and its answer be lost.

Abstractions in billing. Trialing counts as active, unpaid and incomplete as past due: no code
modelled here treats them differently, except that the listing ranks incomplete below
past due. A plan keeps its price (the plan service refuses to change pricing, and no plan
row is ever removed), so a price is of the catalog or not for good; a price outside it stands for one
whose plan was never stored, and its id is the plan key. In the code a plan may take a name
again that it had before, or one that another plan has; the model lets it take each name
once, and plans share names freely. Dates are "known" or "unknown", which is
what the code branches on. Signature checks, logging and response bodies are left out.
Stripe customer ids are never reused. One event per change of a subscription: several
events for one change would only add deliveries.

## 4. Runs

| Run | Bounds | Question |
|---|---|---|
| `billing_requests` | 2 tenants, 2 customers, 2 subscriptions, 1 plan, 2 events, 1 handler, 1 request, faults, no order | Does the tenant's row stay the tenant's, show a status its subscription has had, and entitle only who paid, when anything interleaves with a request? |
| `billing_concurrent` | 1 tenant, 2 customers, 1 subscription, 2 events, 1 handler, 2 requests, no faults, no order | The same of the status, when two requests of the tenant race each other |
| `billing_delivery` | 1 tenant, 1 subscription, 2 prices (one of a plan, with 2 names), 2 events, 2 handlers, 1 request, faults, no order | Does the ledger give each event to one handler at most, and is a row's plan key a name of the plan of its price, while the plan is renamed and the subscription changes its price? |
| `billing_ordered` | 1 tenant, 1 subscription, 3 events, 1 handler, no faults, in order, fair | Is entitlement equal to payment whenever everything was answered, and is every event with something to say published, and none claimed and forgotten? |
| `billing_unordered` (violation) | 1 tenant, 1 handler, 3 events, no faults | Is it still, when Stripe keeps no order? |
| `auth_challenges` | 1 user, 2 emailed-code challenges, cap 2, 2 requests, 1 token, expiry, crashes | Does a challenge buy one session, and does the cap hold, when two requests present it at once? |
| `auth_factors` | 1 user, 1 challenge, 4 serial numbers, 2 requests, 1 token | Is a TOTP step or a recovery code accepted once, although two requests compared it with the same row, or TOTP was switched off in between? |
| `auth_sessions` | 1 user of 1 tenant, 3 tokens, 2 requests, expiry, crashes, deletions | Does a session created after the deletion of its user or tenant ever continue? |
| `auth_refresh` (violation) | 1 user, 3 tokens, 2 requests | Is a refresh token good for one refresh? |
| `tenancy` | 7 scenarios, 2 requests, up to 2 tenants, 4 users, 3 addresses, 2 invitation tokens, 1 plan; with and without transactions | Do registrations, invitations, removals, deletions and plan changes keep tenants, users, invitations and plans consistent when they interleave and fail, and do seats stay near their limit? |
| `tenancy_repeat` (violation) | 1 tenant, 1 request, 2 passwords, no transactions | Does accepting an invitation a second time do nothing? |
| `work` | 11 scenarios, 2 requests, 3 users with a socket each (admin, member, operator), up to 2 workspaces (4 in *Founding*), 2 tasks, 2 files, 3 notifications, 1 chat of 4 messages | Do rows and files, tasks and workspaces, assignments and notifications, changes and signals, questions and prompts agree, and do workspaces stay near their limit? |

The scenarios of `tenancy`: *Registering* (two registrations race for one address, the mail fails,
requests crash), *Inviting* (invitation, acceptance and removal of the same user), *Promoting* (roles
change, links expire), *Poaching* (two organisations invite one address), *Closing* (an
organisation is deleted while its admin and an operator update it), *Publishing* (two
requests create, rename and archive a plan), *Upgrading* (the limit rises and falls while
seats are taken). Those of `work`: *Attaching* (two updates finalize overlapping sets of files
for two tasks), *Detaching* (deletion against finalization), *Expiring* (the cleanup against
both), *Uploading*, *Assigning* (creation, reassignment and deletion with failing
notifications), *Completing* (a task is completed while others update or delete it),
*Clearing* (a workspace goes while tasks are created in it), *Founding* (two creations race
for the last workspace that the plan allows, which changes meanwhile),
*Watching* (sockets change boards), *Telling* (who is pushed and who lists what), *Chatting*.

In *Founding* both creations count one workspace below the limit of two and both insert, so that
the tenant has three: the overshoot that `WorkspaceQuota` allows and bounds is reached.

An access token says `admin` until it expires, whatever becomes of its owner. `admins` remembers
who was ever in a state in which a sign-in or a refresh signs such a token (`SignedAsAdmin`),
and whoever is remembered may act (`MayAct`), demoted, inactive or deleted as he may be by
then; in *Promoting* an admin whom the other one demoted goes on inviting. That a
token expires after a quarter of an hour is not modelled: nobody loses one.

Bounds of organisations and work. Every race here is between two requests on one document or one
file, as in authentication; the two that could need more are the quotas, whose bound is
proved for any number, and `StrandedTasks`, which is stated in terms of the number of requests. Two files
are the fewest of which the second can fail when the first was renamed; two tasks the fewest
that can compete for a file. `HistoryCap` is 2, so that four messages overfill a prompt, and
two providers are one that fails and one that answers. `CHECK_DEADLOCK FALSE`: the model stops
when the bounds on everything ever created are used up; the server would not. No fairness is
assumed: all properties of these runs are about safety. Requests are interchangeable.

`RepeatAcceptIsNoOp` fails (finding): the compensating path of `acceptInvite` does not look at
whether the user is active, so the link of an invitation that could not be deleted sets
the password again.

Differences between text and code that have no run of their own: "Completed tasks cannot be
deleted" (`workspace.service.ts:486`) is decided on a read that an update may follow, so
a task completed in between is deleted; the comments at `notification.schema.ts:12` and
`notification.repository.ts:12` say that admins list the rows of one user too, while
`findRecentForAudience` shows them only the rows that name nobody, so that an admin who is
addressed is pushed a notification that its list lacks (the exception in `PushMatchesList`).
`deleteSession` removes the messages before it looks at whose session it is.
`deleteAsset` ("Delete Cloudinary asset and metadata", `file.controller.ts:150`) and the
cleanup take `not found` for success: when a finalize of two files has renamed the one they
destroy and then rolls its names back, the row goes and the file stays.

Bounds of billing. `MaxEvents` caps the log: two events per subscription are the fewest that can
be reordered, three let a subscription be created, change and change back or end. Two
tenants and two customers are the fewest that can be confused; a third only repeats one of
them. In `billing_requests` Stripe reports no period dates, so that every row needs the
backfill, and customers may be deleted, so that the fallback to the row is used. There is one
price in it, and in `billing_concurrent` too, where nothing fails and no customer is deleted, to keep
the product of two requests small: faults are in `billing_requests`, prices and names in
`billing_delivery`. Two names are the fewest a plan can change between.

Symmetry is used in the runs without liveness: no definition tells two tenants,
customers, subscriptions, handlers, requests or plan names apart, except `CHOOSE` in
`findByStripeSubscriptionId`, whose set has one element at most by `TenantIsolation`.

Fairness (`billing_ordered`). `HookStep` is weakly fair: a Node process resumes what it
awaits. Redelivery of each unacknowledged event is strongly fair: Stripe retries until it
gets a 2xx, but a handler may be busy at any given moment. Nothing a user or
Stripe's customers do is fair, and no request is.

Bounds of authentication. Every check-then-act race in this code is between two requests on
one document, and users share nothing but the supply of serial numbers, so two requests and one
user exercise them; that more change nothing is what the proofs show. Two challenges are the
fewest of which one can be a decoy, or be cleared by the completion of the other. A cap of two
lets one failure pass and a second spend the budget. Four serial numbers pay for an enrolment
(secret), an activation (codes), a regeneration and one more of either. `MaxStep` is
2 where time matters (`auth_challenges`); in the other runs both steps 1 and 2 match
at time 1 already, because a code may be one step early. Three tokens are a session, its
successor and a second successor. `CHECK_DEADLOCK FALSE`: when the bounds on challenges,
tokens and serial numbers are used up and everything has expired, the model stops; the
server would not. The runs split the operations by question; every action fires in one of them.

`SingleUseRefresh` fails (finding): `refresh` does not look at whether its delete found the
token. Two refreshes that read it before either deletes it both get a successor.

`PaidStateReconciled` fails without order (finding): `onSubscriptionUpdated` writes
the event's snapshot unconditionally, so an older one may win. One handler is enough: it takes
the checkout, then the deletion that ended the subscription, then the change of price that came
before it, and the row is active again. (With two handlers the checkout breaks it as well:
one holds what it retrieved while the other writes a later update.) With one
subscription, one handler and in-order delivery it holds. It is also false with crashes,
because an event is claimed before it is worked on, and with two subscriptions of one
tenant, because the end of either cancels the tenant's row; the runs keep to the case
the documentation describes.

## 5. Model-checked only

`EventuallyPublished` is liveness under fairness, out of the prover's reach; its safety half,
that nothing is claimed and forgotten, is `ClaimedIsPublished`, which is proved. The three
properties that fail (`PaidStateReconciled` without order, `SingleUseRefresh`,
`RepeatAcceptIsNoOp`) are refuted by TLC; the first is proved where it holds (section 6).
Every other property of a run is also a theorem. That what the code stores in the end agrees with
what a client is told is not stated anywhere, since response bodies are left out.

The inductive invariants below were checked as invariants of the runs before they were proved.

## 6. Proofs

`BillingProofs` assumes only the named assumptions on the constants (`None` is no
other value, the choices offered to Stripe are well-typed), and proves for any number of
tenants, customers, subscriptions, events, handlers and requests:

* `IsolationInvariant`: `Spec => []IsolationInv`;
* `TypeCorrect`, `Isolation`: `TypeOK` and `TenantIsolation` follow from it;
* `OwnedOnce`: `Spec => EachEventOwnedOnce`, the refinement of `EventOwnership`;
* `StatusWasReal`, `PlanKeyIsAName` and `EntitledHavePaid` (in `RowProofs`):
  `StatusComesFromStripe`, `PlanKeyNamesPlan` and `EntitlementWasPaid`;
* `ClaimsArePublished` (in `RowProofs`): `ClaimedIsPublished`, without faults;
* `PaidStateFollows` (in `RowProofs`): `PaidStateReconciled`, with ordered delivery, without
  faults, for checkouts only and while a tenant has one subscription at most.

`TenantIsolation` speaks of rows only and is not inductive: a row is written from what
a handler or a request remembers, and that from sessions, events and Stripe. `IsolationInv`
adds what each of those remembers: a subscription that exists has a customer whose tenant is
known; a session's tenant owns its customer and its subscription; an event's
snapshot names its subscription's customer; a waiting handler or request holds only what its
tenant owns. The argument is that two facts never change once set (the tenant of a
customer, the customer of a subscription): `Stable` states it of a step, the lemmas
`*Stable` carry everything remembered across a stable step, `Frame` assembles the invariant
from what a step changes, and there is one lemma per action that shows that the step is
stable and that what it changes still belongs. `CheckoutUpdateCustomer` is the interesting
one: it writes the tenant into a customer's metadata, which is stable only because the
row it read the customer from was the tenant's.

`OwnedOnce` maps a handler to the event it works on. The mapping needs the same
invariant for one thing: a handler at work holds a real event id.

A row gets its status from an event's snapshot, from what a request retrieved some awaits
ago, or from the row itself read earlier. `RowInv` therefore says of each of them what the
property says of rows: whoever remembers a subscription's state remembers one that it was in, with a
known price; and whoever remembers a price of the catalog and a plan key remembers a name that
the plan of that price has had (`Named`). The argument is
that the past only grows, Stripe's (`History`) and the plans' (`NamesKept`): what was true of a
subscription stays in `seen`, and a name that a plan had stays in `named`, however many renames
come between the look-up, the write and the read that hands the pair on. That the key is the
plan's present name is not proved, since it is false: nobody refreshes the rows after a rename.

`EntitledHavePaid` adds to both that an active row names a subscription (`ActiveIsNamed`).
`upsertForTenant` keeps the old id when it is given none, `markCanceledByTenant` clears the id
of whichever subscription the row names, `setStripeCustomerId` sets a status on a row it inserts:
it holds because the clearing write never leaves "active" behind, and because every upsert of the
two services has an id to give. The invariant of isolation then says whose subscription it is,
and `RowInv` that it was active.

`ClaimsArePublished` is about what a handler may drop. `PublishInv` says that it drops
nothing that could be told: every event but the checkout's carries its subscription's period
(`EventDated`), so a write of a snapshot that leaves the row without a period end had none to
publish; a handler that found no tenant for a customer is right to, since that
customer is deleted and stays so (`HookInformed`). `Onward` states what the argument needs of
Stripe and of the requests: customers stay deleted, periods and customers of subscriptions stay,
events are added only. Neither order nor the number of deliveries matters. `~Faults` does:
`HandlerFails` answers 200 for work not done, and after a `Crash` the redelivery is refused as
a duplicate.

`PaidStateFollows` relates each row to a place in the event log. `FollowInv` has five parts, each
needed by the next. `QueueInv`: the log is worked off from its start, one event at a time,
and what was claimed was answered or is at work, so a written event implies that all older ones
were. `LogInv`: every subscription was announced by a checkout, the last event about it carries
its present status, and nothing follows its end. `HandHolds`: the handler of that last event
holds the present status, also when it asked Stripe for it (`CheckoutRetrieve` returns the state
of now, which may be ahead of the log). `AskInv`: the only request is a checkout. `RowFollows`:
once the last event of a subscription is written, its tenant is entitled as it pays, and from
its checkout to its end the row names it, which is how a handler finds the row of a customer that
was deleted meanwhile. When all is answered the last event of every subscription is
written, and the property follows.

Each hypothesis is used, and TLC finds the property false without it, on the instance of
`billing_ordered` with that one thing changed: without order an older snapshot wins (the run
`billing_unordered`); with faults an event is answered and never written; with a second
subscription of a tenant the end of the first cancels the row of the second; and with
`confirm`, `cancel` or `backfill` among the requests, a request writes a state that it read from
Stripe before the webhook's write, after it. The last is the other half of what
KNOWLEDGE-TRANSFER.md 8.2 means by the webhook as the source of truth: the code lets three other
writers overrule it. The number of tenants, customers, events and workers is not bounded, and
`OneSubscription` is a premise at each moment, not an assumption on the constants.

`AuthProofs` assumes the named assumptions of `AuthRequests` (each user has a tenant or none,
the cap is positive, `None` is nobody, requests are finitely many), and proves for any
number of users, tenants, requests, challenges, tokens and any cap:

* `TypeCorrect`: `TypeOK`, with the fact that a request knows its user unless it handles a decoy;
* `DeletionIsFinal`: `DeletionEndsSessions`. `SessionInv` adds that a request holding a late
  token is past the look-up of its user only if the tenant is closed, and then never reaches the
  creation of a token: what is gone stays gone (`DeletionsStay`);
* `SingleUseChallenge`: `ChallengeBuysOneSession`. `ChallengeInv` adds that a request past
  the consuming update, and a token bought, mean a consumed challenge, so the conditional
  update of `ConsumeChallenge` can succeed for nobody else (`ConsumeStep`). The invariant
  speaks of equality of requests and tokens; the cardinalities come at the end;
* `CapUnderConcurrency`: `AttemptsAreCapped`. `CapInv` counts all requests let past the cap, not
  only those about to record a failure. A request joins them only below the cap, when the bound
  holds whatever their number, and a failure moves one of them into the counter;
* `FactorsAreSpent`: `FactorAcceptedOnce`, an action property. `FactorInv` says that activations
  and recovery codes are drawn fresh and shared by no two users, that an accepted step is no
  later than the last step of its activation, and an accepted code is in no set.

`Locality`, `ArrivalLocals` and `ProgressLocals` say once what a step does to the requests, so
that each of these proofs looks only at the steps it is about.

`QuotaProofs` has no assumption but those of its theorem (requests are finitely many and there
is one; `Nobody` is no owner, `NoCap` no number), and proves `QuotaHolds`: whatever implements
`Quota` keeps below the highest limit plus the number of requests at once. `NearCeiling` is
not inductive, since it says nothing of what requests have counted. `QuotaInv` counts for
each cap from the limit upwards the places taken together with the requests that counted less
than that cap: taking a place moves one from the second to the first (`TakeReach`), counting
adds one only below the cap, when even all requests together do not pass the bound, and
raising the limit asks for fewer caps. It must be every cap and not the limit alone, because a
request may count under one limit and take under a higher one.

`TenancyProofs` assumes the named assumptions of `TenancyStore` (addresses are numbers, requests
are finitely many and there is one, a scenario starts with at most `MaxTenants` organisations,
there is a password) and of `Entitlements`, and proves for any scenario and any number of
everything:

* `TypesHold`: `TypeOK`, with what a request at each point of its operation refers to
  (`RequestFits`), since a sequence may be indexed only by what is in it;
* `RegistersAllOrNothing` and `FoundersHaveTenants`. `RegistrationInv` says how far each
  registration has got and that no two work on one organisation; and, less obviously, that
  the invitee whom a failing invitation removes is nobody's founder, so that its compensation never
  undoes a registration;
* `InvitationsStayInTenant` and `InvitationsAreSpent`. `InvitationInv` traces every stored
  invitation, and every acceptance past its look-up, to the organisation and the address its token was
  issued for; the unique index makes the invitation of a token the one that was found. A request
  about to delete the invitation it spent exists only without transactions;
* `SpentInvitationsAreRefused`: with transactions an acceptance begins only with a token nobody was
  activated with. Neither this nor `InvitationsAreSpent` says that a token activates once: two
  requests that both read the invitation both activate, since the count of the deletion is ignored
  (`tenant-user.service.ts:369-376`), and so does one whose invitation got a new token meanwhile;
* `DeletedStaysInactive`, which needs the types only;
* `ArchivedIsOffSale` and `ArchivedStays`. `PlanInv` says that an archiving request has
  deactivated price and product before it writes the row, and that a creation under way is
  the only request that knows its plan.

`SeatProofs` proves `SeatsAreAQuota`, that every step of the organisations is a step of `Quota` on the
seats or a stutter, and with `QuotaHolds` that seats stay near the ceiling
(`SeatsStayNearCeiling`). `SeatInv` is what the refinement needs: the ceiling covers every limit that
a request can still come to compare with (it may have read the subscription before it was
downgraded); a request past the comparison had counted fewer seats than the ceiling;
and nobody joins an organisation before its founder, who is not counted.

`WorkProofs` and `TaskProofs` assume the named assumptions of `WorkStore` (requests are finitely many
and there is one, users and sockets are numbers, the bounds are positive, a scenario names users and
files that there are and starts within the limit of its subscription), and prove for any scenario and
any number of users, sockets, requests, tasks and files, and any length of prompt:

* `WorkTypes`: `TypeOK`, with what a request knows at each point (`RequestFits`). Rows are never
  taken out of the model's sequences, so what a request names stays there; the lemmas
  on `Finish`, `Goto`, `Committed` and `Spoilt` say once what a step does to the other requests:
  nothing, or it makes an open update of the same task stale;
* `SocketHearsOneBoard` and `ChangesAreSignalled`, which are inductive on top of the types;
* `PushesMatchLists`. `RoomInv` says whose rooms a socket can be in: the room of a user only that
  user's, the room of admins only an admin's. A push reaches those in the rooms, and what
  the listing shows depends on the same two facts;
* `ModelSeesQuestion`. `ChatInv` ties the question of a request to its session. The history is
  the first `HistoryCap` stored messages of the session (`FirstOnes`): if the question is not among
  them there are that many before it;
* `CompletedStaysFinal` and `AssigneesAreNotified`. `TaskInv` says what an open transaction knows
  of its task unless it has been spoilt: the task is live, its assignee is the one that was
  read, the transition was allowed from the status it still has. A creation's draft is nobody else's;
* `WorkspacesAreAQuota` and `WorkspacesStayNearCeiling`: the refinement of `Quota` and the bound.
  `PlaceInv` says that the ceiling is at least the limit in force, and that a request past the
  comparison counted fewer workspaces than the ceiling;
* `FinalizedFilesAreThere`, `RenamedFilesAreAccountedFor`, `AttachmentsBelongToTheirTask`, all from
  `FileInv`. Row and file can disagree only while a request has the file in hand or after a
  failure (`RowFits`, `Accounted`); a request that has a file in hand knows where it is (`HoldsFile`); and no
  two requests have the same one (`Apart`): a rename succeeds for the one that finds the file under its
  temporary name, and a row is written by the one transaction that holds its lock. Each
  step of a request is then described by four facts, what it makes of a file (`FileChange`), that it lets
  go of a file only when the record says where the file is (`LetsGo`), that it takes only what
  nobody has (`Takes`), and that it knows what it has (`Knows`); the invariant follows from these alone.
  Without `Apart` the invariant is not inductive: the rollback of one request would take away the
  file that another had just recorded;
* `FewTasksAreStranded`. `StrandedTasks` counts the live tasks of a deleted workspace; `StrandInv` adds
  the creations under way that had found it. The cascade leaves no task and is itself a request
  that creates none; afterwards a commit moves one request from the second number to the first,
  and no creation joins, because a new one does not find the workspace.

## 7. Not modelled

Analytics and listings that only read, DTO validation, e-mail HTML and delivery, throttling,
cryptographic primitives, health checks, the stale-index cleanup at start, the seed script,
bootstrap. `requestRefund` and `createBillingPortalSession` write nothing this system keeps.
`patchCurrentUserMe` and the names of tenants and workspaces are data no property is about. Of the
files, links that clients put into `attachmentUrls` by themselves, and the second registration
of a publicId. Of the sockets, the handshake (a signed token) and adapters other than
the in-memory one. That several instances of the server run the cleanup at once is modelled only
as far as two requests do.
