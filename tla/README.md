# Verification of the Hornerito backend

Hornerito is a NestJS/TypeORM/PostgreSQL server for civil organizations: an
organization is reviewed by the platform, publishes needs and volunteering
activities, receives donations in kind and in money, and invites members. This
directory keeps TLA+ models of the parts of it that run concurrently, the TLC
configurations that check them on small instances, and theorems that TLAPS
proves for instances of every size.

Paths of the code are relative to the repository; `modules/` stands for
`src/modules/`.

- [Inventory](#inventory)
- [The modules and the code](#the-modules-and-the-code)
- [What the runs check](#what-the-runs-check)
- [Where the code and its documents disagree](#where-the-code-and-its-documents-disagree)
- [What is proved](#what-is-proved)
- [What is not modelled](#what-is-not-modelled)
- [Plan](#plan)

## Inventory

All organizations share one schema; rows carry `orgId`, and row-level security
compares it with the setting `app.current_org` of the connection. There is one
server process: what is concurrent are HTTP requests whose handlers interleave
at every `await`, each of which is a round trip to PostgreSQL, Cloudinary or the
mail server. Handlers share nothing in memory but the connection pool and the
geocoder's queue; they meet in rows. Three ways of changing a row appear
throughout, and most of the hard behaviour is in how they mix:

1. `findOne`, change the entity in memory, `repository.save(entity)`. TypeORM
   reads the row once more, compares it with the whole entity and updates the
   columns that differ. A column the service never touched is written back with
   its old value if somebody changed it in between (`TypeOrmSave`).
2. A transaction with `FOR UPDATE` on the row (acceptance of volunteers).
3. One UPDATE with a condition or an expression (coverage of needs, decisions of
   the platform admins).

| Component | State it keeps | Operations | Hard behaviour | What makes it correct |
|---|---|---|---|---|
| Tenant connections (`modules/tenant/`, `app.module.ts`) and the row-level policies (`ColumnBasedTenancy`) | the pool's connections, each with a session role and `app.current_org`; the queue of waiters | guard reads, bind, handle, unbind, release | a statement fails half-way; broken connections; a full pool | no role or organization leaks to the next request; a handler reaches the rows of its own organization and no others; nobody holds one connection while waiting for another; every request ends |
| Volunteering (`modules/volunteering/`) | activities with `capacity`, `acceptedCount`, status; applications; visitors' requests | create, update, close, cancel; apply, accept, reject; submit, approve, decline | the last seat; a stale save of the activity; an acceptance that spans an invitation and a mail | never more seats taken than there are; none in a cancelled activity; decisions end |
| Needs (`modules/need/`) | required and covered quantity, deadline, closed by hand | create, update, correct the progress, close; time closes them too | edits overlap donations | a closed need takes nothing; coverage is what came in |
| In-kind donations (`modules/donation/`) | donations with items | one transaction: validate, record, credit | opposite lock order, partial failure | all or nothing; no credit lost; donations end |
| Monetary donations (`modules/donation/monetary/`) | one row per donation, its receipt in Cloudinary, state objects | declare, confirm, reject, with a mail each | two deciders; upload, insert and mail are separate | a decision is signed, told as it is in the row, and final for whoever reads it |
| Organization lifecycle (`modules/organization/organization.service.ts`) | status, reason, the owner's membership | first save, edit, validate, reject, mail | two admins; the owner saves meanwhile | DOMAIN.md section 4; one mail per decision |
| Members and invitations (`modules/organization/member.service.ts`, `invitation.service.ts`) | memberships with role and `active`; invitations with token and expiry | invite, accept, cancel, change role, activate, deactivate | an invitation accepted while it is cancelled; a role saved over a deactivation | one membership per person; the owner's never changes |
| Accounts (`modules/auth/`, `modules/profile/`) | user row with password hash, verification and reset tokens | register, verify, resend, log in, switch organization, forgot, reset, profile | saves of one row overlap; a link is used twice; a mail fails | no verified account and no session without a link that reached the address; a link works once; the last password stands |
| Events (`modules/event/`) | events with a recurrence, attendance per occurrence | create, update, deactivate, list occurrences, load attendance | limits of dates; attendance while the schedule changes | the list of occurrences and the check of one agree; loaded attendance is on an occurrence |
| Media and posts (`modules/media/`, `modules/post/`) | media rows, files in Cloudinary | sign, confirm, upload, remove | retries, caps, removal of the owner while confirming | no row without its file; caps hold |
| Geocoding (`modules/geocoding/`) | a chain of promises | enqueue | a call that fails or hangs | calls are spaced out and each is answered |
| Catalogs (`supply`, `volunteer-type`, `collection-point`) | named rows; points have a weekly schedule | create, update, activate, deactivate | the name is checked in one query and written in another | no name twice; an edit leaves `active` alone; a schedule is a whole week |
| Public directory (`modules/public/`) | none | the page of an organization, the list, the feed of needs | several queries for one answer; its SQL repeats the services' conditions; pages while rows change | only validated organizations; offers what the services take; the feed comes whole |
| Mail (`modules/mail/`) | none | send | may fail or hang | whoever sends survives a failure |

Interactions: `TenantGuard` and `TenantContextInterceptor` run before every
handler of an organization. `InvitationService.accept` may create an account
and opens a session for it. `VolunteerRequestService.approve` calls
`MemberService.invite` inside its own transaction. `DonationService.create`
writes `needs` rows that `NeedService` saves. Needs may belong to an event.
Everything that decides about somebody sends a mail afterwards, and a failed mail
is logged and forgotten, except the invitation's, whose failure undoes the
transaction it is part of, and those of an account, whose failure the caller sees
although what was saved stays.

`PROJECT.json` lists the hazards of this code, each with its line and the
properties that watch over it.

## The modules and the code

An action is one round trip: what the handler does between two `await`s together
with the statement it then sends, because that is the grain at which handlers
interleave. Variables named `pc`, `epc`, `apc` say where a request is; `copy` and
`cols` are the entity it holds and the columns its save is about to write. The
writes of a transaction take effect at its commit (nobody sees them before, and
a failure leaves nothing to undo); its locks are taken when the code takes them.

**`TenantPool`** models `tenant.guard.ts`, `tenant.interceptor.ts` and the
pg-pool they draw on. A tenant request waits for a connection three times: for
each of the guard's two reads, which give it back at once, and for the
interceptor's QueryRunner, held to the end. `SetRole`, `SetOrg`, `Finalize`,
`ResetRole`, `ResetOrg` are the statements of `intercept` and
`releaseTenantConnection`; `StatementFails` is their `catch`. Connections may
break at any moment while in use (`Break`), the pool discards them, and
`connectionTimeoutMillis` takes waiters out of the queue (`Timeout`). `Visible` is
the policy that the tables of the tenants share: which organizations' rows a query
on a connection reaches, given its role and its setting.

**`Volunteering`** models one activity (activities share nothing):
`volunteering.service.ts`, `volunteer-request.service.ts` and, of
`member.service.ts`, the invitation and its cancellation. An application, or a
request of a visitor for a seat or to help in general, is checked (`Check`) and
inserted later (`Insert`). `BeginAccept` / `BeginApprove` read what is decided;
`LockOpportunity` is the `FOR UPDATE` read with the checks that follow it,
`LockRefused` its early returns; `Invite` runs in the transaction;
`AcceptSave`/`AcceptCommit` and `ApproveSave`/`ApproveCommit` end it. A request
to help in general takes no seat and no lock. Rejections and the edits of the
activity are unlocked saves; an edit's UPDATE waits for the lock and obeys
`CHK_volunteer_opportunities_accepted`.

**`NeedCoverage`** models `need.service.ts` and `donation.service.ts`: edits of
needs are saves, a donation is a transaction that validates each item (`Validate`),
credits each (`Credit`, which takes the row's lock) and commits. `Brought` counts the
units of its items. `DeadlockVictim` is PostgreSQL ending one member of a cycle of
waiters.

**`MonetaryDonation`** models `monetary-donation.service.ts` with its state
objects, the constraints of its table, the stored receipt and the mails. `overtaken` and
`replaced` are histories: who read the donation before somebody decided it, and whether
one of those then saved over the decision. Its names, like
those of `Media`, differ from those of the modules it is proved about together with.

**`OrganizationReview`** is the abstract review, as DOMAIN.md section 4 promises
it: submit, decide, tell; and, marked in `overwritten`, what the code adds to the
promise, an edit that brings a status back. **`OrganizationLifecycle`** is what
`organization.service.ts` and its repository do: `upsertMine` as find, load,
save, write or check, create; `transitionFromPending` as the conditional UPDATE,
the read after it and the mail. It implements the abstract module with
`status <- org[o].status`, `untold <-` the admins that won and have not mailed
yet, `told <- mails`, `overwritten` by its own history: an edit whose row changed since
it read it is in `stale`, and `overwritten` gets the organization if it then writes.

**`Members`** models `member.service.ts` and `invitation.service.ts`: the
memberships and invitations of one organization, one membership per person as the
unique index has it. A request is let in by the role and the flag of its person
(`Enter`), and goes on with them however its membership changes meanwhile.
`ChangeRole` and `ToggleActive` are loads followed by a save (`Save`, `Write`);
`Invite` is check, look for a pending one, insert under the partial unique index
(`NonePending`). An acceptance is a chain of separate writes: the account
(`CreateUser`), the membership (`CreateMembership` or `SaveExisting`), the
invitation (`SaveInvitation`); `Fail` may cut it after any of them, and
`InsertAgain` is what `save` does when the invitation was deleted in between.

**`Events`** models `event.service.ts`: one event and the dates that have
attendance. Days are numbers, of which `d % 7` is the weekday. `IsOccurrence` and
`OccurrenceDates` are the code's two computations of when the event takes place.
An edit is a load (`BeginUpdate`, `BeginDeactivate`), the count of attendances if
the schedule changes (`CountAttendance`), and a save under `CHK_events_weekdays`;
an attendance is `BeginLoad`, which reads the clock, `FindEvent` and `Upsert`. Days
pass (`Midnight`). Two history variables serve the properties: `stale`, the requests
that began before another one wrote or before a midnight, and `overnight`, whether one
was ever in flight at midnight.

**`Media`** models `media.service.ts` and `post.service.ts`: one post, its
attachments and the logo, in two stores, the rows (`media`) and Cloudinary
(`stored`, by public id). `Sign`, the browser's own upload and the confirmation
(`BeginConfirm`, `GetResource` or `GetOtherKind`, `Count`, `Insert`) are separate
requests; `Insert` obeys the unique index on the public id. A logo is uploaded first
and then saved over the row that was found. `Destroy` is `destroyQuietly`, which may
fail without anybody hearing of it. `sent` and `repeated` record which files clients
sent to be confirmed, once and again; the properties use them and no guard does.

**`Accounts`** models `auth.service.ts`, `profile.service.ts` and what an accepted
invitation does to an account: the one row that an e-mail address has, and the links
mailed to it. Every handler after the sign-up is a read with changes in memory
(`VerifyEmail`, `ResendVerification`, `ForgotPassword`, `ResetPassword`,
`UpdateProfile`, `ChangePassword`), the comparing read (`Save`) and the update
(`Write`); a link that was stored is mailed after it (`SendMail`), and `Fail` may come
instead of any of them. The memberships of the person are one value, changed from
outside (`ToggleAccess`, `CreateOrganization`) and by an acceptance (`Join`), as `login`
and `switchOrg` look at them. `stale`, `proved`,
`used` and `chosen` are histories for the properties.

**`Catalog`** is what `collection-point.service.ts`, `supply.service.ts` and
`volunteer-type.service.ts` have in common, with `kind` for what they do not: the
unique index, the schedule (`NormalizeSchedule`, `IsAccepted`, and `SortByDay` for the
sort by the number of the day) and activating or
deactivating by name instead of a toggle. Names are compared by `Like` in the check
and by `Lower` in the index, as `ILIKE` and the index do. **`Geocoding`** models
`geocoding.service.ts`: the chain of promises, the pause and the timeout, with time as
two counters. **`CollectionPoints`** composes the two into the panel, where a person
waits for addresses or edits an entry.

**`PublicDirectory`** models `public.service.ts` over `OrganizationLifecycle`, which it
extends: the organization is reviewed, edited and rejected while a visitor reads. A
page is a guard (`GetOrganization`) and the queries after it (`QueryOffers`); the list
and each page of the feed are a count and a read. `OPEN_NEED`, `OPEN_OPPORTUNITY` and
`OfferedEvent` are the SQL of the directory, `IsNeedClosed` and `IsOpportunityOpen` the
TypeScript of the services. What the organization offers changes freely (`ChangeRow`):
how it changes is the other modules' concern.

**`TypeOrmSave`** is what `save` does, shared by all modules with such saves.
TypeORM, pg-pool and PostgreSQL are modelled from how the code uses them and
marked external in `PROJECT.json`.

The `MC*` modules instantiate these for TLC. Definitions whose comment begins
"Mutant of" are the code with one plausible bug; no specification uses them.
Each one, put in the place of the definition it names, makes TLC refute a
property: they show that the properties depend on the code.

## What the runs check

| Run | Instance | Shows |
|---|---|---|
| `tenant_pool` | 3 requests, 2 connections, 2 organizations | `Isolation`: idle connections are clean, handlers run with the restricted role and reach their own organization only, the guard and the anonymous routes read unbound, nobody waits while holding; `ResetBetweenTenants`; `EveryRequestEnds` |
| `volunteering` | 2 managers, 1 member, 1 visitor, up to 2 seats, updates and cancellations | `SeatsStand`: those with a seat <= `acceptedCount` <= `capacity`, until an edit writes back a count it read before; `OneSeatTakerAtATime`, `NoSeatOnceCancelled`, `DecisionsEnd` |
| `volunteering_overbooked` | 2 managers, 2 members, 1 seat, close | violation, see below |
| `need_coverage` | 2 needs, 2 donations of up to 3 items, 1 editor with every edit, 2 days | `NoCreditLost`: a need covered exactly stays so until an edit writes one of its quantities; `CommitHoldsItsRows`, `DonationsEnd` |
| `monetary_donation` | 4 deciders | `MailAfterDecision`, `DecisionIsSigned`; `DecidedIsFinal` |
| `organization_review` | 1 organization, 1 edit in any status, 2 admins, 2 submissions, 1 visitor, 2 rows of each kind, 2 days, pages of 1 | `ReviewSpec` (refinement), `ReasonIffRejected`, `OneMailPerSubmission`; `PublishedIsValidated`, `PageAgrees`, `FeedIsWhole` |
| `members` | an owner and 2 people, 3 requests, 1 invitation | `OwnerStands`, `AcceptedHasJoined` |
| `events` | 2 requests, a Saturday and the Sunday after, events on Saturdays or on both | `AttendanceStands`, `EndedIffInactive`, `EndedOnStands`, `ListAgrees` |
| `media` | 2 requests, 3 public ids, 1 attachment allowed | `RowsHaveFiles`, `CapWithinOverlap`, `RemovalLeavesNone` |
| `media_retry` | 2 requests, 2 public ids, 1 attachment allowed | violation, see below |
| `accounts` | 2 requests, 2 links, 2 passwords | `ProvedFirst`, `StaysVerified`, `LinksWorkOnce`, `LastPasswordStands` |
| `collection_points` | 2 people, 2 entries, 2 names, weeks of 2 days, 2 hours | `NamesUnique`, `ActiveStands`, `ScheduleMakesSense`; `CallsSpaced`, `SearchesAnswered` |

Types are an invariant of the runs `need_coverage`, `media` and `collection_points`, and the
directory's within `PublishedIsValidated`; for all of them they are proved.

**Why the bounds are enough.** Two holders and a waiter show every way of
handing a connection on, and two organizations every leak. Two managers race for a
lock, or one edits while the other decides; with one seat fewer than people the last
is contended, with as many it is not, and `Create` chooses. Two needs and two items
are the smallest deadlock, and one donation that gives to the same need twice, once
more than it lacks. With four deciders a decision overlaps two others that end one
after the other. Two admins decide one submission with one of them late, and an edit
writes over the decision; that edits overlap each other is left to the theorems, which have
any number. Two rows and pages of one need two
pages; two days put each row's deadline before, on and after today. Three requests are
two managers and the person who accepts, so an invitation is cancelled and a member
changed while it is accepted. Two days over the end of a week have a date of
each kind: before the event, on it, on no weekday of its, after its last day.
With one attachment allowed, three public ids are the attachment, the one over the cap,
and a logo; or a logo that replaces another one and an attachment. Two links are the one
that verifies and the one that resets, or two of the same kind of which the second
replaces the first; two requests are one that saves and one that overtakes it. Two entries
and names are a repeated name, and `Like` has one name that as a pattern matches the
other and not itself. `MIN_INTERVAL` and `TIMEOUT` differ, so a call may take longer than the pause.
Slots of requests are used again, so runs are not bounded in the number of requests. The
counters that could grow are `submissions` (`MaxSubmissions`, in the guards of `Load` and
`CreateMine`) and `today` (`LastDay`); quantities and capacity are drawn from
`1 .. MaxQuantity` and `1 .. MaxCapacity`, timers stop at the larger of the two intervals.

**What an edit may do.** The locks and the SQL increments promise that seats and
credits are counted right, and both need every writer of the row to respect them. The
edits do not: they save the whole entity. `SeatsStand` and `NoCreditLost` say that
this is the only way to break the count; the saves that do are in the runs
(`volunteering_overbooked` shows one), and so is everything that overlaps them.
`ReviewSpec`, `ReasonIffRejected`, `PublishedIsValidated`, `StaysVerified`,
`LinksWorkOnce`, `LastPasswordStands`, `NamesUnique`, `ActiveStands`, `AttendanceStands`,
`MailAfterDecision` and `DecidedIsFinal` are of the same form: the exception each names is
a write by a request that another one overtook (for `NamesUnique` also a name that as a
pattern does not match the other), and nothing else is excepted.

**Attendance and edits.** What DOMAIN.md says of events with attendance needs
the count and the save of an edit to be one step for whoever loads attendance, and a
clock that stands still from its reading to the write. Nothing makes them so, and all
of it is in the run. `AttendanceStands` says that attendance leaves the dates of its
event only by the write of a request that was overtaken so, not by the guards of the
code, which are the right ones. Of overlapping edits `EndedIffInactive` and
`EndedOnStands` except nothing: their exception is the clock alone, a request that read
it, or the row, before a midnight and writes after.

**Confirmed once.** `RowsHaveFiles` and `RemovalLeavesNone` leave out the files that
were sent to be confirmed more than once. Those are in the run all the same, with
everything they do to the others; `media_retry` shows why they are left out.

**Fairness.** `tenant_pool`: a request's own statements complete (`WF` on
`RequestStep`) and the pool serves its queue (`WF` on `Grant`), as an event loop
and a live server do; nothing is owed by `Timeout`, `Break` or new arrivals, so
the result does not rest on the pool giving up on anyone. `volunteering`: the
statements of a decision complete (`WF` on `Advance`); getting the row lock is
`SF`, because others may take it first any number of times, and PostgreSQL queues
the waiters of a row so each is served. The managers' handlers contain mail calls
while they hold the lock; that those return is part of the assumption.
`need_coverage`: `WF` on the donation's steps is enough, since a donation does not
come back for the lock. `collection_points`: time goes by and timers fire in the end
(`WF` on `Tick`, `TimeOut`, `EndPause`) and the chain goes on (`WF` on `Call`); that
the provider ever answers is not assumed. No fairness on failures anywhere.

**Deadlock** is checked except in the runs of `NeedCoverage`, `MonetaryDonation` and
`Media`, where everything ends once everyone has been decided or recorded, or every
public id used; each such cfg says so.

## Where the code and its documents disagree

Each of these is a short counterexample of TLC.

- `volunteering_overbooked`: the comment of `accept` says its lock keeps two
  managers from going over `capacity`. `setStatus` and `update` take no lock and
  save the whole entity, so a close that overlaps an acceptance writes the old
  `acceptedCount` back.
- `media_retry`: a comment of `confirmFor` says, of a file confirmed twice, that it is
  not removed from Cloudinary because the row that exists uses it, and a test is named
  for that. The unique index that tells is reached last. If the post is full by then,
  as it is when the answer to the confirmation of its last attachment was lost and the
  client repeats it, `isFull` rejects the file and destroys it.

Others of the same kind were found while writing the models and have no run of
their own; the properties above are stated around them. `accept` and `reject` read the application before any lock on it and
may both decide it (a rejection over an acceptance leaves its seat counted); an
update of an activity may reopen it after a cancellation; an edit of a need may
reopen it after it was closed by hand; a need closed after a donation was
validated is still credited; a confirmation that overlaps a rejection may leave a
confirmed donation with `rejectReason`, and of three decisions that overlap the row may
have the status of one and the signature of another; and `LEAST` caps the coverage at what is
required, as a comment of `donation.service.ts` explains, where DOMAIN.md:143 says
it may go over. Further:

- `NeedService.update` takes no lock and changes no coverage, but saves the
  `coveredQuantity` it read, so that an edit that overlaps a donation erases its credit;
  the donations themselves compute it in SQL "para que dos cargas simultáneas no se
  pisen".
- DOMAIN.md:299 has an event with attendance keep its schedule. `update` counts the
  attendance and saves later, and attendance loaded in between is left on a date that
  the event no longer has.
- `PostService.remove` deletes the attachments first so that none is left without its
  post; one confirmed after that deletion is. An update of the post that read it before
  inserts it again. A confirmation that names the wrong kind destroys the file even if
  a row uses it.
- `decidida.state.ts` says that a decided donation is not touched again. The state
  objects guard the entity in memory; two deciders that read it `declarada` both
  save, the second decision replaces the first, and the donor may be told of both.
  `DecidedIsFinal` says that nothing else touches it.
- If the insert of a declared donation fails after its receipt was stored, the file stays
  in Cloudinary and nothing names it.
- An update of a collection point that read it before it was activated or deactivated may
  bring the old state back.
- DOMAIN.md has no way out of `validated`. An owner's save that read the
  organization while it was pending puts it back to pending.
- `tenant.guard.ts:41-43` has a deactivated member lose access at the next request.
  `changeRole` saves the whole membership, so one that overlaps the deactivation
  enables the member again.
- A comment of `invitation.service.ts:86-87` explains why accepting again enables a
  member that was deactivated, but `member.service.ts:157` refuses to invite anybody
  with a membership, active or not.
- `cancelInvitation` deletes whatever invitation it finds, accepted ones included,
  and an acceptance in flight inserts a deleted one again. If the last save of an
  acceptance fails its link remains usable.
- An update of an event that read it before its deactivation brings it back, flag
  and last day together. Two deactivations around midnight leave the later day.
- `resendVerification` saves the user it read: one that overlaps `verifyEmail` takes the
  verification back. `updateProfile` may bring an old password back the same way. A
  reset link that is used twice at once sets the password twice.
- Accepting an invitation opens a session for an account that exists, verified or not,
  where DOMAIN.md:112 and :205 have no login without verification. The link of the
  invitation reached the same address, so that `ProvedFirst` holds.
- The account whose verification mail fails is there although the caller sees an error;
  registering again is refused and `resendVerification` is the way out.
- `assertNameAvailable` compares with `ILIKE`: a name with `%`, `_` or `\` in it is a
  pattern and may be refused although it is free. Supplies and kinds of volunteering
  have no unique index, so two overlapping requests may repeat a name.
- The feed of needs is ordered by deadline alone. Needs of the same day may repeat, or
  be skipped, from one page to the next.
- The geocoder's pause is kept per process, and the chain is in its memory.
- A request of a visitor is accepted whether or not the organization seeks volunteers,
  which only the page looks at.
- An expired invitation still counts as pending and blocks a new one until it is
  cancelled. Two first saves of one owner at once create two organizations.
- The credit of a donation is added to an `int` column before `LEAST` cuts it: an overflow
  is an error 500.

## What is proved

TLAPS checks these for every value of the constants that satisfies the named
assumption of the module.

| Theorem | Statement | From |
|---|---|---|
| `TenantPoolProofs!ConnectionsIsolated` | `Spec => []Isolation` | `PoolAssumption`: `NoOrg`, `NoConn` are not an organization or a connection |
| `TenantPoolProofs!SettingsReset` | `Spec => ResetBetweenTenants` | the same |
| `VolunteeringProofs!SeatTakerAlone` | `Spec => []OneSeatTakerAtATime` | `VolunteeringAssumption`: members and visitors are finitely many and not the same, some capacity |
| `VolunteeringProofs!CancelledGivesNoSeat` | `Spec => NoSeatOnceCancelled` | the same |
| `VolunteeringProofs!SeatsStandAlways` | `Spec => SeatsStand` | the same |
| `AccountsProofs!AddressProvedFirst` | `Spec => []ProvedFirst` | `AccountsAssumption`: `NoLink`, `NoPassword` are not a link or a password |
| `AccountsProofs!VerifiedStays` | `Spec => StaysVerified` | the same |
| `AccountsProofs!PasswordStands` | `Spec => LastPasswordStands` | the same |
| `AccountsProofs!LinksOnce` | `Spec => LinksWorkOnce` | the same |
| `DonationProofs!CreditKept` | `Spec => NoCreditLost` | `NeedAssumption`: there are supplies, quantities are positive, baskets are not empty, `NoNeed`, `NoOne` are not a need or a donation |
| `DonationProofs!RowsHeld` | `Spec => []CommitHoldsItsRows` | the same |
| `DonationProofs!DecisionSigned` | `MonetarySpec => []DecisionIsSigned` | `DonationAssumption`: `NoDecider` is not a decider |
| `DonationProofs!MailFollowsDecision` | `MonetarySpec => []MailAfterDecision` | the same |
| `DonationProofs!DecisionFinal` | `MonetarySpec => DecidedIsFinal` | the same |
| `OrganizationProofs!OneMail` | `Spec => []OneMailPerSubmission` | `LifecycleAssumption`: finitely many admins, a positive bound |
| `OrganizationProofs!ReviewImplemented` | `Spec => ReviewSpec` | the same |
| `OrganizationProofs!ReasonKept` | `Spec => []ReasonIffRejected` | the same |
| `OrganizationProofs!OnlyValidated` | `PublicSpec => []PublishedIsValidated` | the same and `DirectoryAssumption`: finitely many organizations and rows, pages are not empty |
| `OrganizationProofs!PagesAgree` | `PublicSpec => PageAgrees` | `LifecycleAssumption`, `DirectoryAssumption` |
| `OrganizationProofs!WholeFeed` | `PublicSpec => []FeedIsWhole` | the same |
| `OrganizationProofs!FilesThere` | `MediaSpec => []RowsHaveFiles` | `MediaAssumption`: finitely many files and requests, `MaxItems` is positive, `NoFile` is not a file |
| `OrganizationProofs!CapKept` | `MediaSpec => []CapWithinOverlap` | the same |
| `OrganizationProofs!RemovalComplete` | `MediaSpec => []RemovalLeavesNone` | the same |
| `MembersProofs!OwnerKept` | `Spec => []OwnerStands` | `MembersAssumption`: the owner is a person, `NoOne` is neither a person nor an invitation |
| `MembersProofs!AcceptanceJoins` | `Spec => []AcceptedHasJoined` | the same |
| `EventsProofs!ListsAgree` | `Spec => []ListAgrees` | `EventsAssumption`: days are naturals, no empty choice of weekdays |
| `EventsProofs!AttendanceKept` | `Spec => AttendanceStands` | the same |
| `EventsProofs!EndedTogether` | `Spec => []EndedIffInactive` | the same |
| `EventsProofs!LastDayStands` | `Spec => EndedOnStands` | the same |
| `CollectionPointsProofs!UniqueNames` | `FairSpec => NamesUnique` | `CatalogAssumption` (what the DTO asks of a schedule) |
| `CollectionPointsProofs!StateStands` | `FairSpec => ActiveStands` | `CatalogAssumption` |
| `CollectionPointsProofs!ScheduleKept` | `FairSpec => []ScheduleMakesSense` | the same |
| `CollectionPointsProofs!Spaced` | `FairSpec => CallsSpaced` | `GeocodingAssumption`: the interval and the timeout are positive |
| `TypeCorrect` of every module of proofs, `MonetaryTypeCorrect`, `MediaTypeCorrect` | the types of each specification | the assumption of each |

*Tenant pool.* `Isolation` is not inductive: it does not say which session each
statement starts from. `IInv` adds, for every point of a request, the role and
organization of the connection it holds (`SessionOf`), that whoever runs holds a
usable slot, that bound requests have an organization, that slots nobody holds
are clean, that no two requests share a connection, and that the queue holds
waiting requests, once each; the last is what keeps `Grant` from giving a second
connection to anyone. `RemoveAtQueue` says what leaving the middle of the queue
does to it.

*Volunteering.* `IInv` says that a decision that takes a seat and is past its lock has it, that what it
is about to write is the row plus one, and that the row still has that seat
(`HoldsSeat`); who is decided and what the copies in memory say (`InMemory`), so a copy
asks for a seat if the request does; and that a visitor sends one request
(`AppliesOnce`).
`SeatWritten` follows: the write of a seat finds a free one in an activity that is not
cancelled. `SeatsGiven` says which steps change who has a seat at all: those writes add
one person, everything else none. `SeatsStandAlways` counts both sides
(`OneMore`, `NoneMore`); the edits are the only steps left that change the count, and
those that do not write it leave it alone.

*Accounts.* A save that nobody overtook writes what it read with the change it meant.
`IInv` says what that is for each request that is not in `stale`: the copy is the row but
for the columns it changes, with the link and the password it carries
(`FreshUnlessStale`); for all of them that a copy is verified only once the address was
proved (`ProvedBehind`), and that a link is given out once and for one purpose, and is out
of the copy of whoever follows it (`LinksApart`, `TokenTakenOut`).
Each of the action properties then looks at one column of the row in `Write`.

*In-kind donations.* A donation validates every item, then takes the rows one by one,
then commits. `IInv` says that what was validated is given to needs that exist
(`GivesToNeeds`), that the rows of what it has credited so far are its own
(`HoldsUpdated`), and that only whoever is in that part of the transaction has any
(`LocksOfWorkers`); `RowsHeld` is that at the last item. What donations brought to a need
is a set of units, each named by its donation, its item and its number, so that a sum is
the size of a set: `BroughtAdds` says what recording one adds, `BringsNone` that a
need none of its items names gets nothing. `CreditKept` then has one case for each kind of
step: a commit adds to both sides, up to what the need requires, an edit leaves
alone the quantities that are not among its columns, and the rest changes neither side.

*Monetary donation.* Saves overlap, so a row may mix columns of two decisions.
`IInv` says that a copy being saved is decided and signed, and that as long as the
row is not decided the columns about to be written include both status and
signature. So whichever save comes first writes both, and later ones replace
either by another decided status or another signature. Whoever is still to save when the
row is decided is in `overtaken`; hence `DecidedIsFinal`, and that the mail of a saved
decision says what the row says until one of those replaces it.

*Organization.* `OneMailPerSubmission` counts: mails sent, admins that won and
have not mailed, and a decision still to take never outnumber the times the
organization became pending. Each step moves one unit from one term to the next.
`IInv` adds the types and that an admin has an organization exactly while it
decides; the lemmas on `Deciding` are cardinalities of a set that gains or loses
one admin.

*Refinement.* An edit may write over a decision with an old copy, as described above, and
that is all it may do. `RInv` says that the copy of an edit that is not in `stale` is its
row with the changes of `upsertMine`, and the columns of its save are those that differ
(`EditStands`): its write then makes the row that copy (`WrittenIsCopy`), which changes
nothing but a rejected row to a pending one (`EditedChanges`), a `Submit`. Every change of
a row puts the edits that hold it in `stale` (`StandsStill`), and a write by one of those
is the review's `Overwrite`, after which the organization goes on under the same rules.
For `ReasonKept` the same facts show that a write leaves the reason with the status.

*Public directory.* Nothing but an `Overwrite` undoes a validation, which is the
refinement again (`ValidatedStays`); so what a visitor got past the guard is still to be shown when its
queries are made, although nobody looks again. `PagesAgree` unfolds the SQL of the
directory and the TypeScript of the services for each kind of row. For the feed, two
orders by deadline of the same rows are one when no two deadlines are equal: the first
place where they differ would hold the earlier of two rows that are each earlier than the
other (`OneOrder`). `FeedInv` says that what has come by is the beginning of that order,
up to the pages read, and that the total is of the rows that are listed.

*Media.* A file that was sent once to be confirmed is in the hands of one request
(`OwnFile`), and from the check of its resource to the insert it is in no row, nor about
to be destroyed by anybody; a logo's file is of the request that uploaded it. `FilesInv`
says that what somebody is about to destroy (`doomed`) is in no row unless it was sent
again, `RowsInv` that a public id is of one row and that there is one logo. `RoomLeft` is
the cap with the requests at the insert counted in. Most steps only forget, delete or go
on; `Recedes` says what they have in common and `RecedeKeeps` that this is enough.

*Catalogs.* `stale` is a history of who was overtaken: `UpToDate` says that of everybody
else what they read is so still, the name that is free included. A write of a new pair of
equal names (`NewDuplicate`) is then a contradiction with the check, if the name matches
the other as a pattern. With `ILIKE(name)`, names are patterns, and one with a backslash in
it may not even match itself; the property makes that exception, and `Like` is any relation.
For a schedule, the DTO's seven days with seven different numbers are all of them once
(`DaysDiffer`), so the sort puts each in its place: the least day out of place would be
further on, and one before it would be its double (`SortedWeek`). `WrittenRow` is what
keeps a save from mixing two rows into a third.

*Geocoding.* A pause begins after the call and its timer never runs before the time since
the call (`GeocodingInv`), so when the pause is over so is the interval, even when timers
are late. `TypeCorrect` says that the chain and the answers go together, with nobody twice
in the chain.

*Members.* The owner's row is written only by saves of a copy. `IInv` says that an
edit in flight holds a copy of somebody else (`EditsOthers`), that invitations and
the acceptances of them never make an owner (`InvitesOthers`), and that whoever is
past the creation of its membership has one (`JoinsInvited`). Memberships are never
deleted, so that an invitation once marked stays true to its member.

*Events.* `SameDates` is the agreement of the two computations for any row, range
and day, from which `ListsAgree` follows. For attendance, `AInv` says that what a request
has read is so still unless it is in `stale` (`FreshUnlessStale`): a copy past the count
has the row's schedule if there is attendance, and the row's last day or today; an
attendance past its check is on a date of the event. A write that changes anything puts
every other request in flight in `stale`, and so does midnight (`OvertakenFresh`); one
that is not in `stale` changes nothing of the schedule but the last day to today, and no
attended date is lost by that (`WriteStands`, `StillOccurrence`) or by the next day
(`NextDay`).

*Last days.* As long as no request was in flight at midnight nothing ended after today
(`EndedByToday`), and every copy of an edit has the row's last day unless one of the two
ended today (`EditsTogether`): a save then finds both columns of a last day changed, or
none, however edits overlap. `LastDayStands` reads off the same that a write brings the
last day of its copy, which is the row's unless both are of today (`WriteTogether`).

**Only model-checked.** The liveness properties `EveryRequestEnds`, `DecisionsEnd`,
`DonationsEnd` and `SearchesAnswered`: fairness and `ENABLED` are out of the prover's reach.
Every other property of the runs has a theorem. Where one is about a list of any length (the
feed, a sorted week, the queue of the pool) the definitions are not recursive and the
argument is by a least counterexample, because the library's induction takes an operator
that the provers cannot instantiate.

## What is not modelled

- Mail bodies and the transport: that a mail may fail is a step of whoever sends it.
- The guards that check a role and the listings that change nothing: stateless reads.
  `TenantGuard`'s reads are in `TenantPool`.
- Controllers, DTO validation, routing and migrations. The limits and constraints
  that decide an outcome are guards of the actions.
- The filters and search terms of the directory, images and posts on its pages.
- That the links between needs or activities and events exist (`resolveLinkableId`
  reads only), and the counts that attendance records.
- Supplies, collection points and donors of a donation, which play no part in coverage.
- Several requests of one visitor, several activities, several addresses: they share no
  row, except the invitation of a visitor who asks twice.
- Name, phone and the other columns of a profile that nothing looks at.
- A process crash is the same as every request in flight failing at its next
  round trip, which the `Fail*` actions cover one request at a time. What lives in
  memory alone, the pool and the geocoder's chain, starts again clean.
- That `set_config` or `RESET ROLE` fails on a live connection: no statement timeout is
  set, and neither has another reason to. `SET ROLE` has one, a role that does not exist,
  and is modelled with it.

## Plan

Done: every component that keeps state is modelled, and every property of the runs that is
not a liveness property has a theorem.

Next, in this order:

1. Safety halves of the liveness properties: nobody who waits for a row or a connection is
   forgotten by the queue, and a cycle of waiters has a victim.
2. An abstract specification of the seats of an activity and one of the coverage of a
   need, implemented by `Volunteering` and `NeedCoverage` up to the saves that
   `SeatsStand` and `NoCreditLost` except.
