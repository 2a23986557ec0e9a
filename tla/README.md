# SemaFacts API in TLA+

SemaFacts is a whistleblowing service. Anonymous reporters open *incidents*
(reports) with files and get two codes to come back with; the staff of a
company are invited, assigned to reports, exchange messages and delete reports.
The program is a NestJS server over PostgreSQL (through Prisma), an object
bucket (Cloudflare R2) and a mail server. This directory models what its
services do to that shared state when requests run at the same time, fail half
way and are deleted under each other's feet.

## 1. The system

### 1.1 What runs concurrently

The server keeps no state of its own between requests: all of it is in the
tables, the bucket and the tokens clients hold. A request is one run of a
controller method. Node runs one continuation at a time, so the code between
two `await`s is atomic, and any number of other requests run at each `await`.
No handler opens a transaction around two calls (the one `$transaction`,
in `categories.service.ts`, holds a list of updates). Any awaited call may
reject, and the process may die; nothing is undone in either case, and nothing
is retried except by the client.

### 1.2 Components

| Component | State | Operations that change state | What makes it correct | Modules |
|---|---|---|---|---|
| Incidents (`incidents/`) | `Incident`, `Attachment`, `AuditLog` rows, objects | create, update, delete | a report that was acknowledged has all its files; rows name objects; deletion takes everything with it | `Incidents` |
| Attachments (`attachments/`) | `Attachment` rows, objects | uploadNewAttachments | rows only for uploads that have landed | `Attachments` |
| R2 (`r2/`) | bucket | uploadFile, deleteFile | an object is what its row says | `CaseStore` |
| Handlers (`handlers/`) | `incident_handlers` rows, mail | assign, assign many, deassign | nobody twice on a report; no report deleted under a handler | `Handlers` |
| Messages (`messages/`) | `Message` rows | createMessage | a message belongs to a report that exists | `Messages` |
| Incident auth (`incident-auth/`), secret codes (`secret-code/`) | tokens | login, refresh | codes open the reporter's own report and no other; a deleted report opens for nobody | `IncidentAuth`, `ReporterSystem` |
| Users (`users/`) | `User`, `InviteToken` rows, mail | create, update, deactivate, password reset | no status or password without a cause; a user is in the company it was put into | `Users`; `User.companyId` in `Companies` |
| Invites (`invites/`) | `InviteToken`, `User` rows, mail | create, verify | an invite is opened, admitted, spent, and only then activates | `Invites`, `InviteBook` |
| Auth (`auth/`) | `User.refreshToken` | login, refresh | a session starts with a password; a token says what was true while it was obtained | `Sessions` |
| Guards, roles, strategies (`auth/`) | the tokens clients hold | a guarded call | nobody passes with a role the account did not have | `Sessions` |
| Audit log (`audit-log/`) | `AuditLog` rows | createAuditLog | written for what was answered | `Incidents`, `DirectoryStore` |
| Companies (`companies/`), reporting pages (`reporting-page/`) | `Company`, `ReportingPage` rows, `User.companyId`, logos | create, update, add users, add and update pages | a company is whole; its logo exists | `Companies` |
| Categories (`categories/`, `companies/`) | `Category` rows | add, rename, delete, bulk edit | the list is what an editor sent; nothing new is lost | `Categories` |
| Listings (`getIncidents`, `getCompanyIncidents`, ...) | none | a page of rows and its count | a walk over the pages loses and repeats no more than what left and came | `Listings` |
| Email (`email/`) | mail | sendEmail | | a step of its callers |
| Pipes, DTOs | none | | | not modelled |
| Prisma service, configuration, `main.ts`, generated client | none | | | not modelled |

How they interact: `IncidentsService` and `AttachmentsService` call
`R2Service` and write attachment rows; `IncidentsService` draws codes from
`SecretCodeService` and writes the audit log; `HandlersService` and
`InvitesService` send mail; `InvitesService` and `AuthService` go through
`UsersService`; `IncidentAuthService` reads what `IncidentsService` wrote. All
other interaction is through the tables, where foreign keys, unique indexes and
the `onDelete` rules of `prisma/schema.prisma` decide between concurrent
requests.

### 1.3 What is hard here

- An upload, an assignment or a message races the deletion of its report.
- Uploads of one request run in parallel and land in any order, also after one
  of them has failed and the request has been answered.
- Object keys are a timestamp and a file name and can collide.
- `incident-auth` reads a report in one handler, reads it again in another and
  signs tokens afterwards, while it may be deleted.
- Display codes are six characters and free again after a deletion, while old
  codes and refresh tokens are still about.
- `verifyInvite` reads, hashes, writes, checks and writes again, over five
  awaits; `createInvite` decides on a status and writes it after a mail server
  has answered.
- `User.companyId` is written by three handlers, one of them a `PATCH` of any
  field, and a `PATCH` may also write `null` into a status, a role or a password.
- `editCategories` takes three differences over one read and applies them in
  three statements; `updateCompany` deletes the old logo before the new one is
  there.
- A page is a query and its count another one, and a walk over the pages is
  many of both, while rows come and go.
- The role in a token is read before bcrypt runs, signed after it, and believed
  for fifteen minutes.
- Failures between two statements leave the first one standing.

`PROJECT.json` lists these hazards with their lines and the properties that
would notice.

## 2. Modules

### 2.1 The case system

| Module | Role |
|---|---|
| `CaseStore` | the tables with their constraints, the bucket, the clock, the requests in flight, failure (`Reject`) |
| `Incidents`, `Attachments`, `Handlers`, `Messages`, `IncidentAuth` | one service each; one action per awaited call |
| `CaseSystem` | their composition, the properties, the fairness, the mapping to `CaseBook` |
| `CaseBook` | the abstract specification: a book of reports |
| `CaseInvariant` | the inductive invariant |
| `CaseProofs`, `AssignmentProofs` | theorems and proofs; counting is in the second one |
| `ReporterSystem` | `CaseSystem` with a history: the reporters who came too late |
| `ReporterProofs` | the theorem about it |
| `MCCases`, `MCReporters` | instances for TLC |

A request `r` is at step `pc[r]` of operation `op[r]`. `XArrives` actions start
a request with inputs a client may send; every other action is one awaited call
together with the code up to the next one. `target`, `files`, `todo`, `staff`
and `cred` are the locals of the handler. State and code correspond so:

| Variable | Code |
|---|---|
| `life`, `code`, `author` | `Incident` rows: existence, `incidentIdDisplay`, and whose secret code `secretCodeHash` is the hash of |
| `saved`, `posted`, `assigned`, `auditLog` | `Attachment.incidentId`, `Message.incidentId`, `incident_handlers`, `AuditLog` |
| `keyOf`, `bucket`, `now` | keys computed in `R2Service.uploadFile`, the bucket, `Date.now()` |
| `mailbox` | assignment mails sent |

Abstractions, and why they are harmless for the properties:

- Columns nobody decides on (status, category, dates, contents, `uploadedBy`)
  and the companies a report belongs to are left out. Ids the database
  generates are never used twice.
- A `findUnique` whose answer the next statement establishes again (a foreign
  key, a `where` on the same row) is not a step of its own: if the row is gone
  the statement rejects, as the check would have thrown.
- A statement the database refuses cannot be taken; the request can then only
  `Reject`. Validation errors, expired tokens, time-outs and crashes are
  `Reject` too. A crash is `Reject` of all requests, one after the other: they
  do nothing else in between that they could not do without a crash.
- `login` of `incident-auth` reads the report by its id (`Issue`) and then signs two
  tokens, which reads nothing but takes awaited calls (`Sign`): a report that is
  deleted between the two has tokens signed for it all the same.
- In the sequential upload loop of `createIncident` and `updateIncident` the
  computation of a key and the put are one step: no other code of the request
  runs between them, and a put that fails after all leaves what an object
  without a row leaves. In `uploadNewAttachments` they are separate: all keys
  are computed first, from one reading of the clock, and each put lands on its
  own (`PutLands`), also after the request has failed.
- Of a secret code only identity matters: it is fresh for each report, since
  two reports that share both codes are told apart by nothing in the program.
  Display codes are drawn from a small set and do repeat.
- `deleteIncident` loops with `for (const key in keys)`, so what it passes to
  R2 is an array index: `ArrayIndex`, which is the key of no upload.

### 2.2 The account system

`AccountStore` holds users, invite tokens and mails; `Users`, `Invites` and
`Sessions` are the services, `AccountSystem` composes them and states the
properties, `InviteBook` is the abstract specification of invites,
`MCAccounts` instantiates them, `AccountInvariant` and `AccountProofs` hold the
inductive invariant and the theorems. No handler of one of the systems decides
on a column that a handler of another one writes, so they are checked apart. The
one row they share is that of a user, and its columns are told apart: the company
that `createUser` and `updateUser` write with the rest of their bodies is the
`Hire` and `Move` of `Companies`.

| Variable | Code |
|---|---|
| `status`, `password`, `role` | `User.status`, the password whose hash is in `User.password`, `User.role` |
| `renewable` | users whose `User.refreshToken` accepts their tokens |
| `holder`, `used`, `expired` | `InviteToken.userId`, `.used`, `.expiresAt` in the past |
| `mailed` | tokens in an email |
| `source`, `claim` | the sign-in whose token a request carries, and the role in its payload |
| `need` | the roles that `@Roles` of its route names |
| `held` | history: roles the account had while a sign-in was under way |

`renewable` is a set of users and not of tokens because bcrypt compares 72
bytes, and two tokens of one user agree in these. `verifyInvite` looks the user
up without awaiting the answer, so its check for a missing user never fires;
user rows are never deleted, which makes it moot. A guarded route that is not
one of the modelled operations is a `call`: what counts is whether the guards
let it pass. The administrators of the modelled operations are taken as people
the guards let pass. An expired token is `Reject`. `Bodies` are the bodies an
instance considers.

`@IsOptional` lets a JSON `null` through for any field of an update, and `updateUser`
writes what the body has (`users.service.ts:176`): a null status, role or password
leaves the column NULL (`Overwrite`). The empty password is not hashed but
stored as it is; no password matches it, so it is the same `Null`.

Left out: names, changes of the email address, and `incidentInvite`, which has no
caller.

`InviteBook` knows links and visits: a link is sent to one person; a visit
opens it while it is unspent, is admitted before it lapses, spends it, and only
then joins. `AccountSystem` maps a verification to a visit (`Stage`): it has
opened the link when it has read the row of the token as unused, and joins when
it has activated the user. The book lets visits overlap, because the code does;
that one of them wins is what `usedonce` refutes.

### 2.3 The directory of companies

`DirectoryStore` holds companies, pages, categories, logos and the company of
each user; `Companies` and `Categories` are the services, `DirectorySystem`
composes them, `MCDirectory` instantiates them, `DirectoryInvariant` and
`DirectoryProofs` hold the inductive invariant and the theorems. Categories are written by
`CompaniesService` one by one and by `CategoriesService` in bulk, and both are
in `Categories`.

| Variable | Code |
|---|---|
| `name`, `logo` | `Company` rows: `name`, `logoKey` |
| `page` | `ReportingPage` rows, by company, with `reportingPageUrl` |
| `owner`, `label` | `Category.companyId`, `.categoryName` |
| `member` | `User.companyId` |
| `objects` | keys of logos in the bucket |
| `oldKey`, `newKey`, `known` | what a handler has read or got, and uses after an await |

Behaviours start from any tables that earlier requests may have left (`Found`),
so that a bound on requests is spent on the ones that meet. The transaction of
`editCategories` checks the unique index after each of its
updates, in the order of the list (`UpdateCategories` looks for an order that
passes). An update of a page leaves an address alone that its body leaves
out, and takes it away for a null. `addUsersToCompany`, `createUser` and `updateUser`
all write `User.companyId` (`MembersConnect`, `Hire`, `Move`). Ids of new categories come from the client in a bulk edit and from the
database otherwise, so a deleted id may come back. All logos have one file name
here, so a key is a reading of the clock, and two uploads may share it; the
clock is read nowhere else, and moves, or does not, when an upload reads it. Titles
and texts of pages, SLA days and logo URLs are left out.

### 2.4 Listings

`Listings` models the seven paginated reads, `ListingSystem` adds the history
its properties speak of, `MCListings` instantiates them, `ListingInvariant` and
`ListingProofs` hold the inductive invariant and the theorems. The reads differ in
few ways, so each is a record named as its method: whether the `where` clause names the
owner (`scoped`) and a search text (`searched`), whether there is an `orderBy`
(`ordered`), and whether the two statements are awaited inside the list given to
`Promise.all`, one after the other, or sent together (`awaited`). `Find` and
`Count` are the two statements; `Start`, `NextPage` and `LastPage` are a client,
which is external, that reads page after page up to `totalPages`; `Insert`,
`Delete`, `Move` and `Edit` are what the other services do to the table in
between.

| Variable | Code |
|---|---|
| `kind`, `limit`, `searching` | the route, `limit` and whether `search` is given |
| `created`, `mine`, `hits`, `now` | rows with `createdAt`, those of the owner, those the text matches, the clock |
| `page`, `todo`, `total`, `shown` | the request in flight and the answers so far |
| `stayed`, `added`, `removed`, `decided` | history of the walk |

The `createdAt` of a row is taken before its insert commits, so a row may
appear behind newer ones (`Insert`). Rows of one millisecond come in any order, and the rows of a handler's incidents
in any (`Pages`). Nothing can be promised then, so a walk on which luck decided
ends (`decided`). A change of a company's name that moves several rows into a
search is as many single edits. Totals, lists without pages and reads of one row
are left out: each is one statement.

## 3. Runs

All runs bound the number of requests (each request is used once) and the sets
below; `CHECK_DEADLOCK FALSE` because a run ends when its requests are used up.
Requests, rows, codes, handlers and the files that are not empty are
interchangeable, so the passing runs of invariants and of `InvitationsSpec`, none
of which names a particular request or token, use symmetry; `book` and
`categories`, whose properties follow single requests through time, do not.

| Run | Bounds | Checks |
|---|---|---|
| `evidence` | 3 requests, 2 incidents, 3 files of one name (one empty), 2 clock readings; create, update, attach, delete | `RowsHaveObjects`, `EvidenceIntact`, `AnsweredIsStored` |
| `cases` | 5 requests, 2 incidents, 2 handlers, 1 display code; create, assign, assignMany, deassign, delete, message, login, refresh | `TypeOK`, `StoreConsistent`, `AssignedStay`, `AssignedOnce`, `CredentialsFindReport`, `SessionsMatchCredentials`, `LateGetNoTokens` |
| `book` | 3 requests of all operations, 2 incidents, 2 files (one empty), 1 handler, fair | `BookSpec` (refinement), `EveryRequestIsAnswered` |
| `accounts` | 4 requests, 1 user, 2 tokens, 2 passwords; create, update (also with nulls), deactivate, invite, reset, verify | `TypeOK`, `InvitedWasMailed`, `ActiveHasCause`, `JoinedIsActive`, `PasswordHasCause`, `InvitationsSpec` (refinement) |
| `sessions` | 5 requests, 1 user, 1 password, 2 roles; create, update, login, refresh, guarded calls | `SessionsHaveCause`, `ClaimsAreRecent`, `CallsAreBacked` |
| `companies` | 3 requests, 2 companies, 2 names, 1 category, 1 address, 1 user, 3 clock readings; all of `Companies` but the updates of pages | `TypeOK`, `AnsweredIsDone`, `LogoIntact`, `CreatedWhole` |
| `categories` | 2 requests, 1 company, 2 categories, 3 labels, 1 address; creation, updates of pages and all of `Categories` | `AnsweredIsDone`, `AddedStays`, `RefusedEditLosesNothing`, `EditedIsStored` |
| `listings` | 3 rows, all listings, page sizes 1 and 2, 3 changes during the walk | `TypeOK`, `MissesAtMostRemoved`, `RepeatsAtMostAdded` |
| `erased` | 2 requests, 1 incident, 2 files | `DeletedEvidenceIsErased`: violated |
| `usedonce`, `refusal` | 4 and 3 requests, 1 user, 1 token | `InviteUsedOnce`, `RefusedInviteSetsNothing`: violated |
| `ownincidents` | 3 rows, page size 2 | `ShowsOwnIncidents`: violated |

Why the bounds are enough to be interesting. `evidence`: two files with one
name in one tick share a key, and two ticks let the same files have different
keys; an empty file is the one that `uploadNewAttachments` does not upload and whose
rows the database then refuses, after the others have landed; three requests are a report, an upload into it and its
deletion, or a second report. `cases`: one display code forces its reuse after a deletion, and
five requests are two reports, a deletion and two sessions between them, or a
report, two assignments, a release and a deletion; a reporter who is late needs a
report, its deletion and a login, or a login, a renewal and the deletion between
them. `accounts`:
an account, two tokens and a verification, or an administrator in between, or
two verifications of one token; an answered verification, and an invite or
an update over it;
requests of different users touch no common row, so one user is the
interesting case. `sessions`: an account, a login, a change of its role that
falls into the login or behind it, a renewal and a call. `companies`: two
companies are needed for one page address to
be wanted twice and for one user to be wanted by both, three requests for a first
logo and two updates that overlap; one category is enough for the default that a
creation adds. What updates of pages add is in `categories`.
`categories`: a bulk edit of two categories can update one, insert one, delete
one, or swap two labels, which the database refuses; every list is tried from
every table, alone and beside one other request. `listings`: three rows on
pages of one or two are up to three pages; three changes can push a row forth, pull one
back, and do one of them again. The proofs below remove the bounds from every property that
holds, except the liveness property.

Fairness. `book` assumes `WF_vars(Settles(r))` for each request: an awaited
call settles, that is, the next step is taken or the call rejects. Clients, the
database and R2 give no more, and no less: their drivers time out. It is not
assumed that a request arrives, that an upload of a failed request lands, or
that the clock moves. What the property shows is that the loops over files make
progress with every round, also in the presence of the others.

What the listings promise is less than every row once. A walk may miss a row for
each one that left meanwhile and repeat one for each that came. In the two
listings that send rows and count together (`getCompanyAuditLogs`,
`getHandlerIncidents`) the count may be older than the rows, and a row that came
meanwhile can hide the last page as well; the bound in `MissesAtMostRemoved`
says so.

### What the violated properties show

- `erased`: `deleteIncident` says "delete remote assets"
  (`incidents.service.ts:323`) and loops over array indexes; every object of
  a deleted report stays in the bucket.
- `usedonce`: two verifications of one invite both succeed, because the flag is
  read at the start and marked later (`invites.service.ts:178`, `:183`).
- `refusal`: a verification answered "Invite token has expired" has set the
  password all the same (`invites.service.ts:165`).
- `ownincidents`: "get a company's incidents" looks the company up and lists
  the incidents of all (`companies.service.ts:555`).

## 4. Proofs

Every property that a run finds to hold, except `EveryRequestIsAnswered`, is a
theorem for any sets of requests, rows, files, names and so on, finite or not.
The only assumptions are those the specifications make of their constants:
`StoreAssumption`, `AccountAssumption`, `DirectoryAssumption`,
`ListingAssumption`. They say which type a constant has, that `None` and its like
differ from the values they stand beside, and, for the listings, that
a page has between 1 and 100 rows, which the DTOs enforce.

In each system a first inductive invariant says which handler a step belongs to
and what a request has in hand there; TLC agreed with each part on the instance
before it was proved. What the other properties need on top is below.

### The case system (`CaseProofs`, `AssignmentProofs`, `ReporterProofs`)

| Theorem | Statement |
|---|---|
| `Typing` | `Spec => []TypeOK` |
| `EvidenceInvariant`, `ReportsInvariant` | the inductive invariants |
| `RowsKeepTheirObjects`, `EvidenceStaysIntact` | `RowsHaveObjects`, `EvidenceIntact` |
| `StoreStaysConsistent` | `StoreConsistent` |
| `AnswersAreTrue` | `AnsweredIsStored` |
| `CodesOpenTheReport`, `SessionsKeepToTheirReport` | `CredentialsFindReport`, `SessionsMatchCredentials` |
| `LateReportersGetNothing` | `ReporterSpec => []LateGetNoTokens` |
| `AssignmentsLast` | `AssignedStay` |
| `AssignmentsAreUnique` | `AssignedOnce` |
| `ServicesKeepTheBook` | `Spec => BookSpec`, the refinement |

`RowsHaveObjects` is not inductive: a row is written long after
its key was computed, and other uploads may hold the same key. What carries it
is `EvidenceInv`: a file is sent by one request (`FilesOK`); which of a
request's files have keys follows from the step it is at (`KeysOK`); an object
lies under the key of its own file, and a key that was given out holds an
object or has an upload under way (`BucketOK`); no row is written while an
upload of its file is under way (`RowsOK`). A colliding upload replaces an
object by another one, so `RowsHaveObjects` survives, and `EvidenceIntact`
needs the absence of a clash. `ProgressOK` adds what the loops have done for
reports that still exist, and gives `AnsweredIsStored`; `ReportsOK` adds that
each report has one author, and live reports have distinct codes, and gives the
properties of reporters. The refinement maps the tables onto the book:
`pledged` is what the creating request carries, and a report is acknowledged
when that request has answered; its hard step is `Audit`, which needs
`ProgressOK` to know that every pledged file is on record.

`AssignedOnce` compares two numbers of requests, and requests need not be
finitely many. `TallyOK` therefore carries that the sets it counts are finite:
a step puts at most one request into one of them.

`LateGetNoTokens` speaks of a deletion between the two reads of a login, or
before them, and the tables do not say when it was. `ReporterSystem` adds
the one history variable it needs, `late`, to the specification as it is
(`ReporterSpec => Spec`). A deletion between the last read and the
signing is not late: the program signs then. That a late request signs
nothing needs `ReportsOK`: the display code of the deleted report may have gone to another
report, whose secret is another one. `LateOK` says that a late request asks for
a report that is gone and stays gone, or has failed.

### The account system (`AccountProofs`)

| Theorem | Statement |
|---|---|
| `AccountTyping` | `Spec => []TypeOK` |
| `AccountsInvariant`, `OriginInvariant` | the inductive invariants |
| `InvitedWereMailed`, `ActivationsHaveCause` | `InvitedWasMailed`, `ActiveHasCause` |
| `PasswordsHaveCause` | `PasswordHasCause` |
| `JoinersAreActive` | `JoinedIsActive` |
| `SessionsGoBack` | `SessionsHaveCause` |
| `ClaimsStayRecent`, `GuardsAreBacked` | `ClaimsAreRecent`, `CallsAreBacked` |
| `InvitesKeepTheBook` | `Spec => InvitationsSpec`, the refinement |

A token is of one account from the moment it is drawn, so the step of
a verification says whose row it has read and whether the token is spent
(`TokensOK`). What an answered request wrote is still in its body, so a status or
a password in the table points to the request it is from (`StatusWritten`,
`PasswordWritten`); a later request can only replace the cause together with the
value. That a password which was set is still there, or another one, or was
taken away by an update with a null (`Cleared`), is kept because no other statement
writes NULL into the column. An accepted invite leaves the account ACTIVE until
one of the `Overrulings` has answered, and these are never taken back. For sessions, `OriginOK` follows the token a request carries
back to the login that started it, and `HeldOK` keeps a claim within what the
account had since the sign-in read it. The refinement maps a verification to a
visit of a link by the step it is at (`Stage`); each step of
`verifyInvite` moves its own visit by one, or not at all, and every other handler
leaves visits alone, except that it may send a link or let one lapse.

### The directory (`DirectoryProofs`)

| Theorem | Statement |
|---|---|
| `DirectoryTyping` | `Spec => []TypeOK` |
| `DirectoryInvariance` | the inductive invariant; `LogosInvariance` that of logos |
| `AdditionsLast`, `RefusalsLoseNothing` | `AddedStays`, `RefusedEditLosesNothing` |
| `LogosStayIntact` | `LogoIntact` |
| `AnswersAreDone` | `AnsweredIsDone` |
| `CompaniesAreWhole` | `CreatedWhole` |
| `EditsAreStored` | `Spec => EditedIsStored` |

Labels and companies of categories come and go together (`LabelsOK`), and
a category goes only by a request that may delete it (`Deletes`), which it then
remains. A key in a row was drawn and saved by an update (`OriginOK`), and an
object is deleted only by an update that has read its key and will replace it or
has failed (`ObjectsOK`), which is all that `LogoIntact` allows. What an answer
has said of pages and the audit log stays, a logo is replaced only by another update
(`PagesOK`, `LogosOK` and their like), and a user is where the last of the
answered `addUsers`, `createUser` and `updateUser` has put it (`MembersOK`), since
each of them writes the column with its last statement. A company
without a page is one whose creation is between its two
statements, or failed there, which is kept because no page row is ever deleted.
`EditedIsStored` says of an edit that starts while nobody else is at work, and is
not joined by anyone, that its list is stored. As a formula it is of the form
`[](A => []B)`, which is safety: for each request `r` and each set `S` of requests
that have started, `EditAlone(r, S)` is kept by every step from the
moment the edit arrives, and says what the three statements have done so far as long
as `S` has not grown.

### The listings (`ListingProofs`)

| Theorem | Statement |
|---|---|
| `ListingTyping` | `Spec => []TypeOK` |
| `ListingInvariance` | the inductive invariant |
| `WalksMissLittle` | `MissesAtMostRemoved` |
| `WalksRepeatLittle` | `RepeatsAtMostAdded` |

The bounds at the end of a walk say too little about its middle. The invariant
states them for every place `t` in the order at once, by the rows in front of it
(`InFront(t)`): those that were missed are at most as many as were removed, or
the walk has not come to the place yet (`MissesOK`); those behind it that were
shown, and will be again, are at most as many as were added, or the walk is past
the place (`RepeatsOK`). A row that comes or goes moves each front by at most
one (`FrontsMove`), which is what `added` and `removed` grow by. When a page is
read and the order decides it, it is exactly what comes after the pages before it
(`PageIsNext`): two rows on either side of the end of a page that could change
places would make another answer (`NeighboursDiffer`). `CountOK` carries what the count, read at
another time, says of what is left once it makes a page the last one.

### What is only model-checked

`EveryRequestIsAnswered`, a liveness property under fairness. The properties of
the four violated runs are refuted by TLC, and there is nothing to prove of them.

## 5. Not modelled, and plan

Not modelled, and why:

- The generated Prisma client (`src/src/generated`) is more than four fifths of
  the implementation's lines and has no behaviour of this program's own: its
  statements are modelled by what the database does with them, from
  `prisma/schema.prisma`. A share of all lines therefore says little; of the
  hand-written code what is left is mostly imports, DTOs and reads.
- DTOs and pipes keep no state and decide only whether a request reaches its
  handler; what they let through bounds the inputs the models enumerate.
- Reads of one row, lists without pages and totals: one statement each, which
  answers from one state of the tables.
- Email templates, configuration, `main.ts` and modules: no run-time state. The
  mail server is a step that delivers or rejects.
- The answer itself: a request that has done its last statement is `ok`, and
  whether its answer arrives changes nothing on the server. A client that
  repeats a call makes a new request.
- Mails of assignments that were rejected after the row was committed, and
  columns a DTO allows but no table has: there is nothing in the code that
  says what should hold.

Plan:

1. An abstract specification of categories (a list that is replaced as a whole,
   or item by item) that bulk edits implement when they do not overlap.
2. Theorems that say which hypotheses the violated properties lack: that an
   invite is used once when its verifications do not overlap, and that a refused
   one sets nothing unless the token is spent or lapses after it was read.
3. For the counts of `LastPage`: how far `totalPages` may lie from the pages
   there are, in terms of the changes between the two statements.
