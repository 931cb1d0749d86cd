# A TLA+ model of auth-service-go

auth-service-go is an HTTP service in Go in front of one PostgreSQL database. It
creates accounts, signs users in (with a password, with a code sent by mail, with
Google), hands out pairs of a signed access token (JWT) and an opaque refresh
token, rotates and revokes refresh tokens, and grants roles. This directory holds
TLA+ modules translated from its source, the TLC runs that check them on small
instances, and TLAPS proofs for every value of the constants.

Paths below are relative to the root of the repository's source; `usecase/` stands
for `internal/usecase/`, `handler/` for `internal/adapter/http/handler/`, and
`postgres/` for `internal/adapter/postgres/`.

## The system

| Component | State | Operations | What makes it correct |
|---|---|---|---|
| Sessions: `usecase/login.go`, `refresh.go`, `logout.go`, `add_role.go` and their handlers | table `refresh_tokens`, column `users.roles`, the tokens clients hold | login, refresh, logout, add role | a session belongs to who authenticated; a replaced or logged-out token never works again; no refusal without a reason; claims never exceed the account's roles |
| Passwordless sign-in: `usecase/request_code.go`, `verify_code.go` | table `verification_codes`, mails under way | request a code, verify it | only the newest code counts; wrong guesses are counted; a code opens a session for its own mailbox only, once |
| Accounts: `usecase/register.go`, `bulk_create.go` | table `users` | register, create in bulk | one account per mailbox; who was told "created" keeps the account; reports tell the truth |
| Repositories and schema: `postgres/`, `migrations/` | the three tables | one SQL statement per method | each statement atomic, `email` unique |
| Tokens: `internal/adapter/jwt/issuer.go`, `verifier.go` | none | sign, verify, hash | an access token is honoured for its lifetime and no longer |
| Router and middleware: `internal/adapter/http/` | none | dispatch, `RequireAuth`, `AdminAPIKey` | errors map to the right status |
| Google sign-in: `usecase/*google_oauth.go`, `oauth_state.go`, `internal/adapter/oauth/` | none on the server, the state travels signed; the codes of Google | start, callback | a code is spent only with a recent state of the service's own; a session only for the verified address; one account per mailbox |
| Key pair: `internal/adapter/jwt/keys.go`, `jwks.go` | two key files, the key in memory | load or generate, publish | a restart finds a usable pair, and the same one |
| Process: `cmd/auth-service/main.go` | the goroutine of the HTTP server, the requests in progress, the connection pool | start, serve, drain, stop | requests are served only between start-up and signal; a drain is honoured; a signal stops the process |
| Configuration, logging, tracing, metrics, health, mail text | none that others read | | not modelled |

**How they interact.** Every request runs in its own goroutine: the router hands it
to a handler, the handler decodes and validates the body and calls one use case,
and the use case calls the repositories, one SQL statement each. There are no locks
and no in-memory state shared between requests: the components meet in the tables.
`users` is written by registration, bulk creation, passwordless and Google sign-in
and add role; `refresh_tokens` by everything that ends in `issueTokenPairFor`
(`usecase/login.go`), by refresh and by logout.

**What is hard.** No use case opens a transaction, so everything it read may be out
of date when it writes. A statement may fail at any point and leave the earlier
ones of the same use case done; its acknowledgement may be lost after it committed;
the process may die between any two. Clients retry and send the same token or code
at the same time. Expiries use different comparisons and different precision.
`PROJECT.json` lists these hazards at the lines where they bite, with the properties
that guard them.

## The modules

| Module | Models |
|---|---|
| `Service` | what all use cases share: requests, the tables `users` and `refresh_tokens` with their statements, `issueTokenPairFor`, the clock, failures and crashes |
| `Sessions` | login, refresh, logout, add role; extends `Service` |
| `TokenLedger` | abstract specification of refresh tokens: absent, live, revoked for good, succeeded only when revoked |
| `Passwordless` | request code, verify code; extends `Service`, adds `verification_codes` and the mail |
| `GoogleSignIn` | the two Google routes; extends `Service`, adds the authorization codes and what Google knows of them |
| `Accounts` | register and bulk creation; extends `Service`, adds the report of a batch |
| `AuthService` | the composition: all ten routes of the API over the same tables; extends the four modules above |
| `Cancellation` | `AuthService` with the context of each request, which its client ends by leaving: what then returns, and what does not |
| `KeyPair` | `LoadOrGenerateKeyPair`: the two key files and the steps that look at, read and write them |
| `Server` | the life of the process, `run()` of `cmd/auth-service/main.go`; extends `KeyPair` |
| `MCSessions`, `MCPasswordless`, `MCAuthService` | the instances for TLC: nothing but symmetry sets and one view |
| `ServiceProofs` | lemmas about `Service`: its operators, and what each shared statement does to the tables |
| `SessionsProofs`, `SessionOwnerProofs` | the theorems about `Sessions`; the second extends the first |
| `PasswordlessProofs` | the theorems about `Passwordless` |
| `AuthProofs` | the theorems about accounts and sessions in the composition `AuthService` |
| `GoogleProofs`, `AccountsProofs` | the theorems about `GoogleSignIn` and `Accounts` in that composition; both extend `AuthProofs` |
| `ServerProofs` | the theorems about `Server` |

`Service`, with the modules that extend it, is about what requests do to the tables;
there a process that dies and is started again is one action, `Crash`. `Server` is
about that process, and a request is there only what may be in progress. They meet in
two places: `Crash` and `StatementFails` allow a request everything that `Server` can
do to it (`Die`, and a database closed under it), and `KeysOutliveRestarts` justifies that
`Service` lets an access token verify after a crash.

### State and actions

`pc[r]` names the statement request `r` sends next; `op`, `arg` are its route and
decoded body, `loaded` the `domain.User` its use case holds in memory, `out` what the
use case returned. An action is **one SQL statement with the local computation that
follows it up to the next one**: `RefreshFind`, `RefreshLoad`, `RefreshRevoke` and
`Issue` are the four statements of `RefreshAccessToken.Handle`, and requests
interleave between them as they do in the service. The `Arrive...` actions stand for
the router, the middleware and the handler up to the first statement, the `...Status`
operators for the handler's answer. `map` in `PROJECT.json` gives the lines of each
definition.

What the model takes for granted, and why:

- *Fresh names.* `uuid.New()`, the random token values and RSA keys do not repeat, so a
  row is named after the request that created it (`<<r, i>>` for the i-th user of a
  batch), and so is the state signed by a Google start. A token, its hash and its row
  are one value. Verification codes do repeat: they are members of a small set, and a
  guess may be right by luck.
- *Addresses* are a mailbox and whether the spelling is in lower case;
  `normalizeEmail` changes the spelling, and a mailbox typed in any case must lead to
  the same rows.
- *Failures.* Any statement may fail without effect (`StatementFails`,
  `RegisterFails`), or commit and be reported as failed (the `"failure"` disjunct of
  every writing action). Sending mail may fail after delivery. `Crash` ends all
  requests in progress and keeps the tables; later arrivals are those of the
  restarted process, which finds the same key files.
- *Time* advances in ticks; `TicksPerSecond` separates the clock's precision from the
  whole seconds of the `exp` claim. A check of the clock happens together with the
  SELECT before it, and the readings of `issueTokenPairFor` together with its INSERT.
  `created_at` of a code is the time of its request's arrival, before the INSERT, as in
  `usecase/request_code.go`; rows with equal `created_at` come back in either order.
- *Google* (external) gives a token for an authorization code once, and its identity
  endpoint tells the address of whoever consented and whether it is verified. Either
  answer may be lost, or come after the ten seconds of the HTTP client
  (`ExchangeCodeForToken` spends the code and fails). A client may present any state it
  was given with any code, again and again.
- *Files.* `os.WriteFile` is two steps, `OpenFile` (the file is created or emptied) and
  `WriteFile`; the process may end, or the disk fail, between them. Such a file (`Torn`)
  exists and does not decode. A public key file that is torn is never noticed: the code
  reads only the private one. `Lose` deletes a file at any time. `fileExists` answers
  "no" for a file that is there when `os.Stat` returns an error for it (`unseen`), and
  the pair is then generated anew over the old one; `overlooked` counts how often that
  happened to a pair of which no file was missing.
- *Contexts.* Every handler passes `r.Context()` down to the repositories and to the
  calls to Google. `ClientLeaves` cancels it, as net/http does when the connection of a
  request whose body was read is closed: the call in progress may still have its effect,
  and the later ones return an error (`ContextError`), the check before `smtp.SendMail`
  included. `smtp.SendMail` itself takes no context.
- *What cannot happen* has no branch: no statement deletes users or tokens, so the
  owner of a stored token is found and `AddRole` finds its row.
- `before` and `at` are history variables: which requests had ended, and what the
  clock showed, when a request arrived. They let a property say "in sequence".

## What the runs check

Each run is small but has two to four requests in progress at once, which is what
every hazard of the list needs: one request to create a token, code or account and
two to race for it. Deadlock is checked in every run; `Quiescent` and `Exhausted` let an
instance stop only when all requests have been answered and the clock is at `MaxTime`,
and when the process is down and no fresh key is left.

| Run | Instance | Shows |
|---|---|---|
| `sessions` | 3 requests on the four routes, an account with one of 2 passwords or none and a mailbox without account, 2 ticks to a second, tokens that expire within the clock | `OwnerAuthenticated`, `LoginRefusalJustified`: who gets a session and who is refused. `RotationRevokesPresented`, `RotatesOnlyLive`, `FirstUseNotRefused` and the refinement `ImplementsTokenLedger`: what a refresh token is good for. `ClaimsWithinRoles`, `GrantedRolesClaimed`, `BearerLifetime`: the same for access tokens, whose roles are neither more than the account's nor fewer than it had been granted when the request arrived. `SessionsTypeOK` |
| `passwordless_lockout` | 4 requests on one mailbox, limit 2 | `LockoutHolds`: a guess is compared only while fewer than the limit were answered as wrong before it arrived. `RedeemedCodeRefusedLater`, `PasswordlessTypeOK` |
| `passwordless_expiry` | 3 requests, codes that live 1 of 2 ticks, any case, a mailbox without account | `SupersededCodeRefused`, `MailedCodeAccepted`, `TokensOnlyForRedeemedCode` |
| `google` | the two Google routes of `AuthService`: 3 requests, 2 codes, 2 mailboxes without account, states that live 2 of 3 ticks, 2 ticks to a second | `StateGatesExchange`, `GoogleSessionOwner`, `GoogleRefusalJustified`, `GoogleTypeOK` |
| `auth_signins` | any 4 requests on nine routes, 2 mailboxes without account | `OneAccountPerMailbox` with three kinds of creators, `CreatedIsKept`, `SessionOwnerProven`, and `AccountsPersist`: no step of any route undoes what is stored of an account |
| `auth_routes` | `Cancellation`: any 2 requests on all ten routes, batches of up to 2 users, a mailbox with an account and one without, clients that leave at any moment | `ConflictJustified`, `BatchAccountedFor`, `AccountsTypeOK`, and `AbandonedRequestsEnd`: on every route and at every statement, the mail excepted, a request whose client has left ends |
| `server` | 3 keys, 2 lost files, any error of `os.Stat`, a drain of 2 ticks, 2 requests | `KeysOutliveRestarts`, `UnreadableOnlyAfterLoss`, `DrainHonoured`, `StopsWhenTold`, `ServerTypeOK` |

Symmetry is used on requests (nothing orders them), codes, passwords and mailboxes
that all start without account (only compared for equality), never in a run with a
liveness property. `auth_signins` also has a `VIEW`, which drops from the state what no
action and no property of that run reads: history, what an ended request kept in
memory, and the whole request once it has ended unsuccessfully without a token row.
Nothing asks again for the arguments of such a request: states, tokens and
successful answers are kept, and so are the rows it wrote.

The bounds are the constants of the `.cfg` files: `Requests`, `MaxTime`, `MaxBatch`
and the small sets. A longer clock adds nothing once every token or code of the
instance can be issued, used and expired; a third racing request is covered where
counting matters (`passwordless_lockout`). Three keys are enough for a first one and for
one more after each of two mishaps, lost files or pairs that were overlooked.

### Where the code does not do what the repository says

Five runs end in a counterexample on purpose; the findings in `PROJECT.json` quote
the lines.

- `sessions_single_use`: two refreshes with one token both pass `IsValid` before
  either revokes it, and both hand out a pair. `RotatesOnlyLive` is what does hold:
  replay after the first use has ended is refused.
- `sessions_logout`: a logout whose statement fails is answered 204.
- `passwordless_attempts`: concurrent wrong guesses all read the counter before any
  increments it, so a code takes more than `maxVerificationAttempts`. `LockoutHolds`
  is what does hold.
- `passwordless_redeemed_once`: two verifications with the right code both get a
  pair. `RedeemedCodeRefusedLater` is what does hold.

- `google_state_used_once`: a state completes two sign-ins, each with a code of its own;
  the nonce that a test calls the protection against replay is never compared. What
  does hold is `GoogleSessionOwner`: a code, and so a consent, opens at most one session.

The `server` run says the same of the key files, by counting instead of by a
counterexample: the comment of `LoadOrGenerateKeyPair` accepts that sessions become invalid
"if the key file is ever lost", but they do too when `os.Stat` fails on a file that is
there, and `KeysOutliveRestarts` holds only because it charges those errors
(`overlooked`) beside the losses.

### Fairness

A request has no time limit of its own. The server sets no timeouts
(`cmd/auth-service/main.go:134`), the statements have none, the calls to Google have ten
seconds (`internal/adapter/oauth/google.go`), and `smtp.SendMail` has no deadline at all
(`internal/adapter/mail/smtp_sender.go:38`). So nothing is assumed of a step of a request
whose client waits. What the code does guarantee is that a call which was given the
request's context returns once that is cancelled: `WithContext(ctx)` in every method of
the repositories, `NewRequestWithContext` for Google. `CancellationSpec` therefore assumes
weak fairness of `Bounded(r) /\ Proceed(r)` only: the call in progress is `Interruptible`
and its context cancelled, or it was made with a context that had ended. A mail being
sent is not `Interruptible`, and `AbandonedRequestsEnd` excepts the request that is at it;
one for which the mail was not begun when the context ended is included. Nothing is
assumed of arrivals, of clients leaving, of the clock, of consents or of crashes. The
property says that no use case loops, waits for another request, goes on with the items
of a batch for ever, or makes a call that does not listen.

`ServerFairSpec` assumes weak fairness of `Main`, the steps of the main goroutine, and of
`Tick`, the clock behind the drain. The file system returns, the tracing has a timeout of
five seconds, and the `PingContext` of `postgres/db.go:21` listens to the context that a
signal cancels. The ping that `gorm.Open` makes by itself at `postgres/db.go:12` does not:
for a signal during start-up, `StopsWhenTold` rests on the assumption that the driver's
attempt to connect returns. Nothing is assumed of the requests, which may never end, a
mail that hangs included, nor of the goroutine of the server, of signals, kills or
starts: `StopsWhenTold` holds although a request hangs, because `Shutdown` has a
deadline.

## What is proved

Every safety and action property that a passing run checks is also a theorem, for
every value of the constants. They rest on these assumptions, which TLC evaluates in
every run:

- `ServiceAssumption`: the constants have their types and `Operations` are routes of the
  router; a request, a mailbox that owns an account from the start and an item of a
  batch are different names (`uuid.New()` does not repeat).
- `NoneAssumption`, and the parts about `None` of the others: `None` is none of the
  values it stands for the absence of.
- `CodesAssumption`: `verificationCodeTTL` is a natural number and
  `maxVerificationAttempts` a positive one. `GoogleAssumption`: `oauthStateTTL` is a
  natural number. `KeysAssumption`, `ServerAssumption`: the same for `Server`.

Nothing is assumed of how many requests, mailboxes, codes or passwords there are, nor of
how durations compare with one another or with the precision of the clock.

| Module | Specification | Theorem | Property |
|---|---|---|---|
| `SessionsProofs` | `SessionsSpec` | `SessionsTypeCorrect` | `SessionsTypeOK` |
| | | `RotationSafe` | `RotationRevokesPresented` |
| | | `ReplayInSequenceRefused` | `RotatesOnlyLive` |
| | | `SessionsImplementTokenLedger` | `ImplementsTokenLedger` |
| `SessionOwnerProofs` | `SessionsSpec` | `SessionsBelongToTheirOwner` | `OwnerAuthenticated` |
| | | `ClaimsNeverExceedRoles` | `ClaimsWithinRoles` |
| | | `GrantedRolesAreClaimed` | `GrantedRolesClaimed` |
| | | `BearersLiveTheirTime` | `BearerLifetime` |
| | | `LoginRefusesForCause` | `LoginRefusalJustified` |
| | | `RefreshRefusesForCause` | `FirstUseNotRefused` |
| `PasswordlessProofs` | `PasswordlessSpec` | `PasswordlessTypes` | `PasswordlessTypeOK` |
| | | `LockoutIsSound` | `LockoutHolds` |
| | | `RedeemedCodesStayRefused` | `RedeemedCodeRefusedLater` |
| | | `NewCodesRetireOldOnes` | `SupersededCodeRefused` |
| | | `MailedCodesWork` | `MailedCodeAccepted` |
| | | `TokensNeedTheCode` | `TokensOnlyForRedeemedCode` |
| `AuthProofs` | `AuthSpec` | `MailboxesHaveOneAccount` | `OneAccountPerMailbox` |
| | | `AccountsStay` | `AccountsPersist` |
| | | `SessionsAreOfTheProvenOwner` | `SessionOwnerProven` |
| `GoogleProofs` | `AuthSpec` | `GoogleTypes` | `GoogleTypeOK` |
| | | `HonestStatesSpendCodes` | `StateGatesExchange` |
| | | `GoogleSessionsAreOfTheVerified` | `GoogleSessionOwner` |
| | | `CallbacksRefusedForCause` | `GoogleRefusalJustified` |
| `AccountsProofs` | `AuthSpec` | `AccountsTypes` | `AccountsTypeOK` |
| | | `CreatedAccountsAreKept` | `CreatedIsKept` |
| | | `ConflictsAreReal` | `ConflictJustified` |
| | | `BatchesAreAccountedFor` | `BatchAccountedFor` |
| `ServerProofs` | `ServerSpec` | `ServerTypeCorrect` | `ServerTypeOK` |
| | | `LossesBoundOrphanedKeys` | `KeysOutliveRestarts` |
| | | `StartUpsLeaveReadableFiles` | `UnreadableOnlyAfterLoss` |
| | | `DrainsBeforeClosing` | `DrainHonoured` |

The theorems of the first three modules are about a component that runs alone, those of
the next three about all ten routes side by side.

### The arguments

**`SessionsProofs`.** `SessionsTypeOK` is inductive as it stands, because it carries for
each statement what the request has established before it (`Established`): one step per
action, with `EstablishedStands` for the requests that do not move. The two properties
of rotation follow from `SessionsInv`; neither is inductive alone. `RevokedFirst`
remembers, while a refresh is about to issue, that its token is already revoked;
`SpentIsRevoked` that a token rotated or logged out is revoked; `AcceptedInTime` carries
the outcome of `IsValid` across the statements between the check and the INSERT;
`Timeline` keeps the history variables behind the present. The common part of all steps
is `StepAdvances`: no step takes back a stored token, its revocation, its expiry or the
answer of an ended request. For the refinement, `Sessions` implements `TokenLedger` under
`ledgerStatus`, `ledgerParent`: an `UPDATE` of a live token is `Revoke`, an `INSERT` by a
login `Open`, one by a refresh `Succeed` (`RevokedFirst` gives its guard), and everything
else stutters, the repeated revocation included.

**`SessionOwnerProofs`.** `OwnerInv` adds to `SessionsInv` what the copy in memory means:
from its SELECT on, a request may issue only for the account whose credentials it was
sent or whose token it presented (`OwnerKnown`); the roles of that copy, and of a claim
made from it, begin the list in the row, which only grows (`CopiesBehind`); both tokens
of a pair count from one instant (`PairDated`); a token is revoked only by a request that
presented it (`RevokedByUse`), which is why the first use is not refused; and a refusal
was justified when it was made and stays so (`OutcomeKnown`). `GrantsInv` adds the other
half about roles: a grant that was answered is in the row for good (`GrantStored`), so a
copy read afterwards, and the claim made from it, lists it (`GrantSeen`).

**`PasswordlessProofs`.** `PasswordlessInv` follows a verification: the row in its hands is
of its mailbox, had not expired, and its code decides which statement comes next
(`Compared`); the row counts at least the failures that were answered (`CodeCounts`, the
part that needs cardinalities: one UPDATE per failure, none lost); and what the request
could not see when it arrived it did not overlook (`Foresight`): when it compared its
guess, fewer than the limit had failed, nobody had redeemed the row, and no newer code
had been stored. `RefusedForCause` keeps the reason of a refusal: the mailed code has
expired, is not the one typed, was tried by another verification, or a newer one was
asked for (`AskedSince`). The last part of `Foresight` is why an older one is no reason: the
row in hand is at least as new as any whose request had ended when the verification
arrived, in whichever order the rows were stored.

**`AuthProofs`.** With ten routes the steps are too many to look at once for each
property. Every step is shown to be `Onward` (accounts, tokens and consents stay; ended
requests do nothing), to leave the requests that do not move `Aside`, and to leave the
one that moves `Settled` (`Route`: at which statement of which route it is, and with which
body; `Owner`: whom it may sign for; `Fresh`: that the account it is about to create
does not exist). The families of actions have a lemma each (`Arrivals`, `SessionMoves`,
`CodeMoves`, `GoogleMoves`, `AccountMoves`, `OthersMove`), joined in `EveryStep`.
`AuthInv` is then inductive, and the three theorems follow from it and from `Onward`.

**`GoogleProofs`**, **`AccountsProofs`.** They reuse `EveryStep` and add one fact per
request. `Callback`: a callback that goes on came with an honest state, a user in memory
means that the code is its own and the address verified, and a refusal had its reason.
`Reported`: what has been said of each item so far is true, and since accounts stay,
remains so.

**`ServerProofs`.** `ServerTypeOK` and `DrainHonoured` follow from `ServerInv`. `PhaseInv`
says what each phase of `run()` has set up and that no request is in progress before the
select; `LeftInv` that whoever is in progress once `run()` returns had the full drain, or
the listener had failed. That is what the steps after the deferred `Close` rely on.
`UnreadableOnlyAfterLoss` follows from `FilesInv`: as long as the private file was not
lost and no pair overlooked, the public one never exists without a complete private one,
because the private one is written first; so a torn private file is always regenerated
and never read. For
`KeysOutliveRestarts`, `CostInv` keeps an account: every key that has signed or may sign a
token and that the files no longer hold (`Orphans`) has cost one mishap (`Mishaps`: a lost
file, or an error of `os.Stat` on a complete pair), and so will
the key of a start-up one of whose files is lost while it is written (`Doomed`).
`LoaderInv` is what it needs of the loader: its key is fresh, and the files hold that key
or none. `HistoryMoves` is the common part: a step of the process loads or generates,
forgets, loses a file, issues, or leaves keys and history alone.

### Only model-checked

`AbandonedRequestsEnd` and `StopsWhenTold`: liveness under fairness needs ENABLED, which the
provers do not handle. The properties of the five runs that end in a counterexample
are false of the code and have no theorem.

## What is not modelled

Configuration, logging, tracing, metrics and health endpoints keep no state that the
service's behaviour depends on. Cryptography is taken at its word: signatures cannot
be forged, hashes do not collide, bcrypt compares what it reads of a password. The
name of a user, the text of mails and errors, the redirect target carried by a state
and the encoding of keys are left out. `Recoverer` has no action because no modelled
step panics. The size of the connection pool is not modelled: a request that waits for
a connection is one whose statement has not run yet. A write that the operating system
had not brought to the disk when the machine lost power is not distinguished from a
file that was never opened or is torn.

## Plan

The components the code has are modelled, and the safety of each is proved. What could
come next:

1. The theorems of `Sessions` and `Passwordless` again for `AuthSpec`, with the other
   routes running beside them: `EveryStep` of `AuthProofs` already says what those other
   steps leave alone. `ClaimsWithinRoles` and `RotatesOnlyLive` first, since tokens issued by
   codes and by Google are rotated too; then `LockoutHolds`.
2. Abstract specifications of the other two tables, as `TokenLedger` is for
   `refresh_tokens`: accounts that are created once and only gain roles, codes that are
   mailed, guessed at and redeemed, each with its refinement by `AuthService`.
3. `Service` and `Server` joined by a refinement: that `Crash` and `StatementFails` are all
   that a life of `Server` does to a request.
