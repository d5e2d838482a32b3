# Treazrisland: models, checks and proofs

Treazrisland is a self-hosted retro-game library: a Fastify backend (`src/backend`), a Next.js
frontend (`src/frontend`), PostgreSQL through Prisma, Redis, and an S3-compatible object store.
The code is a set of request handlers and pages that each `await` several stores, with almost no
transactions, so what is hard about it is what happens *between* two awaits: other requests,
failures half-way, lost answers, closed tabs. These modules model that.

Everything runs in this directory: `tlasany M.tla`, `tlc -config X.cfg M`, `tlapm MProofs.tla`.

## 1. Inventory

| Component | State it keeps | Operations | Talks to | Hard part | What makes it correct |
|---|---|---|---|---|---|
| Refresh sessions (`auth/session.service.ts`, `modules/auth/session-store.ts`, `modules/auth/routes.ts`) | `Session` rows; `auth:refresh:<sid>` keys; the active-session gauge | login, refresh (rotate), sign-out; TTLs | PostgreSQL first, Redis when it fails; browser session | lookup and revocation are two awaits; the fallback store; restarts | a retired token is dead; one live token per login; a refusal is deserved; every request is answered |
| Magic links (same store, `login/page.tsx`, `magic-link/[token]/page.tsx`) | `auth:magic:<token>` keys; the page's status and its redirect timer | request, mail, consume; retry, redirect | Redis, mailer, login | read and delete are two awaits; several pages on one link; lost answers | a used link is refused; whoever signed in is taken on |
| Invitations, accounts, first admin (`modules/invites`, `auth/first-admin.guard.ts`, `cli/`) | `User`, `Invite` rows | issue, redeem, HTTP bootstrap, two scripts | PostgreSQL, sessions | check, create and mark are separate calls; only the unique email serialises | a reserved invite makes one account; HTTP bootstrap makes one admin; nobody gets in uninvited |
| ROM uploads (`modules/roms`, `admin/roms/upload/page.tsx`, `useRomUpload.ts`) | bucket objects; `Rom`, `RomAsset`, `Platform` rows; the page's file, checksum and stage | choose, hash, grant, PUT, direct fallback, verify, register, failure report | object store, PostgreSQL | a page that gives up or starts anew while the server and its own callbacks go on; two stores; unique checksum | a catalogued ROM keeps its file; failed uploads leave nothing; every upload ends; the page says what is true |
| ROM browsing, favourites (`rom.service.ts`, `useRomLibrary.ts`, the library and detail pages, `RomHero`) | `Favorite` rows; cached pages of the list; the star each view shows | list, find, toggle | PostgreSQL, save states (order) | toggle reads then writes; stars shown in several views; offsets move while a list is read | successes flip the star once each; a view at rest is true; no ROM is skipped |
| Save states (`save-state.service.ts`, `savestates/routes.ts`) | `SaveState` rows, objects | save, latest, by id | object store, PostgreSQL | upload, then upsert; order of two saves | each slot is an atomic register; an answered save is kept |
| Play session page (`play/[romId]/page.tsx`) | emulator handle, its timers, the window; in localStorage a local save per ROM, whoever plays | open, boot, save, load, upload the local save | save states, metrics | callbacks before the emulator is ready; what one page, or one player, leaves to the next | a ready game's save is that game's; the local copy follows the cloud |
| Browser session (`lib/authTokens.ts`, `apiClient.ts`, `SignOutButton.tsx`) | cached access token, shared refresh promise, localStorage, the cookie | get token, refresh, sign in, sign out, reload | refresh sessions | a refresh that outlives a sign-out; tabs share storage and cookie | a tab speaks for the account it signed in as |
| Profile and avatar (`modules/users`, `(auth)/profile`, `settings/profile`) | `User` columns, avatar objects, the forms' choice | read, update, avatar grant and upload | PostgreSQL, object store | read, then update; two pages that send different fields | the row agrees with itself and with the store |
| Onboarding wizard (`app/onboarding`) | step states in localStorage | complete, jump, hydrate | most of the above | progress is local and shared by tabs, steps end by timers and late answers | steps in order, none completed undeserved |
| Emulator configuration (`modules/admin`, `admin/emulator-config`) | one Redis key | verify and store, load | Redis, HTTP (the URL; for a loopback URL, then the container) | last writer wins; a form edited meanwhile | the stored URL was verified |
| Play metrics (`modules/metrics`, `useEmulatorMetrics.ts`) | a page's frame counter; Redis sums with a TTL | count, publish, add | Redis | one counter published by interval and unmount; keys expire | no frame counts twice; the global sum covers the ROMs' |
| Rate limits; exporters and logging | counters of libraries | | | | not modelled (wiring, third party) |
| Layout, theme, scripts, infrastructure | | | | | not modelled |

`PROJECT.json` lists the same components with their sources and, under `hazards`, every place where
this code is hard to test, with the property that watches it or the reason none does.

## 2. Modules

| Module | Models | Uses |
|---|---|---|
| `OneTimeToken` | abstract: a token is issued, redeemed at most once, or withdrawn | |
| `Sessions` | refresh sessions, in both stores | implements `OneTimeToken` |
| `MagicLinks` | passwordless sign-in | implements `OneTimeToken` |
| `LoginPage` | the pages that sign in and move on | |
| `BrowserSession` | who each tab is signed in as | |
| `Accounts` | invitations, redemption, first admin | |
| `Catalogue` | abstract: a published file stays playable, nobody is told too early | |
| `RomUploads` | uploads, the bucket, registration | implements `Catalogue` |
| `UploadForm` | the upload page: file, checksum, stage | |
| `SaveRegister` | abstract: every slot of a game is an atomic register | |
| `SaveStates` | the save-state handlers | implements `SaveRegister` |
| `PlaySession` | the play page in its tabs | extends `SaveStates` |
| `Favourites` | the toggle of a star, and every view that shows it | |
| `LibraryPages` | the paged list of the library | |
| `PlayMetrics` | frame counts, from the page to the rollups | |
| `Onboarding` | the wizard, the emulator configuration, the answer of `/health` | |
| `Profile` | the profile's row, its routes and its pages | |
| `SessionsProofs`, `AccountsProofs`, `MagicLinksProofs`, `RomUploadsProofs`, `SaveStatesProofs` | theorems | each extends its module and `TLAPS` |
| `SignInProofs`, `PlayerProofs`, `ConsoleProofs` | theorems | extend `MCSignIn`, `MCPlayer` and `MCConsole`, for the components put side by side there |
| `MC*` | symmetry sets, bounds and compositions for TLC | extend their modules |

Conventions shared by all detailed modules:

* **One action per await.** Node runs a handler alone between two awaits, and a browser tab a callback,
  so an action is one call of a store and all the synchronous code up to the next one, with its early
  returns as disjuncts. A request in flight is a record with the call it is at and what it remembers.
  The effects React runs after a state change belong to the action that changes the state.
* **Outcomes.** A call is done, fails without having happened, or happened and its answer was lost;
  constants say which of these occur.
* **Fresh identifiers** (`randomUUID`, `cuid`) are numbers in the order they are drawn, or the upload
  they belong to. They are never reused and nobody guesses them.
* **History variables and fields** are declared as such and are read by no guard.
* **Variants.** A definition placed before the one it resembles, differing by one slip
  (`SetStatusForgets`, `DeleteAny`, ...), is used by no action. `PROJECT.json` pairs each property
  with the variant that breaks it.
* **Parts.** `MCSignIn`, `MCPlayer` and `MCConsole` put modules that share no state into one run: a
  variable `part` is chosen at first and only that part moves. `PlaySession` and `SaveStates` do share
  state and are composed: every request of the page is one of the handlers' requests.

### Sessions

`row` is `Session.status`, `past` the rows whose `expiresAt` is over, `cache` the Redis keys, `expired`
the prefix of refresh JWTs that no longer verify, `gauge` the metric. `Lookup`, `ExpireRow` and
`RevokeRow` are the three awaits of `consumeSession`; `GetEntry` and `DelEntry` are
`getRefreshSession` and `deleteRefreshSession` in the refresh handler, which tries Redis whenever the
database refused *or threw*; `Record` and `Fallback` are `recordSession` and `saveRefreshSession`;
`LogoutRevoke` and `LogoutDelete` the sign-out. `JwtExpires`, `RowExpires`, `EntryExpires` are time
(one lifetime for all tokens, so they expire in the order they were signed), `Restart` the loss of
the process with its requests and its gauge.

Not modelled: access tokens (stateless), the password check, `renewRefreshSession` (only tests call it).
The refresh token is identified with its session: the JWT carries nothing else and the row holds the
hash of that JWT, so the hash comparison cannot fail for a token the server signed.

### MagicLinks

`Save` and `Mail` are the request handler, `GetLink` and `DelLink` the two awaits of
`consumeMagicLinkToken`, `Login` the session that follows (modelled in `Sessions`; here it succeeds or
answers 500). A page posts its link once (a ref guards the effect), so a link that is open in one page
is never consumed by two requests at a time; `Shared` are the links for which that is not so.

### Accounts

`users` are rows (with `via`, the door the account came through, as history), `invites` the rows of
`Invite`. `Tried` are an email's username candidates, `Fallbacks` what `player_` and eight hexadecimal digits may
turn out to be, which may be taken like any other name, and `CliName` the one name the script tries. Redemption is `GetInvite`, `FindEmail`, `CreateUser`/`CreateMeetsEmail`/`CreateMeetsName`,
`Mark`, `OpenSession`; bootstrap is `CountAdmins`, `FindBoot` and the same tail; the `create-admin`
script is `ScriptCount`, `ScriptCreate`. The database refuses a second equal email or username and
nothing else. `Abandon` is any error, crash or interrupted script: what is done stays done.

### RomUploads

An upload is one submission of the admin page (`kind = "page"`) or of the wizard (`"wizard"`, which
neither verifies nor falls back nor reports). `Grant`, `Put`, `Direct`, `Verify`, `Report` are the page's
calls; `RegVerify` to `RegSign` the awaits of `POST /admin/roms`, which go on when the page has given up
(`ReplyLost`) or is closed (`Close`). A PUT that was cut off may still be applied later (`PutLands`), or
never (`PutIsLost`). `Garbage` is an object that is not what the page hashed. The failure report deletes
whatever key it is given, as the handler does.

Merged: the two reads of `findPlatformId` (platforms are never deleted, so they agree with one read at
the moment of the second), and the size and metadata checks of `describeAsset` (they hold of an object
whose content was just verified). A bucket that cannot be made is a refused call.

### LoginPage

`login` is the page shown, the statuses of its forms and its redirect timer. The effect of `/login` runs at
every change of a status: `LoginEffect` clears the timer and starts one only if the page never has.
`/magic-link` starts its timer at every success, `/invite` leaves at once. What an answer does to the token
is `BrowserSession`'s.

### BrowserSession

`storage` and `cookie` are shared by all tabs; `pane` is the module state of `authTokens.ts` in each. A
token is the account it speaks for. `GetToken` is `getStoredAccessToken`, which every request calls first:
it uses the cached token, else the stored one, else joins the tab's shared refresh or begins one.
An answer is two steps, because the browser takes the cookie from its head before the page reads its body
(`RefreshAnswered`, `RefreshEnds`). `ReloadPage` drops the module state but not what was sent.
The server may grant or refuse any request.

### UploadForm

The page of which `RomUploads` models the calls: what it shows (`form`), the checksums being computed
(`reading`) and the uploads it has begun (`up`). Nothing in it is cancelled, neither by a new choice, nor
by "Reset form", nor by leaving; every continuation writes the one form.

### SaveStates and PlaySession

`Upload` puts the bytes under a fresh key, `Upsert` points the slot's row at it in one statement, a load is
`FindLatest` or `FindById` and then `Download`. Keys are numbered as their upserts are sent, which is the
order of `updatedAt`. A restart fails whatever is in flight.

`PlaySession` extends it with the page: `tab` is the mounted page, `win` what its window keeps when the
page is left (the clean-up deletes the `EJS_` settings but not `EJS_emulator`, `play/[romId]/page.tsx:282-304`;
loader scripts already inserted still run), `local` the copies in localStorage. A *game* is a player's game of a ROM
(its save slots are that player's); `Roms` says which games are of one ROM, because the key in localStorage is
`treazr:save:${romId}`, which neither names the player nor is cleared by a sign-out. `ScriptLoads`, `Poll`,
`Fallback`, `GameReady` are the ways the page gets its emulator; `Save` captures from it, or from the stub
if there is none. Bytes are abstracted to the game they come from, assuming a runtime that implements
`saveState` as `embed.js` does.

### Favourites

One ROM's star for one player. `FindRow`, `DeleteRow`, `CreateRow` are the awaits of `toggleFavorite`; the row
has an id, so that a delete of a row that was replaced is refused. `page` and `star` are what each view shows:
detail pages and `RomHero` await a token before they send (so a double click gets two requests out),
library cards do not. `RomHero` refreshes its star on its own and drops the answer when a toggle came between
(`mutationVersionRef`). `ReadAnonymously` is a ROM answered as to a stranger because
`tryAuthenticateRequest` swallows an expired token (`rom.controller.ts:120`).

### LibraryPages

`FindMany` and `Count` are the two queries of `GET /roms`, `ShowPage` the answer that `useRomLibrary` appends
to the list of its key, `SetFilter` another key. ROMs are registered, starred and played between any two.

### PlayMetrics

`Frame`, `Visibility`, `Sample`, `StopMetrics` are `useEmulatorMetrics`, `Ingest` the one `MULTI` of
`recordEmulatorPerformance`, `Tick` the expiry of its keys.

### Onboarding

`con` is a tab with the wizard's step or the page `/admin/emulator-config`, its progress and its form, `stored`
the progress in localStorage, `config` the Redis key. `PUT /admin/emulator-config` probes the URL (`EndpointAnswers`)
and, when that fails for `localhost`, `127.0.0.1` or `0.0.0.0` (`Loopback`, `EndpointFails`), the same path of the
container `emulatorjs:80` (`ContainerAnswers`); then `SetConfig` stores the URL as it was sent. The step's completion is a timer of one second (`TimerFires`), cleared when the step
is left; `Complete` is `handleCompletion` with the effect that stores. What a step awaits goes on
after it was left (`gone`). The calls of the profile and the upload step succeed or fail as a whole.

### Profile

`ReadProfile` and `WriteProfile` are the two awaits of `updateUserProfile`; `Payloads` is what each page can send:
`/profile` an avatar with its metadata, `/settings/profile` its key with every save and never any metadata, GraphQL
any part. `ChooseImage`, `PutAvatar`, `UploadEnds` are `useAvatarUpload`; `PatchName` is `PATCH /auth/profile`, which
writes the name and leaves `profileCompletedAt` alone.

## 3. Runs

All runs finish in about three minutes or less with two workers. No run has a deadlock check: these systems
may fall silent, because nobody has to send another request and identifiers are bounded.

| Run | Expect | Shows |
|---|---|---|
| `sessions` | pass | `TypeOK`, `OneStore`, `NoReplay`, `OneLiveTokenPerLogin`, `LogoutEndsLogin`, `RefreshTokensAreOneTime`: pages that share one refresh (`SingleFlight`), a database that may fail at any call |
| `sessions_tabs` | pass | `RefusalIsFinal`, `GaugeDrift`, `EveryRequestIsAnswered`: several tabs on one token, both stores failing, restarts (the gauge while drivers report truly) |
| `sessions_two_refreshes` | violation | `OneLiveTokenPerLogin` without `SingleFlight` |
| `sign_in` | pass | `PagesTypeOK`, `LinksAreOneTime` (three requests, Redis failing, one shared link), `LoginMovesOn` (the three pages), `TabSpeaksForItsAccount` (two tabs, two accounts, two requests in flight) |
| `magic_link_twice` | violation | `LinkIsSingleUse` for a shared link |
| `accounts` | pass | `TypeOK`, `ReservedInviteIsSingleUse`, `EveryAccountWasInvited`, `RedeemerJoined`, `RedemptionIsStable`, `NoBootstrapAfterAdmin`, `OneHttpAdmin`, `EveryRequestIsAnswered`: redemptions, bootstraps and scripts that overlap and are abandoned anywhere, usernames and fallbacks that clash |
| `open_invite_twice` | violation | `InviteIsSingleUse` for an unreserved invite |
| `rom_uploads` | pass | `TypeOK`, `CleanedLeavesNothing`, `DuplicateIsReused`, `UploadsFillCatalogue`, `UploadEnds`: two uploads of one file or of two, refused, cut off, late and closed |
| `rom_upload_late_failure` | violation | `CompleteMeansPlayable` when a registration fails for the page after its commit |
| `player_pages` | pass | `TypeOK`; saves: `AnsweredSaveIsKept`, `SaveRegisterSpec`; the play page: `SavesOwnGame`, `LocalFollowsCloud`; `StarsAreTrue`; `EndOfListShowsAll`; `CountsAtMostDrawn`, `GlobalCoversRoms` |
| `console_pages` | pass | `TypeOK`; `WizardIsHonest`, `SaveCompletes`; `UploadFormIsHonest`; `ProfileAgrees` |
| `sign_out_overtaken` | violation | `SignOutClearsCookie`: a refresh answered after the sign-out |

### Bounds, and why they are enough

* *Requests.* Every race in this code is between two requests on one token, invite, file, slot or row, so
  two slots suffice; slots are reused, so a behaviour has any number of requests in sequence. `sign_in` has a
  third so that a late page can come while two others are between read and delete.
* `MaxSids = 3`: a login, its rotation and the rotation of that, or two logins and a rotation.
  `sessions_tabs` has 2, which is enough for a token and what replaces it; it has more faults instead.
* `MaxLinks = 3`: one shared link, two that are not.
* `MaxUsers = 3`, `Attempts = 2` (5 in the code) with one username seed for all emails: the second
  account meets a clash, the third exhausts the candidates and draws one of two fallbacks, of which one is a
  candidate and so may be taken.
* Two uploads, two files, one platform: a second upload of the same file, a second file on the same new
  platform, and an upload that is disturbed by one whose registration fails late (`LateFiles`).
* `MaxSaves = 2`: two saves that overlap on one slot or fill two, and loads around them. Part "saves" is about one
  game (`OneGame`): every query filters by it. Three games: a ROM's of two players, and another ROM's. In part "play",
  one request is in flight, the pages wait while the backend serves it (they cannot see what it does), and what follows
  the first save that is stored are uploads and loads (`OneCall`): there the hazard is what one ROM's page, or one
  player, leaves to the next, not what two saves do to each other. A dialog that was confirmed is not opened again.
  `MaxLoaders = 1` loader waits. A page is also left and opened by somebody else.
* Three views of a star, one of each kind, two requests, `MaxRows = 2` rows (so that one can be replaced under a
  request that found the other), `MaxFlips = 3`.
* `MaxRoms = 3` with pages of one: a list of three pages and ROMs that move between them. `OneOfEach`: one ROM is
  starred or played (which moves it across all others), and the cache holds one list at a time.
* Two players on two ROMs, two frames, two samples, `Ttl = 2`: a key that expires between two samples.
* Part "admin" of `console_pages` is one tab, of the wizard or the page of the configuration, with two requests: two saves, or
  a save and a load, and a timer; its localStorage refuses nothing, its backend is degraded and its uploads fail (after
  the last step the wizard does what it did before it). Part "tabs" is two tabs
  of the wizard, each with whatever progress it has, so that one with an old progress may overwrite a newer one; it has
  one request at a time, one URL and a backend that is well (`OneOrTwoTabs`). `Unhurried` leaves out a reload pressed
  while something is out, and nothing else. One of the two URLs is a loopback URL.
* `MaxReads = 1` checksum of each of two files. Of two pages, one is `/profile` and the other is not (`OneEach`).
  In part "browser" of `sign_in`, invitations are for one of the two accounts (`OneInvited`).

### Fairness

`FairSpec` asks weak fairness of the steps of each request, page and handler: an awaited call of a
driver settles (they all time out), and Node then runs the continuation. `LoginMovesOn` asks it of the redirect's timer
and of the health probe, which aborts itself after 4 s; `SaveCompletes` of the wizard's requests, each of whose one or
two probes of an endpoint is aborted after 5 s, and of its timers. Nothing is asked of clients, of
faults, of time or of the environment: `JwtExpires`, `Restart`, `Abandon`, `PutLands`, `ReplyLost`
and `Close` may never happen. Only where a bound stops a request from drawing an identifier does
`EveryRequestIsAnswered` let it wait, and it names the state in which it may.

### Conditions on properties

* `Honest` (no lost acknowledgements) guards the safety properties of `Sessions` but for `RefusalIsFinal`. It is needed: if the
  row was written but the driver reported an error, `auth/routes.ts:361-368` stores the session in Redis as
  well, and the token can be exchanged once from each store. No document promises otherwise, so this is
  recorded here and among the hazards rather than as a finding.
* `SingleFlight` guards `OneLiveTokenPerLogin` and the refinement. The frontend shares one refresh promise
  per page (`authTokens.ts`); two tabs do not share it, and `sessions_two_refreshes` shows what follows.
* `LogoutEndsLogin` speaks of a sign-out with the newest token while no refresh of that login is in flight; with one in
  flight, see `sign_out_overtaken`.
* `RefusalIsFinal` has two halves. A refusal is deserved (the token is dead in both stores) unless the database failed
  that refresh (`shaky`): then the handler looks only in Redis, so a token whose row is ACTIVE is answered 401 and would
  be accepted the next time. That what is dead stays dead holds without exception.
* `GaugeDrift` is about the sessions in Redis, which is all `session-store.ts` counts; those in PostgreSQL are not in the gauge.
* `WizardIsHonest` calls a URL verified that answered itself, or a loopback URL in whose place the container answered: then
  the URL that is stored may never have answered anybody, and a browser on another machine cannot reach it.
  It speaks of a form that was not edited or reloaded while it was sent.
* `LocalFollowsCloud` says that a local save is an answered save of that ROM, not whose: the next player of a browser may
  upload the last one's, and an older one over a newer one.
* `LinksAreOneTime` speaks of the links that are open in one page (a ref makes the page post it once).
* `UploadsFillCatalogue` speaks of the files none of whose registrations fails after its commit, while the
  other files' do.
* `SavesOwnGame` speaks of saves pressed once the ROM's own emulator has announced its game. Before that the
  page does save the stub's bytes, or those of the emulator the last ROM's page left in the window, although `page.tsx:315`
  says to "wait for the emulator to finish loading before saving".
* `TabSpeaksForItsAccount` excepts a tab that signed in while a refresh of its own was out (`late`): that
  refresh may bring the old account back. It speaks of access tokens; of the cookie, see `sign_out_overtaken`.
* `StarsAreTrue` speaks, of a view, until something has overtaken it (`unsure`): another view's toggle, two
  requests of its own, a failed or anonymous load, a lost answer.
* `EndOfListShowsAll` speaks of the unfiltered list, newest first, and excepts a ROM registered between the two
  queries of one request (`torn`). With the order "recent" a save can move a ROM past the reader.
* `LoginMovesOn` excepts a status that changes while the timer runs (`hurried`).
* `ProfileAgrees` lets the metadata differ for a key that was saved without any (`bare`).

### Disagreements the runs show

1. Two overlapping refreshes of one token both receive a new session; a test says rotation revokes
   previous sessions.
2. Two overlapping requests with one magic link both sign in; the login page calls links single-use.
3. Two overlapping redemptions of an unreserved invite both make an account; the page that redeems calls any
   code single-use.
4. A page whose registration was committed but whose answer failed reports a failure, which deletes the
   catalogued object; the next upload of that file is then answered with the dead ROM and "Upload
   complete".
5. A refresh that is out during a sign-out sets the cookie again when it is answered, and its session is live; the login
   page says that "sign out clears them instantly".

Seen while modelling, without a run of their own (the conditions above name most of them):

* two concurrent *first* registrations of one checksum (or on one new platform) end with a 500 for the second,
  which `rom.service.ts:89` means to avoid; `DuplicateIsReused` states what does hold;
* two runs of `create-admin` that count the users before prompting both make an admin, where `README.md:76` says
  exactly one;
* the local save of a ROM is kept without its player's name (`play/[romId]/page.tsx:188`) and outlives a sign-out, so
  the next player in the browser may upload it as a save of their own;
* whoever sends the second form of `/login` within the 650 ms of the redirect is never redirected
  (`login/page.tsx:97-107`: the clean-up clears the timer and `hasNavigated` forbids another), where `page.tsx:204`
  says "we will auto-redirect you";
* a sign-out that is not answered leaves the refresh cookie, and a reload signs in again
  (`SignOutButton.tsx:21-28`), where `login/page.tsx:192` says that signing out clears it instantly;
* `/settings/profile` sends the key it loaded with every save, so a save after a failed load removes the avatar;
* a `RomHero` whose toggle fails puts back the star it showed when clicked, although a refresh may have
  corrected it since (`RomHero.tsx:89-100`);
* the wizard marks the emulator's URL *shown* as verified, also when it was edited during the verification;
* `handleCompletion` completes the health step also when the answer was "degraded".

## 4. Proofs

### Sessions

`SessionsProofs` holds, for any number of requests and sessions, either value of `SingleFlight`, and any
set of faults (`SessionsAssumption` is all that is assumed of the constants):

| Theorem | States |
|---|---|
| `TypeCorrect` | `Spec => []TypeOK` |
| `SessionInOneStore` | `Spec => []OneStore` |
| `RetiredTokensAreRefused` | `Spec => []NoReplay` |
| `GaugeCountsSessions` | `Spec => []GaugeDrift` |
| `RefusalsAreFinal` | `Spec => RefusalIsFinal` |
| `OneTokenPerLogin` | `SingleFlight => (Spec => []OneLiveTokenPerLogin)` |
| `SignOutEndsLogin` | `Spec => []LogoutEndsLogin` |
| `RefreshTokensImplementOneTimeToken` | `Honest /\ SingleFlight => (Spec => RefreshTokensAreOneTime)` |

The first three follow from one inductive invariant, `Inv == TypeInv /\ (Honest => Safe)`.

* `TypeInv` adds to `TypeOK` that everything a store, a request or the history names has been minted.
  Without it a fresh session could already have a row, an entry or a history.
* `Safe` says that unminted sessions are in no store; that row and entry exclude each other (`Apart`);
  that a token which was exchanged or closed is dead in both stores and will stay so (`RetiredDead`);
  that no two requests create the same session (`CreatingApart`); and what each waiting request may
  assume (`RequestSafe`): the session it creates is unknown and in no store it must not be in, its token is
  one the server sent, a request past the write that retires its token finds it dead, and one that began
  late is not past it.
* `OneStore` and `NoReplay` are not inductive by themselves: `OneStore` needs to know that a session which
  reaches the fallback has no row, `NoReplay` that the late request cannot have found the token live.

The argument splits the steps in two. All but `Grant` only *kill*: they move no session from dead to
live, so `RetiredDead` survives them (`OnlyKills`). `Grant` makes one session live, and that session is
new, so it was neither exchanged nor closed.

`GaugeDrift` is inductive beside `Inv`, which says that a session about to be stored is in no store. `RefusalsAreFinal`
(of refusals that the database did not fail)
holds with lost acknowledgements too, where `Safe` does not, so it has an invariant of its own: what a request presents
is known, what is being created is not, and what a refresh has missed in a store it stays missed there (`RefusalInv`). No step
revives a known token, because only `Grant` makes one live, and that one is new (`RefusedStayDead`).
The other three speak of chains: the sessions of a login, one exchanged for the next. `Chains` says that at most one known
session of a login is not spent, that no two requests exchange one token, that what is being created descends from what it
retires, and that a login that was ended has nothing left that lives, is held or is being created. Every step is of one
of four kinds (`StepKinds`): tokens age, one is taken up, one is exchanged for a new one, or a new one is granted; each
conjunct is kept per kind, not per handler. On chains, each step moves at most one session of `OneTimeToken`.

Every invariant of this section was checked by TLC on the runs' instances before it was proved.

### Accounts

`AccountsProofs` holds for any number of requests, emails, codes and username candidates:

| Theorem | States |
|---|---|
| `TypeCorrect` | `Spec => []TypeOK` |
| `ReservedInvitesMakeOneAccount` | `Spec => []ReservedInviteIsSingleUse` |
| `AccountsAreInvited` | `Spec => []EveryAccountWasInvited` |
| `RedeemersJoined` | `Spec => []RedeemerJoined` |
| `RedemptionsAreStable` | `Spec => RedemptionIsStable` |
| `LateBootstrapsMakeNoAdmin` | `Spec => []NoBootstrapAfterAdmin` |
| `HttpMakesOneAdmin` | `Spec => []OneHttpAdmin` |

Nothing is assumed of the names: candidates of different emails may clash, and so may a fallback with any of them (it is
`player_` and eight hexadecimal digits, 15 characters, and a seed may have 24). A request that draws a taken fallback is
answered, as `CreateMeetsName` says.

No transaction serialises anything here, and the argument shows what does instead. `EmailsUnique` is the
unique index. `Admitted` says that a request past `GetInvite` holds an invite that is issued and open or
reserved for its email; no other request can undo that, because an invite never changes whom it is for
(`StoresGrow`). Hence everybody who joined by a reserved invite has its email, and there is one such user;
everybody who joined over HTTP has the bootstrap email, likewise. `Marking` (a request that is about to
mark an invite has made a user with it) gives `RedeemerJoined`, and with the former `RedemptionIsStable`:
a second mark of a reserved invite names the same user.

### Magic links

`MagicLinksProofs` (`Spec => []TypeOK`, and `MagicLinksAreOneTime`: `Spec => LinksAreOneTime`) holds for any number of
requests and links and whatever Redis does. The invariant says, per link, that only its minter knows it until it is mailed
(`Making`), and that for a link open in one page at most one request consumes it, and once it has bought a grant it is
neither stored nor about to be deleted. So what `GetLink` read is still true at `DelLink`. Every step moves at most one
link (`OneMoves`), and that move is `Issue`, `Redeem`, `Withdraw` or a stutter of `OneTimeToken`.

### ROM uploads

`RomUploadsProofs` holds for any number of uploads, files and platforms, any faults and any `LateFiles`:

| Theorem | States |
|---|---|
| `TypeCorrect` | `Spec => []TypeOK` |
| `CleanupIsComplete` | `Spec => []CleanedLeavesNothing` |
| `DuplicatesAreReused` | `Spec => []DuplicateIsReused` |
| `UploadsImplementCatalogue` | `Spec => UploadsFillCatalogue` |

Every upload has two keys of its own and no other upload touches them, so the invariant is one conjunct per upload. The
heart is `RowOK`: the row of a file that is not late has the key of an upload that is still registering or complete,
so nobody will report that key as failed, and its object is the file; `FlyingOK`: a PUT that may still be applied is
not to that object; and `ServedOK`: between verification and commit the page that would delete the object is
waiting or closed. Without `LateFiles` excluded, the last is false, and `rom_upload_late_failure` shows it.

### The console

`ConsoleProofs`, for any number of tabs, requests, URLs, files, checksums, uploads and pages:

| Theorem | States |
|---|---|
| `WizardStaysHonest` | `AdminSpec => []WizardIsHonest` |
| `FormIsHonest` | `UploadSpec => []UploadFormIsHonest` |
| `RowAgreesWithItself` | `ProfileSpec => []ProfileAgrees` |
| `ConsoleIsTyped` | `Spec => []TypeOK`, of `MCConsole` |

*The wizard* (`AdminInv`). A completion that is still to come, from a request or from a timer, is of a step that the tab's
progress allowed when it was sent; progress only grows while the page is not left, so it still does (`Allowed`). A URL that
a request brings back, or has stored, is in `VerifiedUrls` (`Brings`); and a form's URL is the one the request
carries unless it was edited meanwhile (`AsShown`). `Outlives` and `Left` name which requests survive the leaving of
a step and of the page. *The form*: nothing is cancelled; the invariant adds that what is being registered has been
compared by the backend (`Compared`), that unless a file was chosen while another was hashed only the file shown is being
read (`ReadsShown`), and that beside an undisturbed upload nothing is out (`Alone`). *The profile*: what an update carries
is in the bucket (`SaveSends`); and the completeness it has read of the row it overwrites is still so (`SaveHas`).
Assumed of the constants: there is a tab, and the null of the database is not the absence of a field.

### Save states

`SaveStatesProofs` holds for any number of requests, games, slots and saves and any faults:

| Theorem | States |
|---|---|
| `TypeCorrect` | `SaveSpec => []SaveTypeOK` |
| `AnsweredSavesAreKept` | `SaveSpec => []AnsweredSaveIsKept` |
| `SavesAreAtomicRegisters` | `SaveSpec => SaveRegisterSpec` |

Keys are fresh: a request about to upsert alone holds its key, which is stored and unanswered (`UpsertOK`, `KeysApart`).
Hence a slot can only move to a stored save that had not been answered before, which is `AnsweredSaveIsKept`; and a load
that has found a row returns what that row held, which with the upsert as the save's instant is the refinement. The
order of a game's saves (`NewestOf`) is where finite sets of keys need a greatest element.

### Signing in

`SignInProofs`, for any number of tabs, accounts, requests and links:

| Theorem | States |
|---|---|
| `TabsSpeakForTheirAccount` | `BrowserSpec => []TabSpeaksForItsAccount` |
| `RedirectionIsUnderWay` | `LoginSpec => []TimerRuns` |
| `PagesAreTyped` | `PagesSpec => []PagesTypeOK`, of `MCSignIn` |

A tab that is signed in holds its token in memory, so it begins no refresh, and it has none out (`SignedIn`); one that is
signed out stores nothing a refresh brings (`SignedOut`). `TimerRuns` is the safety half of `LoginMovesOn`: a page
that shows a success has its redirect timer running, unless a status of `/login` changed while it ran. It needs to
know that `hasNavigated` is set only as the timer starts.

### What a player uses

`PlayerProofs`, for any number of tabs, games, requests, ROMs, views, players, frames and samples:

| Theorem | States |
|---|---|
| `PagesArePlayers` | `PlaySpec => SaveSpec` |
| `PagesUseAtomicRegisters` | `PlaySpec => SaveRegisterSpec` |
| `SavesCaptureOwnGame` | `PlaySpec => []SavesOwnGame` |
| `LocalCopiesAreAnswered` | `PlaySpec => []LocalFollowsCloud` |
| `FramesAreCountedOnce` | `MetricsSpec => []CountsAtMostDrawn` |
| `GlobalOutlivesRoms` | `MetricsSpec => []GlobalCoversRoms` |
| `TheEndHasBeenReached` | `ListSpec => []EndOfListShowsAll` |
| `PagesPartitionRows` | `ListSpec => []PagesPartition` |
| `StarsStayTrue` | `StarSpec => []StarsAreTrue` |
| `PlayerIsTyped` | `Spec => []TypeOK`, of `MCPlayer` |

*The play page.* A step of the pages is a step of the saves or leaves them alone, so what is proved of the saves holds for
the pages. Once a page has been told that its own game runs, it holds that emulator and the window keeps no other
(`Fits`); and what a request carries through the backend is what its handler will keep locally, under the ROM of its
game (`Carries`).

*The metrics.* Frames counted on pages, samples on their way and samples ever added are together at most the frames drawn
and the samples of none (`Balance`); each is counted as a set of pairs of its bearer and a number, so that a count moves
as a column of pairs (`ColumnAdded`, `ColumnTaken`) and no recursion is needed. `Covers`: a ROM's key that holds anything
runs out no later than the global one.

*The list.* With *R* ROMs, number *r* is behind *R - r* others, newest first. `Complete` says that the first *n* pages have
shown all that the list was opened with and that comes before place *n* times `PageSize` now; a ROM registered in between
moves the others back, so it stays true, and the count of an answer that was not torn belongs to the catalogue its
page was read from. `PagesPartition` is what `skip` and `take` promise of a catalogue that
does not change: the order has no ties, so every row is on exactly one page and no page is too long.

*The stars.* `DeletesOK` says that a request which deletes has found a row. For each view that nothing has overtaken,
`Apart` says that at most one toggle and one load are out, and together only in a `RomHero`; `Knows` what they will
answer; and `Shows` that without a toggle the star is as the row.

TLC finds no violation of these invariants either (`PartsInv` on the instance of `player_pages`, `AdminInv`, `UploadInv` and
`ProfileInv` on that of `console_pages`, `PagesInv` and `TimerRuns` on that of `sign_in`). Assumed of the constants: bounds are natural numbers, a page has at least one row, a key lives for
at least one tick, and no ROM is called as the global rollup is.

### What is only model-checked

Every safety property and every refinement that a passing run checks is a theorem. What is left is liveness:
`EveryRequestIsAnswered` (of sessions and of accounts), `UploadEnds`, `LoginMovesOn` and `SaveCompletes`. They rest on
fairness, hence on `ENABLED`, which is out of the prover's reach; of `LoginMovesOn`, the safety half is proved.
The five runs that expect a violation are TLC's too: they show states that the code reaches, on one instance.

The theorems about components speak of the components' own specifications, without the bounds that `MC` modules
put on them (`OneGame`, `OneCall`, `OneOrTwoTabs` and the like), which are there for TLC alone.

## 5. What could follow

The halves of the other liveness properties that are safety: that no handler goes round in a circle, and that every
waiting request has a step. And a property for the one hazard without: that a session is in both stores only when the
acknowledgement of its own row was lost.

## 6. Not modelled, and why

* Rate limits, CORS, schema validation and logging are libraries or have no state; the exporters, the lifecycle of the
  process and mail are wiring and I/O.
* Layout, theme, copy, toasts, skeletons and form controls are rendering; so are fullscreen, the touch overlay, control
  bindings and the viewport's scale on the play page.
* Of the metrics, rates and memory (sums like the frames), the key of the latest sample (whichever was added last, with no
  promise about it) and the read of the rollups. Of the library, the filters by platform and genre (they select like
  that of favourites), and a stale list that is fetched again in the background.
* Deployment, seed and theme scripts run once by hand. `scripts/roms/import_from_folder.ts` is a client of `POST /admin/roms`,
  and as it stands sends `asset.data` (lines 66-72) where the route's schema wants an object key and a size, so every
  import is refused before anything happens.
* `GET` of lists, labels and sizes of save states are reads without a decision. Passwords, hashes and signatures are
  taken to be sound; a body over a limit (5 MiB of a save, 50 MB of a direct upload or of a grant) is refused by a schema.
