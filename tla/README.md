# Verification of HighScoreServer

TLA+ models of HighScoreServer, TLC runs over small instances of them, and
TLAPS proofs for instances of any size. Every safety property that the passing
runs check is also proved; what is left to TLC alone is in section 7.

HighScoreServer is one FastAPI process image with two subsystems: a
leaderboard service (`app/*.py`) and a *vault* (`app/vault/`), a governed
corpus of notes written by agents over REST and MCP. Each has its own
PostgreSQL database. All durable state is in those tables; the processes keep
caches, rate-limit buckets and requests in flight, and a browser that has the
vault's console open keeps a session. Production runs two worker processes
(`src/Procfile`).

## 1. Inventory

| component | state | operations | what makes it correct | model |
|---|---|---|---|---|
| Score and run submission (`leaderboard_routes.py`, `validation.py`, `periods.py`) | `game_modes`, `scores`, `runs`, `submission_idempotency` | `POST /scores`, `POST /runs`, `POST /game_modes` | a retry counts once; best rows are optima and totals are sums; a run is stored as validated iff its score is on the board; boards that require runs or claimed accounts show nothing else | `Scores` |
| Leaderboard pruning (`scripts/prune_*.py`) | same tables, `users`, `refresh_tokens` | four cron jobs | nothing with history is deleted; a key is forgotten only after its retention | `Scores`, `Accounts` |
| Accounts, identities, sessions (`auth_routes.py`, `auth.py`, `auth_identities.py`) | `users`, `auth_identities`, `refresh_tokens`, stateless JWTs | guest, register, login, Steam login and link, claim, rename, refresh, logout | an identity never changes owner; guest iff without identity; a refresh token is spent once; an access token cannot be extended | `Accounts` |
| Page cache (`cache.py`, cached reads) | one `TTLCache` per worker, or Redis | lookup, fill, prefix invalidation | stale only by an overlapping read, and not for ever; a request gets its own page | `BoardCache` |
| Vault governed writes (`vault/service.py`, `repository.py`, `governance.py`) | documents, embeddings, review cases, amendment proposals, write requests (the idempotency ledger), audit events | contribute, update, set_summary, update_metadata, propose/accept/reject an amendment, review, promote, retire | vectors describe texts; duplicates are judged; one note per key; a proposal is applied only to what its author saw; no flagged note without a case | `VaultCorpus` |
| Vault paths (`slug.py`, `resolve_vault_path`) | `vault_path` | choose a free name | unique, in the folder of the promotion state | `VaultCorpus`, in part |
| Vault compile runs (`service.py`) | compile runs, watermarks of pages, refusals | plan, write_page, decline, finish, fail | no change escapes the planner; compiling comes to an end; a settled run is closed | `VaultCompile` |
| Vault OAuth server (`oauth.py`, `oauth_routes.py`, `prune_vault_oauth.py`) | clients, pending authorizations, codes, grants, refresh tokens, credentials | register, authorize, log in, exchange, refresh, revoke, prune | one session per approval; reuse burns the family; grants reach every live credential | `VaultOAuth` |
| Vault credentials (`auth.py`, `principal.py`, `issue_vault_credential.py`) | credentials | bearer lookup, scopes, last-used stamp; issue, revoke, adjust scopes | a dead credential lets nobody in; an operator's command is never undone by another's | `VaultGate`, in part |
| Vault rate limiter (`rate_limit.py`) | token buckets per principal | charge, prune | pruning never refunds | `VaultGate`, in part |
| Vault pool (`vault/db.py`, `pool_policy.py`) | connections in use | check out, time out, give back | every connection comes back, none is held while the provider is called | `VaultGate`, in part |
| Vault HTTP and MCP surfaces (`routes.py`, `mcp.py`) | none | every route and tool | the scope, the bucket and the transactions of each | `VaultGate`, `VaultWalks`, in part |
| Vault operator repairs (`scripts/remap_*`, `resolve_*`, `backfill_vault_summaries`, `import_vault_wiki`) | the vault's tables | repairs beside the governed writers | edges, vectors, summaries and imported pages stay true to what was said | `VaultRepairs`, in part |
| Vault duplicate search (`find_similar`) | none | nearest texts | a duplicate is found | `VaultCorpus`, in part |
| Listing and retrieval (`cursors.py`, `search.py`, `facets.py`, `snippet.py`) | none | keyset pages, fused ranking | no row twice or skipped | `VaultWalks`: the listing |
| Export (`export.py`, `wikilinks.py`, `export_vault_markdown.py`) | a directory | snapshot, write set, prune sweep | the directory equals the snapshot | `VaultWalks` |
| Console session (`templates/_console_session.js`) | a record and a lock shared by tabs, the globals of each tab | sign in, refresh, retry after 401, end, sign out | no tab presents a token its record has been rotated past | `VaultConsole` |
| Amendment diffs, frontend client, console pages, passwords and providers, leaderboard pages and set-up, measurement, migrations | – | – | – | not modelled: section 8 |

How they interact: handlers share state only through the tables and the cache.
The submission handlers invalidate the cache after their commit. The guest
pruner meets submissions (foreign keys), claims (row re-check) and sessions
(cascade). Access tokens carry `is_guest`, read at issue, to the submission
handlers. A vault request passes the gate (credential, scope, quota, one
connection at a time) before its service runs. Vault handlers call the
embedding provider between two transactions; every governed transaction that
writes takes one advisory lock first, and the operator's scripts take it late,
early or not at all. The OAuth server mints the credentials the gate looks up.
The console drives the refresh grant from several tabs.

What is hard: handlers of several transactions that overlap (READ COMMITTED
everywhere, lock-then-compare in the vault), retries that arrive while the
first call is still running, changes made by an operator or a cron job between
two statements of a handler, statements of one transaction that see different
states of a table it does not lock, answers lost after a commit, stamps and
clocks taken earlier than the write they decide, walks of a corpus that
changes, an export interrupted in the middle of a file. `PROJECT.json` lists 40
such hazards with the line each one bites at and the property that would catch
it.

## 2. Modules

| module | models | main variables |
|---|---|---|
| `Scores` | submission, operator changes, key pruner, guest pruner's delete | `modes users guests scores runs markers req pruning` |
| `Accounts` | accounts, identities, sessions, the pruners' effect on them | `accounts identities refresh access req` |
| `BoardCache` | the page cache between workers | `version cache req` |
| `VaultCorpus` | the vault's governed write path | `docs vectors cases proposals writes audit req` |
| `GovernedCorpus` | abstract specification: each governed write at one instant | `notes seen spent proposals` |
| `ScoresProofs`, `AccountsProofs`, `VaultCorpusProofs`, `VaultCompileProofs`, `VaultRepairsProofs`, `VaultOAuthProofs`, `VaultGateProofs` | theorems about the modules they are named for | |
| `ClientProofs` | theorems about `BoardCache`, `VaultConsole` and `VaultWalks`, what the clients of the two services are shown | |
| `VaultOAuth` | the authorization server, the operator's commands on its families, the prune job | `clients pending codes grants refresh creds burned now req` |
| `VaultCompile` | compile runs and the writers of the notes they read | `notes pages runs now req` |
| `VaultRepairs` | remap, link resolution, summary backfill, wiki import, beside governed writers | `docs vectors req` |
| `VaultGate` | credentials, rate limiter, connection pool, routes and tools | `creds buckets inUse now req command` |
| `VaultWalks` | the listing and the export | `docs now reader run tree` |
| `VaultConsole` | the session script of the console, in several tabs | `stored lock tab call family clients` |
| `MCScores`, `MCAccounts`, `MCBoardCache`, `MCVault...` | constants, scopes and symmetry for TLC | |

Conventions. A table is a function from its key to its row. A handler is a
request record in `req` whose `pc` says which transaction comes next and whose
other fields are the local variables read in the earlier ones; what the record
does not keep the handler does not use later. `Lose(r)` (`Fail(r)` in the gate,
`Stop` for an export) is the loss of the request, its connection or its process
at any point: open transactions roll back, committed ones stay. Variables marked
*history* exist for properties only, no guard reads them except the bound on
`past` (section 5). A definition named `...Mutant` is a plausible wrong version
of the definition below it and is used by nothing; `PROJECT.json` says which
property each one breaks.

### Scores

One submission goes `Receive` (the route reads the clock and the token) →
`ReadMode` (SELECT from `game_modes` and every refusal that depends on it) →
`CommitScore` for `/scores`, or `LookupRun` → `CommitRun` for `/runs` →
`FetchStanding` (its own transaction, after the commit). The statements of
`_apply_score_write` are one step: its first upsert locks the all-time row that
every writer of this player and mode locks first. A duplicate marker commits
without a write; an overflow of `bigint` and a missing user fail the
transaction. The loser of two INSERTs of one `client_run_id` rolls back and
looks the run up. `CreateGameMode` may come between any two of these steps.
`SelectGuests`/`DeleteGuests` split the pruner's single DELETE where PostgreSQL
does: rows chosen in a snapshot, re-checked under lock, then RESTRICT foreign
keys decide. Scores are small numbers; players, modes and keys are names. A marker is
stamped with the day the transaction began, the default of its column, although it
is seen only from the commit on, which may be a day later.

### Accounts

`GuestLogin`, `Register` and `Login` are followed by `CreateRefreshToken` and
`Deliver`; `SteamLogin` by `FindIdentity` and `CreateFromIdentity`;
`SteamLink` by `AttachIdentity`; `Claim` by `ClaimAccount`; a refresh is
`Rotate` (delete and insert in one transaction), `RereadUser` (a second one)
and `Deliver`. Passwords and user names are left out: a wrong or taken one is a
refusal like any other. An access token is signed before its refresh token is
created, and in a refresh after the second transaction; it records, as history, the
session it was signed for. `Logout` takes any token a client has: one that was
rotated is answered like any other, and then nothing changes.

### BoardCache

A read is `Lookup` (miss) → `ReadBoard` → `Fill`; a write is a commit that
bumps the version of each page it changes, then one `DeletePrefix` per prefix.
A page is the number of changes it reflects. Pages and cache keys are distinct:
`KeyOf` is what the two f-strings of the code make of a page's arguments.
`SilentChange` is what changes a page without an invalidation: midnight, and
`create_game_mode`, which drops nothing.

### VaultCorpus and GovernedCorpus

Because every writing transaction takes the corpus advisory lock before its
first read and keeps it to the commit, one transaction is one action. The
handlers that call the embedding provider have two: `Contribute` →
`SettleContribution` (or `RecordConflict`), `Update` → `SettleUpdate`,
`SetSummary` → `SettleSummary`, `Accept` → `SettleAcceptance` (or `MarkStale`,
`SettleStale`). `UpdateMetadata`, `Propose`, `Reject`, `Retire`, `Publish`,
`Discard` and `Promote` are single transactions. A replay of a key alone runs
without the lock: `Replay` is its read of the ledger and, where the digest is of a
retired rule, `Restate` the statement that replaces it. A note is its *text*
(title, body, summary: what the embedding is made of) and its *meta*; a stored
vector is the text it was computed from, so "similarity 1.0" is equality of
texts, and `flag_at = 1.0` is the policy the code ships. `Legacy` are
contributions imported with a digest of a retired rule.

`GovernedCorpus` knows no handlers, embeddings, revisions or ledgers: it says
that a contribution is published unless the corpus of that instant already
says it, that a proposal is bound to the content its author saw, and that
accepting it changes exactly that content. `ImplementsSerial` says that every
step of `VaultCorpus` is a step or a stutter of it under the mapping `Serial`
(notes without their revisions and paths, a proposal's base the content it was
written against): two-transaction handlers are linearizable.

### VaultOAuth

`Register`, `BeginAuthorize` → `Park` (registered and still registered),
`Login` (the operator's password, which turns a parked authorization into a
code), `LoadCode` → `ExchangeCode`, `LoadRefresh` → `ExchangeRefresh`,
`RevokeToken`, the operator's `RevokeCredential` and `AdjustEntitlements`, and
`Prune`. The scopes of a client are its consent, what the operator entitled its
family to, and the rule that keeps `vault:review` apart (`Separated`). One token
of the model is a refresh token and the access credential minted with it, since
the code inserts and rotates them together. A transaction is one action, with
one exception: `_burn_family` lists the family's credentials, revokes them and
consumes its refresh tokens in three statements, and nothing locks the family
as a whole; each is an action (`StartBurn` in `LoadRefresh` or `RevokeToken`,
`BurnRevoke`, `BurnConsume`, `BurnCommit`), so that an exchange may commit
between two of them. The rows a burn holds locked (`Locked`) keep an exchange
of the same token waiting. `late` is history: the tokens minted while their
family was being burned, and those they were rotated into.

### VaultCompile

What the planner compares are timestamps, and they are taken before the
transaction that stores them commits: `updated_at` when a writer's transaction
begins, before it waits for the corpus lock (`BeginWrite` → `Write`), the run's
start when `plan` begins (`BeginPlan` → `ListPages` → `Plan`, since it takes no lock
and reads pages and notes in two statements), a refusal's stamp from the
application's clock (`StampDecline` → `Decline`). A page is read, embedded
outside any transaction and stored (`BeginPage` → `WritePage`) with the start of
its run as its watermark. `Close` is finish and fail. `Publish` and `Remove` are
what the review and the retirement do to a note the planner looks at. One clock
gives every stamp, and no two are equal. `inflight`, `basis`, `refused`,
`unseen` and `todo` are history.

### VaultRepairs

Each script reads first and writes later: `Remap` → `RemapWrite` (no lock, no
check), `Resolve` → `ResolveWrite` (the corpus lock from the read on, and a
comparison of what it overwrites, because the remap does not wait), `Emit` →
`Load` → `WriteSummaries` (an agent and the provider come in between; the lock
only to write, and the revision is checked), `Import` → `ImportWrite` (plans,
embeds, and plans again under the lock). The governed writers beside them are
`Contribute`, `Update`, `BeginAmend` → `Amend` and `Retire`. A reference is a
document id, something else in the shape of one (the id of an earlier import, a
bare slug), or a name: what a `[[wikilink]]` says, the title of the document it
means or, if no title matches, the one in its path (`Candidates`). `said` is
history: what the last governed writer or import stored for a document; `resolved` the
links that were resolved while their name had one bearer; `raced` the documents a remap
wrote although they had moved.

### VaultGate

`Arrive` → `Checkout` → `Authenticate` → `Admit` → then the plan of the route or
tool, which is a sequence of transactions (`Checkout`, `Transact`) and calls of
the provider (`Embed`). `Routes` and `Tools` name every operation of
`routes.py` and `mcp.py` with the scopes it needs, its bucket and its possible
plans; a route's scopes are checked when the credential is looked up, a tool's
when it is charged, on the row loaded before. `Saturated` is the acquire
timeout, `Fail` an error or a cancellation at any point, `Restart` the loss of
the process with its buckets. The operator's commands are `Issue`, `Revoke` and
`ReadScopes` → `WriteScopes`, which hold the credential's row; the last-used
stamp waits for a row that is held, and its connection with it. `said` and
`admitted` are history.

### VaultWalks

A listing is `BeginWalk`, one `NextPage` per request and `EndWalk`: the cursor
carries the position of the last row in the order asked for, with the id as the
last tie-break, and the filters again. Positions are sequences of numbers,
compared as the database compares rows. The writes are what governed writers do
to the columns a walk orders, filters or renders by. An export is `BeginExport`
(a snapshot), `ReadPage` per page of it, `WriteFile` per file that differs,
`FindOrphans` and `Unlink` under `--prune`, `Report`; `Stop` may leave a file
`Torn`. `Meddle` is a file changed by hand between two exports.

### VaultConsole

A stretch of script between two awaits is one step, in one of several calls of
one of several tabs. `Open` is a page load (from `sessionStorage` or without),
`SignIn` → `Register` → `Approved` → `Redeem` → `SignedIn` the authorization,
`Acquire` → `Spend` → `Answer` → `Store` a refresh under the Web Lock, `Call` →
`Send` an API call with its retries, `EndSession` and `SignOut` the ends of a
session. The server is only what `VaultOAuth` promises of it: a token rotates
once, the rotation revokes the access token that came with it, and presenting a
consumed one burns the family.

## 3. Runs

| run | instance | what it shows |
|---|---|---|
| `ScoresBoards` | 1 player, 2 keys, 2 handlers, 3 days, in 3 scopes | `increments`: a cumulative total is the exact sum of what was accepted, over retries, overlaps, overflow, lost connections and both pruners; `best`: each bucket holds the best of the scores that name it, also when a handler commits after midnight or the week's end; `runs`: a run counts once and is stored iff its score is, and every score is admitted by one configuration in all of it, while the operator tightens or opens the mode |
| `AccountsSessions` | 2 accounts, 2 emails, 1 Steam id, 2 refresh tokens, 2 handlers | accounts, identities and tokens agree; identities keep their owner; refresh tokens are spent once; once a logout has ended a session, renames and refreshes in flight keep no access token of it alive past one lifetime; a logout with the live token is final |
| `CacheConvergence` | 2 stores, 2 requests, 1 mode, a lost invalidation | only a read that overlapped a commit brings a dropped page back, and every page shown ends up current |
| `CacheNames` | modes named `latest` and `all` | **violation**, section 4 |
| `CorpusWrites` | up to 3 notes, 2 proposals, 2 handlers, in 4 scopes | `keys`: one note and one body per key, a truthful ledger, flagged iff pending, evidence stays published; `edits`: vectors match texts, duplicates are judged, every step is a step of `GovernedCorpus`; `proposals`: stale means stale, one acceptance per revision, acceptance changes what its author saw; `paths`: unique and in the right folder |
| `OAuthFamilies` | 1 client, 1 approval, 2 families, 3 tokens, 2 handlers | one session per approval, scopes are what was consented and entitled, review is kept apart, a burned family lives on only through an exchange that overlapped the burn, and the prune job forgets nothing that is needed |
| `OAuthBurn` | the same | **violation**, section 4 |
| `CompileRuns` | 2 notes and 1 run, or 1 note and 2 runs, with 2 handlers | every change reaches a later plan, except where its writer overlapped the judgement; plans come to an end; a settled run is final |
| `Repairs` | 2 notes, one perhaps twice, an old id, a batch of 2 pages, 2 scripts or handlers | edges keep meaning what was said, vectors follow texts, summaries are about the text they land on, an import is whole, single and true when it commits |
| `Gate` | 2 credentials of 1 principal, 2 requests, 2 operators, 1 connection | a quota holds in every interval over both transports, pruning and overrides included; connections come back; no dead credential lets anybody in; no command of an operator is lost |
| `Walks` | up to 3 notes, pages of one row, one write during a walk; exports that follow each other | a listing shows each untouched note once, in each order; an export that ends leaves the tree equal to one moment of the corpus |
| `Console` | 2 tabs, 2 calls, 2 clients, 1 family of 2 pairs | no tab presents a token its record has been rotated past |

Several properties are conjunctions of named parts, kept apart in the modules:

| property | parts |
|---|---|
| `BoardIsExact` | `CumulativeIsSum`, `BestIsOptimum` |
| `CreditIsRecordedOnce` | `CreditedOnce`, `MarkerHasCredit`, `RunHasCredit` |
| `BoardShowsWhatCounts` | `RowNamesItsRun`, `RowShowsAnEntry`, `AdmittedByOne` |
| `IdentitiesAgree` | `GuestIffNoIdentity`, `EmailIsIdentity` |
| `AccessIsTrue` | `ClaimedTokenIsTrue`, `LogoutBoundsAccess` |
| `SessionsAreChains` | `OneTokenPerSession`, `LogoutIsFinal` |
| `GateHolds` | `DuplicatesAreJudged`, `FlaggedIffPending`, `EvidenceStands` |
| `LedgerIsTrue` | `OneNotePerKey`, `LedgerNamesItsNote`, `GoneIsAudited`, `KeyAnswersOneBody` |
| `PlansAreExact` | `NothingIsForgotten`, `RunsConverge` |

`EditsAreSerial` is the refinement `ImplementsSerial` in the scope `edits`, the
one in which every writer of content is at work.

Deadlock is checked in every run but two: a handler can always be lost or a new
request arrive. In `CompileRuns` the runs, notes and stamps, and in `Repairs` the
documents, ids and revisions, are bounded and run out; there a state without a
successor is the bound, not the system, and the check is off.

Every property of a passing run has a mutant of the code that breaks it under
the same configuration; the pairs are in `PROJECT.json`.

## 4. Findings

- **`CacheNames` – a mode name can answer for the wrong page** (code bug).
  The key of `/latest` writes an absent filter as `all`, and nothing forbids a
  mode called `all`, nor one called `latest`. Two different requests then share
  an entry: `/latest?game_modes=all` answers from the page made for `/latest`,
  against the exclusive filter `tests/test_api_scores.py` asserts.
- **`OAuthBurn` – a burned family can keep a live access credential** (code
  bug). `_burn_family` (`oauth.py:671`) promises to revoke every credential of a
  chain and to consume its tokens, and says why it must do both: or else the
  access token lives on for the rest of its hour. It lists the credentials, revokes those and
  then consumes the refresh tokens, in three statements under READ COMMITTED
  with no lock on the family. An exchange of the last refresh token that commits
  after the list was read adds a credential the list does not name; its refresh
  token is consumed with the rest, its access token is not revoked.
  `SparedByOverlap`, of the passing run, shows the extent: only an exchange that
  overlapped the burn, or a rotation of what it left, survives.

Observed while modelling, and not kept as runs:

- A cumulative row carries the run and the tier of its latest increment only
  (`leaderboard_routes.py:866`). After a mode is opened to runs, the first run
  makes a total of raw points show as validated, which `models.py:64` says raw
  and cumulative submissions never are.
- A refresh rotation commits before the handler reads the user in a second
  transaction (`auth_routes.py:289`); if that fails or the answer is lost, nobody
  holds the new token and the old one is gone. The client logs in again.
- A logout deletes one token. If that token has just been rotated, by another tab or
  by a refresh whose answer is on its way, the answer is 204 all the same and the
  session lives on with its new token. `LogoutIsFinal` and `LogoutBoundsAccess` speak
  of the logouts that were given the live token.
- A marker may be forgotten up to the length of one transaction earlier than the
  retention counted from its commit: `first_seen` is the transaction's beginning.
- Two replays of an imported key with different bodies may both be answered, and the
  digest that lands last stays (`service.py:633` accepts it). `KeyAnswersOneBody` says
  that this is the only way a key answers a body it was not used for.
- One cache store is not "exact": a read that overlaps a commit stores the old
  page after it was dropped, the case `StaleOnlyByOverlap` singles out.
- A promotion judgement that keeps the folder renames a note that was retitled
  since it was created, although the comment at `service.py:3009` says it stays
  put; and retiring the candidate of an accepted case clears the case's reference
  to it, which the comment at `service.py:2699` calls durable.
- The remap overwrites a governed write that lands between its read and its
  write. `EdgesMeanWhatWasSaid` excepts the documents in `raced`, and shows that
  this is the only way a repair loses what was said. An amendment that is accepted
  after its row was resolved or remapped writes the old list back; that loses nothing
  but the repair.
- A plan reads the pages, and then the notes. A page that another run writes in
  between may leave out a note that this plan takes for covered: it is offered by the
  next one. `RunsConverge` speaks of plans under which no page was written.
- A `Related` value in the shape of an id is neither remapped nor looked up by the
  import (`wikilinks.py:91` calls the residual accepted): a former id or a bare slug is
  stored as it is. `ImportsAreTrue` says that nothing else a page cites can dangle.
- `resolve_vault_wikilinks.py:227` says that the script takes no corpus lock;
  line 183 takes it.
- An operator's `revoke --id` of an OAuth credential leaves its refresh token
  able to rotate; the family command is the one that ends a session.
- The console. A tab that finds no record falls back on the refresh token in its
  memory and may present a consumed one (`NeverThePredecessor` speaks of the
  calls that found a record). Two parallel calls of one tab refresh in turn and
  use up each other's retries. A tab opened before the first sign-in registers
  anew and overwrites a live record. A sign-out while a refresh is in flight
  stores the answer as a record without its client, and can leave the session
  alive.

## 5. Bounds

Players, keys, notes, proposals, tokens, tabs and handlers are the fewest with
which each hazard can occur: two handlers for every race (no step involves
three), two keys or notes where one must not be confused with the other, three
where a third has to collide with the choice made for two.

- `Scores`. `MaxDay` covers a day, a week and an expiry of the retention
  (`DaysPerWeek = 2` and `Retention = 1` make all three happen within it; only
  their order matters). `BigintMax = 3` puts the overflow within reach.
  `Histories` bounds what `CreateGameMode` may do: the configurations of one mode
  over its life lie in one of the given sets, so that one run covers several
  boards without their product.
- `Accounts`, `BoardCache`, `VaultCorpus`. `MaxRev` bounds the content revisions,
  `MaxTime` the instants, `MaxChanges` the changes of the cached pages.
  `SimilarLimit` is the neighbour limit of `find_similar`.
- `VaultOAuth`. Three tokens are a first pair and two rotations, so that a burn
  may overlap one exchange and be followed by another; two ticks exceed every
  lifetime. One client and one approval suffice, since no property relates two
  of them; the second family is there for a code that would be spent twice.
- `VaultCompile`. The stamps suffice for a writer that begins before and commits
  after each step of a run; `MaxRev = 2` is one change of a note.
- `VaultRepairs`. `MaxChanges` bounds the changes governed writers make, two, or
  one while an import is at work; the corpora found are a page that cites a note
  by its name and by its old id, with and without a list kept earlier, or while an
  earlier import left that note there twice. The batch cites a sibling, a note by its
  name, and in `Related` the old id and a bare slug too.
- `VaultGate`. `Parts = 2` and refills of one or two parts make a token take two
  ticks, or one; `PruneAbove = 0` prunes at every
  charge, `PoolSize = 1` makes every checkout contend.
- `VaultWalks`. Pages of one row put every tie on a page boundary. One write
  during a walk, and one file in disorder when an export begins (`MaxStrays`),
  are what each property must withstand at least; an interrupted export adds
  more.
- `VaultConsole`. One family with a token and its successor: a tab that was left
  behind by one rotation presents what the record has moved past. A second
  sign-in is outside the bound.

A *scope* restricts a specification to some of its behaviours, so that one
configuration asks a question in several small worlds and not in their product.
`MCScores`, `MCVaultCorpus` and `MCVaultGate` choose one of a few at the start
(`ScopedSpec`), the last between searches against readings over two credentials
(`quota`) and searches against operators (`operators`); in the others `SmallSpec`
keeps what happens together small: in `CompileRuns` two notes and one run or one note and two runs; in `Repairs`
imports or the other repairs; in `Walks` listings or exports. What a scope
leaves out is combinations, never an action: every action takes place in some
run.

Symmetry is declared over interchangeable names in runs with safety properties
only; `CacheConvergence`, which has a liveness property, uses none.

## 6. Assumptions and fairness

Only `EventuallyCurrent` needs fairness. `FairCacheSpec` assumes weak fairness of each
handler's own step (a running coroutine that is not lost is resumed by the event
loop) and of the clock (a time to live passes by itself). Nothing is assumed of
requests, commits, evictions or invalidations: `Lose` may drop any of them, as a
failing cache call does in the code, so the property rests on the time to live
alone, which is what the code relies on too.

`OAuthAssumption` has `AccessTTL <= RefreshTTL <= Retention`: with the shipped
values an hour and thirty days; a shorter `--retention-days` would let the prune
job delete a revoked credential, and with it its refresh token, before that lapses. `VaultGate` is one
worker: buckets are per process, so with two workers a principal may spend each
quota twice, and a restart forgets what was spent. `PRINCIPAL_LIMITS` is empty in
the code at present; the run fills it. The limiter's lock is never waited for,
since it is held over no await.

## 7. Proofs

Each proof module proves, for all values of the constants that satisfy the
assumption named in its component's module, every invariant and action property
that the runs check of its component (of `EditsAreSerial` the refinement itself). No
theorem has another hypothesis. Each subsection says what had to be added to a
property before every step keeps it: what the code relies on without saying so.

### Scores

`ScoresProofs`, under `ScoresAssumption`:

| theorem | property |
|---|---|
| `TypeCorrect` | `TypeOK` |
| `CreditedAndRecordedOnce` | `CreditIsRecordedOnce` |
| `BoardsShowWhatCounts` | `BoardShowsWhatCounts` |
| `BoardsAreExact` | `BoardIsExact` |
| `AnswersTellTheTruth` | `AnswersAreTrue` |

- *Types*: inductive with `HandlersSound`, what a handler has read by each of its
  statements.
- *Credit*: the three parts of the property are inductive with `LedgerFits`, that an
  entry of the history is not dated ahead and the rows of its buckets exist, and
  `MarkersKept`, that a raw entry of a cumulative board has its marker, stamped no
  earlier than the entry's own, until the retention has passed since the beginning of
  its transaction.
- *What a row shows*: inductive with the types and with `LedgerFits`. An entry is
  admitted by the configuration its handler read, which stays in the history of the
  mode however often the operator changes it; the row is then the new entry's or
  keeps showing the old one.
- *Boards*: a row's mode has had a configuration, so "always cumulative" and "always
  best" are not said of modes nobody opened. A best row is an optimum among the
  entries of its bucket because each upsert compares with the row itself, not with
  what its handler read. A cumulative row is the sum of its entries: the ledger is
  finite, and an entry that is added is a new one (`CreditedOnce` for a run, the place
  `nth` among the entries of its key for an increment). The sum is the
  library's fold over a set in the order of `CHOOSE`. Section 4 of the module shows that the
  order does not matter, by an induction over the subsets of a finite set that needs
  no operator as a parameter.

### Accounts

`AccountsProofs`, under `AccountsAssumption`:

| theorem | property |
|---|---|
| `TypeCorrect` | `TypeOK` |
| `OwnersAgree` | `IdentitiesAgree` |
| `OwnersKept` | `IdentityKeepsOwner` (action property) |
| `AccessTokensAreTrue` | `AccessIsTrue` |
| `SessionsChain` | `SessionsAreChains` |

The types are inductive once answers on their way are known to carry tokens that
were issued. With them, `IdentitiesAgree` and `SessionsAreChains` are inductive as
they stand: both are kept inside one transaction by a row lock or a unique key.
`AccessIsTrue` is not: a handler reads whether the account is a guest in one
transaction and signs the token after it. `HonestToken` and `HonestRequest` say what
such a handler knows between the two; no account goes back to being a guest, and the
guest pruner deletes none that was claimed. Its second half needs an argument about
what is in flight (`BoundInv`, section 5 of the module): the token a refresh has
created is with no client until its answer is delivered (`NotDelivered`), and it is
the only live one of the session, so nobody can end the session while the refresh is
still to sign an access token for it (`SessionsOpen`). So every access token of a
session is signed before its logout, with a deadline at most one lifetime ahead
(`DeadlinesNear`), and a rename keeps the deadline.

### The write path

`VaultCorpusProofs`, under `CorpusAssumption`:

| theorem | property |
|---|---|
| `TypeCorrect` | `TypeOK` |
| `EmbeddingsMatch` | `EmbeddingMatchesText` |
| `StaleProposalsAreStale` | `StaleIsTrue` |
| `AcceptanceKeepsItsBase` | `AcceptedOnItsBase` (action property) |
| `RevisionsAcceptOnce` | `OneAcceptedPerRevision` |
| `NamesAreUnique` | `PathsAreNames` |
| `GateAlwaysHolds` | `GateHolds` |
| `LedgerAlwaysTrue` | `LedgerIsTrue` |
| `WritesAreSerial` | `ImplementsSerial`, the refinement of `GovernedCorpus` |

Of the assumption: `Legacy` is finite and its contributions differ in key and title,
as the importer leaves them; the sets of bodies a client may send are subsets of the
right types. Nothing bounds the number of notes, proposals or handlers.

The argument. `TypeOK` is not inductive: publishing or discarding follows a
pending case to its candidate, and removing a note clears pointers to it, so
pending cases must be known to have one (`PendingCaseHasCandidate`); and the
free name of `ResolvePath` exists only because the set of notes is finite. With
these two it is `TypeInv`. The matching of vectors and texts needs a fact about
handlers that spent time outside the lock, since a vector is computed in one
transaction and stored in another. The invariant is
`Inv == TypeInv /\ EmbeddingMatchesText /\ ProposalsOnBase /\ RequestsCurrent`:
a proposal's recorded base, and a summary handler's copy of the text, agree with
the note *as long as the note is at the revision they name*; and a proposal never
names a revision the note has not reached. The key lemma,
`ContentFollowsRevision`, says of every step that a note whose revision is
unchanged has unchanged content, and that revisions only grow; the compare of
revisions under the lock (`AtRevision`, `OnBase`) then makes the copy good, and
an accepted or stale proposal's revision is never reached again. Path uniqueness
is an invariant of its own: each path written is free of the paths in its folder
(the pigeonhole lemma `ResolvedPath`), and paths in other folders differ.

The last three rest on one lemma, `Effects`: every step of every handler leaves the
corpus alone or has one of seven effects on it (`Contributes`, `Edited`, `Replaces`,
`Summarises`, `Reclassifies`, `Accepts`, `Closes`), each stated without the handler
that had it. It needs that handlers and proposals name notes that were published
when they began (`NamesPublished`). From there each proof is a case for each effect.
`GateHolds` is inductive with `FlaggedInReview` and `CasesAreOfNotes`: a decision
works on the notes of its case, so those must be notes still. What `LedgerIsTrue`
says of notes is inductive with `MadeUnderItsKey`, that a note's key is the one in the
ledger, and `GoneWereNotes`, that an event names a note there was; what it says of
bodies (`DigestInv`) with the facts that a digest that cannot be compared is an
imported one and that only those are restated. For the refinement,
`EffectIsSerial` shows that an effect is one write of `GovernedCorpus`, on the notes
as a reader sees them (`Shown`, `Drafts`), or a stutter; the compare of revisions
under the lock is what makes the text a handler read earlier the text the abstract
write starts from. The run `CorpusWrites` checks the same edits step by step
(`EditsAreSerial`).

### Compile runs

`VaultCompileProofs`, under `CompileAssumption`, which says that notes and pages are
rows of one table and so have different ids; nothing bounds notes, runs, planners or
stamps:

| theorem | property |
|---|---|
| `TypeCorrect` | `TypeOK` |
| `ReportsAreFinal` | `SettledIsClosed` (action property) |
| `PlanningIsExact` | `PlansAreExact` |

- *Types*: inductive with `RunsOpenOnce` (a run whose row is entered is no other
  planner's), `StampsPassed` (every stamp is in the past, and a refusal's is later
  than its run's) and `NotesStay` (a note that a page or an agent names is published
  or gone for good).
- *Nothing is forgotten*: whoever has read a note at a revision, an agent, a page or a
  refusal, still knows it unless the note's stamp says otherwise, or its writer was at
  work when the run was opened (`Knows`, `SeenOrInFlight`) or the refusal stamped
  (`RefusalsAreRead`). A writer's stamp is older than its commit, so both need a
  conjunct about the writers that have begun: one with a stamp before the run's is
  among those the run saw (`WritersInFlight`, `WritersBehind`).
- *Compiling ends*: what a run has left always contains what a plan would offer
  (`OffersAreTodo`). A page takes itself and its notes off and puts back the notes it
  leaves out; a refusal is stamped after the run, hence after every change. It holds of
  a plan whose pages are still as it read them when it reads the notes.

### The repairs

`VaultRepairsProofs`, under `RepairsAssumption`: an id is in one class of the
import maps at most (`IdentityClasses` joins classes that meet), ids, former ids and titles
differ, and the corpora found and the set of files are finite. Texts are numbered by the
revision that brought them. Nothing bounds scripts, requests, classes or lists:

| theorem | property |
|---|---|
| `EdgesKeepTheirMeaning` | `EdgesMeanWhatWasSaid` |
| `EmbeddingsFollow` | `EmbeddingFollows` |
| `SummariesAreApt` | `SummariesFit` (action property) |
| `ImportsTakePlaceOnce` | `ImportsAreTrue` (action property) |

- *What a request knows.* An amendment and a remap hold a list that carries what was
  said (`Carries`) *as long as the row has the revision they read*; the resolver's plan
  is exact while it has the lock (`ResolverHolds`); what the backfill read is the text
  of the revision it names (`ReadsAreTexts`). `Steady` says of every step what makes
  that last: revisions only grow, an id that is gone does not come back, and at one
  revision a row keeps its text and what it has kept, and means one thing. The remap and
  the resolver rewrite rows without moving the revision, so none of this says that the
  row is as it was read, only that both lists carry the same.
- *Edges.* A name that is resolved is recorded; one that is dropped is in the list that
  is kept, since `Conflict` leaves alone a row with another one. A resolved id may be
  remapped later, so a name *means* the id it became and whatever is the same document.
  `ResolutionIs` says what `resolve_edges` returns, for any list and any index:
  everything that is no name, every ambiguous name, and the one bearer of each other,
  whichever order they come in.
- *Imports.* Two imports in flight never have an id in common, and the second finds the
  pages of the first (`Claimed`). Sources are notes that are there (`Plannable`), ids in
  `Related` are whatever they were. `NamesAreTrue` is what planning again shows of the
  corpus with the pages in it.

### The authorization server

`VaultOAuthProofs`, under `OAuthAssumption`, so for any number of clients, approvals,
tokens and handlers:

| theorem | property |
|---|---|
| `TypeCorrect` | `TypeOK`, with the foreign keys |
| `OneSession` | `OneSessionPerApproval` |
| `GrantDecides` | `LiveIsProjection` |
| `ReviewApart` | `ReviewIsSeparate` |
| `BurnSparesOverlaps` | `SparedByOverlap` |
| `NothingForgotten` | `NothingNeededIsForgotten` (action property) |

Each rests on an invariant of its own.

- *Sessions* (`SessionInv`). The lemma `Sessions` says of every step that no token
  minted before it comes back to life (`Wanes`), and that a step which mints one
  (`Mints`) opens a new family or spends a live token of the same one. Hence at
  most one token of a family is live or has a credential that is not revoked, and
  it is the same token. Both halves are needed: without the second, a rotation
  that spends one token could leave the credential of another working.
- *Scopes* (`ScopeInv`). The two properties are not inductive: a rotation holds the
  scopes it was asked for while operators change the grant. What saves it is that
  an operator changes only what the family is entitled to and a rotation only what
  it is authorized to, and that a second rotation kills the first one's token; so
  a request asks within the authorized scopes *as long as its token is live*
  (`AskedWithin`), and a grant entitled to review is authorized to read at most
  (`EntitledApart`).
- *Burns* (`BurnInv`). `Covers` says for each statement of a burn what it holds by
  then: the family's live tokens are listed, then locked if their credential can
  be revoked, then about to be consumed, all but the late ones. `Partners` says
  that outside the late ones a credential works only while its refresh token can
  be rotated; here `AccessTTL <= RefreshTTL` is used.
- *Pruning* (`Aged`). A refresh token lapses within its lifetime of the revocation
  of its credential, so with `RefreshTTL <= Retention` a credential revoked longer
  ago than the retention takes no usable token with it.

### The gate

`VaultGateProofs`, under `GateAssumption`:

| theorem | property |
|---|---|
| `TypeCorrect` | `TypeOK`, with the count of connections |
| `AuthorityHolds` | `AuthorityIsTrue` |
| `QuotaIsKept` | `QuotaHolds` |

The assumption has, besides types, that every kind a client asks for is charged to a
bucket of `Limits`: `LIMITS` has all of them, and `limit_for` raises for another.
Overrides are any (`PRINCIPAL_LIMITS` is empty at present), and time and the limits
are any numbers.

- *Types*. `RequestEffects` says of every step that it begins a request, gives one a
  connection, moves one on without it, or starts afresh. The count is exact because a
  request has a connection only at a step that works with the database
  (`RequestsSound`), so every way out gives back what was taken.
- *Authority*. Inductive with what a command in flight knows: its copy of the scopes
  is still that of the row, and no other command works on that row (`AuthorityInv`);
  both come from the row lock. A request that came late finds its credential unusable
  at every later time as well (`LateInv`).
- *Quota*. `QuotaHolds` says nothing of what may still be spent, so it is not
  inductive. `Reserve` does: in any stretch that ends now, what was spent and what
  the bucket holds now together stay within the burst and the refill of the stretch.
  A charge moves a token from one to the other (`Charged`), a tick adds at most one
  refill to both sides (`HeldGrows`), and pruning changes nothing because a bucket is
  forgotten only when it is full by its own limit, override included.

### The page cache

`ClientProofs`, section 1, under `BoardCacheAssumption`, so for any modes, filters,
stores, requests and time to live, and whatever the modes are called:

| theorem | property |
|---|---|
| `StaleCopiesOverlapped` | `StaleOnlyByOverlap` |

`StaleOnlyByOverlap` is about pages that were dropped, and a writer drops them one
prefix at a time, after it has committed. So `WriterSound` says of each page a writer
changed that its key is in a prefix still to be dropped (`WillDelete`), or that the copy
in its store, if there is one, has the change already or came from a read that
overlapped a commit (`Recent`); only then may the page be called settled. An entry lies
at the key of its own page (`EntrySound`), which is what makes dropping a prefix drop
the page, and says nothing of whose request it answers: that is the finding
`CacheNames`. What every other step does to an entry is to drop it, age it or add one
that says itself whether it is current (`EntryMoves`).

### The console session

`ClientProofs`, section 2, under `ConsoleAssumption` (finitely many tabs, calls and
clients, and a `Null` that is none of them):

| theorem | property |
|---|---|
| `PredecessorNeverPresented` | `NeverThePredecessor` |
| `OneTabRefreshes` | the mutual exclusion and the token discipline below, which no run checks |

- `OneRefreshes`: between the lock and its release there is one call. This alone does
  not save the second tab: its globals may hold what the first one has consumed.
- `TokensIssued`: whatever token a tab or the record holds was issued, and the one in
  the *record* has not been consumed. It holds although answers are lost because
  `Spend` takes the token out of the record before it is sent, and because a pair on
  its way from the server is nowhere else until it is stored (`PairsNew`): no other
  call, tab or record can present it first.
- `TakenOut` carries this from the re-reading of the record under the lock to the
  server's answer.

Most steps only forget a token, copy one from the record, or deliver the pair of one
call (`Steady`). The four that do more have lemmas of their own: taking the lock,
spending the record's token, the server's answer, and redeeming a code.

### The listing and the export

`ClientProofs`, section 3, under `WalksAssumption`: finitely many notes, otherwise any
notes, titles, readers, labels, citations, limits and page sizes; the corpora a walk
finds have rows of the right types.

| theorem | property |
|---|---|
| `ListingIsFaithful` | `WalkIsFaithful` |
| `ExportIsFaithful` | `ExportIsOneCorpus` |

- *Pages*. `FollowsIsOrder` and `PositionsInOrder` say that the positions of an order
  are a strict order and that two notes never share one, ties of title or time
  included, because the id is its last part. From that, `PageIs` says what a page
  is: notes in order, each after the cursor, none left out before the last, and not
  empty while there is one to show. `Page` is a `CHOOSE`, so it has to be shown that
  there is such a sequence (`SomePage`: the place of a note is the number of notes up
  to it, and places are a bijection with `1..n`, `PlacesOfNotes`).
- *The listing*. "Exactly once at the end" is not inductive. `NoteSound` is: of a note
  that was not written meanwhile, what has been seen is behind the cursor, and what
  was there from the beginning, is asked for and has not been seen is ahead of it.
  `WrittenKeeps` shows that a write disturbs this for no other note, `NextPageKeeps`
  that a page carries each note across the cursor with itself, in both directions of
  the order and whether or not there is a next page.
- *The export*. While it reads, the rows are those of the snapshot behind the cursor
  (`RunReading`), so the empty page means all of them (`SnapshotPage`). While it
  writes, the files not in the list any more are right (`RunWriting`); while it prunes,
  all of them are, and what is left to remove is exactly what should not be there
  (`RunPruning`). Files outside of the folders are as they were (`Kept`), because what
  is written or removed is inside them (`InExport`). Nothing is assumed of the tree an
  export finds, torn files included.

### Left to TLC

Liveness: `EventuallyCurrent` is checked and not proved, since the prover has no rule for
fairness. The two findings are counterexamples of TLC. What a recursive definition
computes on every input would need an induction whose predicate is a parameter, which
the prover cannot instantiate; the sums, positions and places above are proved because
they need only finite sets and least numbers. That steps are possible at all (no
handler waits for ever, `ENABLED`) is the deadlock check of the runs. The constants
of the runs satisfy the assumptions the proofs are made from: TLC evaluates them.

## 8. Not modelled

- Amendment diffs (`body_diff.py`): arithmetic of hunks and spans over the
  characters of a text. `VaultCorpus` takes the outcome of a diff, a new body or a
  refusal; a model of the arithmetic would be the same loops over smaller strings.
- The frontend's session client (`api/client.ts`): one promise shared by the
  requests of a tab, no lock between tabs. The rotation it drives is in
  `Accounts`.
- Console pages, leaderboard pages and process set-up: templates and wiring. The
  console's session is `VaultConsole`.
- Passwords, Steam, identity and embedding providers: external; the models take
  their outcome, success or failure.
- In the console: browsers without Web Locks or storage, and the upgrade of
  records stored in an older format.
- In the gate: the guards that count addresses (slowapi's), labels of credentials
  and of OAuth clients, which only name rows for an operator.
- `seed_vault_demo.py`, which fills an empty corpus once.
- `slug.py`: in `VaultCorpus` the slug of a title is the title itself, so two titles
  with one slug are represented by one title. `VaultRepairs` keeps slugs in its rows:
  there a name finds an exact title before it finds a slug.
- The export's choice of files: only `*.md` under the owned prefixes count as
  orphans, and a leftover that cannot be decoded aborts the run. `VaultWalks` keeps
  the files that choice leaves.
- Scores above `flag_at` but below 1.0 and approximate index recall: the shipped
  policy flags identical embeddings only. Lexical and vector ranking, their
  fusion, snippets and the grammar of facets.
- Measurement and calibration (floating-point statistics), migrations (one-off
  DDL; the constraints they leave are in the models).

## 9. Plan

Every component that keeps state of its own is modelled, and each safety property of the
runs is a theorem. What could be added, in the order of what it would tell:

1. The ranking of search: that its fusion of two rankings is stable under ties, over
   bounded lists.
2. The frontend's session client beside `Accounts`, as `VaultConsole` is beside the
   authorization server.
3. The server of `VaultConsole` as an abstraction that `VaultOAuth` is shown to
   implement; now the two are connected by this document only.
