# Verification of Test System IO

Test System IO collects the reports of sharded CI test runs: a Rust server
(Actix-web, PostgreSQL, S3) takes uploads, extracts test results in the
background and notifies a React dashboard over a WebSocket. This directory holds
TLA+ modules translated from that server, TLC configurations that check them on
small instances, and TLAPS proofs about them for every instance. Paths below are
relative to `src/apps/server/src` unless they start with `apps/`.

## The system

| Component | State it keeps | Operations | Where it is modelled |
|---|---|---|---|
| JSON ingestion (`api/test_jobs.rs`) | none of its own; per-request locals across `.await` | `init_job`, `init_json`, `upload_json`, `get_json_progress` | `ReportPipeline` |
| Extraction task (`services/extraction.rs`) | in-memory task, not persisted | `extract_job`, `check_report_completion`, `link_screenshots_to_test_cases`, three parsers, `count_statuses`, `lookup_screenshot` | `ReportPipeline` (when tasks run), `ResultExtraction` (what a task makes of the files), `ScreenshotLinking` (what it does with screenshots) |
| Tables (`db/test_jobs.rs`, `db/test_reports.rs`, `db/json_files.rs`, `db/test_results.rs`) | `test_reports`, `test_jobs`, `json_files`, `test_suites`, `test_cases` | single-statement reads and writes; no transactions anywhere | `ReportPipeline`, `ResultExtraction` |
| HTML and screenshot uploads | `html_files`, `screenshots`, two more upload statuses | `init_html`, `upload_html`, `init_screenshots`, `upload_screenshots` | `FileUpload`, `ScreenshotLinking` |
| Object storage (`services/storage.rs`) | S3 objects | `put`, `get`, `list` | `ReportPipeline`, `FileUpload` (set of objects) |
| Event broadcaster, WebSocket endpoint | a broadcast channel of 1000 events; one task per connection | `send`, `subscribe`, ping/pong, lag | `EventFeed`; `ReportPipeline` tracks which status changes are unannounced |
| Web client (`apps/web/src/services/websocket.ts`, `contexts/websocket_context.tsx`) | connection status, reconnection counter and timers, query cache | connect, reconnect with back-off, invalidate on event, refetch | `EventFeed` |
| Sessions (`services/github_oauth.rs`, `db/refresh_tokens.rs`, `db/users.rs`, `apps/web/src/contexts/auth_context.tsx`) | refresh tokens, users, cookies of a browser, what a tab shows | login, callback, refresh (rotation), me, logout, cleanup at start-up | `Sessions` |
| OIDC (`services/github_oidc.rs`, `services/oidc_policy.rs`, `db/github_oidc_policies.rs`) | key cache (24 h), policy cache (60 s), policies | verify, resolve role, policy administration | `OidcAccess` |
| API keys (`services/api_key.rs`, `services/auth_admin.rs`, `db/api_keys.rs`, `bin/`) | `api_keys` | verify, create, revoke, restore, over HTTP and from the command line | `ApiKeys` |
| Report registration and queries (`api/test_reports.rs`, `api/test_results.rs`) | `test_reports`, `report_oidc_claims` | `register_report`, read-only queries | the registered row is the initial state of `ReportPipeline` |
| File proxy, health, configuration, middleware, web pages, infrastructure | none shared | I/O | not modelled |

### How the parts interact

A CI shard calls `init_job` (a row in `test_jobs`, `pending`), `init_json` (a
`pending` row in `json_files` per file) and `upload_json`, which puts each file
in S3, marks the rows `uploaded`, and, when no row of the job is pending, sets
the job to `processing` and spawns `extract_job`. The task reads the uploaded
files back from S3, stores suites and cases, sets the job `complete`, counts the
complete jobs of the report and completes the report when they reach
`expected_jobs`. Every status write is followed by a broadcast; dashboards
refetch on each event. A request of any kind reaches a handler through
`auth/extractor.rs`, which takes an API key, an OIDC token or a session cookie;
the three ways in have tables and caches of their own.

What makes this hard: no handler uses a transaction, so every query is a point
where another request or task may run; values read early (`report.status` in
`init_job`, the pending files and `all_uploaded` in `upload_json`) are acted on
several awaits later; clients send files in parallel and retry; tasks live in
memory only, and nothing at start-up looks for jobs left in `processing`. Events
are sent once, to whoever has subscribed: a slow receiver, a broken connection or
a fetch that overlaps a change may leave a page behind. Two caches in one process
are filled by whoever finds them old, so a slow reader may overwrite newer rows.

### What makes each component correct

- *Ingestion*: no trigger is lost or fired on nothing; rows never run ahead of
  objects; retried registrations yield one job.
- *Extraction*: a job leaves `processing`; the report completes neither early nor
  never; results are stored once.
- *Results*: every result a file reports becomes one row, in order, counted once,
  with the screenshots it names.
- *Events*: after the last change there is an event about it; a dashboard is
  behind only while something will update it, or after a loss (or, as the code has it,
  after an event during its first load).
- *Connections*: a living one is kept, a dead one is closed, the client's socket
  settles.
- *Uploads of other kinds*: progress never goes backwards or below zero; every
  screenshot that has a test case is linked in the end.
- *Sessions*: rotation strands nobody with a revoked token, a role taken away
  fades within an access token's life, a person has one row.
- *OIDC*: a changed policy stops counting within the cache's lifetime, and a
  rotation of the issuer's keys locks nobody out.
- *API keys*: nothing but a restoration undoes a revocation, nothing prolongs a
  key, administrators cannot lock themselves out one by one.

## Modules

| Module | Contents |
|---|---|
| `ReportLifecycle` | Abstract specification: the statuses of one report and its jobs, and which jobs have delivered, as a dashboard may rely on them. |
| `ReportPipeline` | The handlers and the extraction task, one action per await-to-await step; properties and the refinement mapping to `ReportLifecycle`. |
| `MCReportPipeline` | Key assignments and symmetry for TLC. |
| `ReportPipeline_proofs` | TLAPS proofs of nine theorems about `ReportPipeline`, two of them about its states at rest. |
| `FileUpload` | The upload of the HTML files or of the screenshots of one job: registration, batches, progress, upload status. |
| `MCFileUpload`, `FileUpload_proofs` | Symmetry for TLC; proofs of four theorems. |
| `ScreenshotLinking` | Extends `FileUpload`: the linking of screenshots to test cases by uploads and by extraction tasks. |
| `ScreenshotLinking_proofs` | Proofs of two theorems, on top of those about `FileUpload`. |
| `ResultExtraction` | The three formats and their detection, attempts and counts, attachments and the screenshots they name, as operators; the task that writes the rows, with failures. |
| `ExtractedSuites_proofs` | What the operators of `ResultExtraction` make of a document of any size and depth: lemmas about sums, concatenations, nested suites, numbering, look-ups and counts, and the theorem that every result becomes one numbered case. |
| `ResultExtraction_proofs` | Extends it: the inductive invariant of the task, and the four properties of the rows it writes. |
| `MCResults` | Small files in each format, test cases and matches; one of `ScreenshotLinking` and `ResultExtraction` moves in a run. |
| `EventFeed` | From a change in the database to a page that shows it: the channel, one connection's task, the client's socket and its query cache. |
| `MCEventFeed`, `EventFeed_proofs` | An instance for TLC; proofs of four theorems. |
| `Clock` | The time the three authentication modules share. |
| `Sessions` | Signing in, refreshing, signing out and the pages of a browser, query by query. |
| `OidcAccess` | Verification of workflow tokens with its two caches, the administration of policies, the issuer's keys. |
| `ApiKeys` | Verification and administration of API keys, query by query. |
| `MCAuthentication` | Instances of the three; one of them moves in a run. |
| `Sessions_proofs` | Proofs of four theorems. |
| `MachineAccess_proofs` | Proofs of four theorems about `OidcAccess` and of four about `ApiKeys`, the two ways in of machines. |

`ReportPipeline`, `ResultExtraction` and `ScreenshotLinking` all have the
extraction task, seen from the tables each of them has: statuses, JSON files and
the fact that suites were stored in the first, contents and rows in the second,
links in the third. They share no variable: no status depends on the contents of a
file or on a screenshot, the rows of a task depend on nothing another task writes,
and linking sees of the rows only which exist and in which order.

### `ReportPipeline` and the code

*One report.* Reports share no rows, so the model has one; `expected_jobs` is a
constant.

*State.* `reportStatus`, `jobStatus`, `jobKey`, `jsonUpload`, `duration` are
columns of `test_reports` and `test_jobs` (`"none"`: no row, `"null"`: SQL NULL);
`fileStatus` and `extracted` are `json_files.status` and `.extracted_at`;
`suites` holds which task stored the suites of which file, so that duplicates are
visible; `stored` is S3. `duration` is the set of files whose times the column
sums. `pc`, `target`, `seen`, `todo`, `got` are the locals of a handler: its
position, its job, the report status it read, the files it has still to handle
and those it has handled. `unannounced`, `finished`, `reopened` and `faults` are
history: they are read by properties and by no action's guard (`faults` only
bounds failures).

*Requests.* A request is used once, and a retry or a duplicate is another
request with the same content. The task an upload spawns runs on under the
upload's identity, because an upload spawns at most one.

*Steps.* A step goes from one await to the next and contains at most one query,
update or S3 call that matters. A read of a row that is never deleted (`get_job`
before an update of one column; the framework of the report) is part of the step
that uses it. Two queries are merged in one place: `MarkUploaded` takes the first
count of `all_json_files_uploaded` together with the update, because a count of
rows that are never deleted can only grow and the update presupposes rows. Reads
that only fill a response (`get_json_upload_progress`) are left out.

| Action | Code |
|---|---|
| `BeginInitJob`, `FindJob`, `InsertJob`, `InsertJobRefused`, `StartUploading`, `RespondInitJob` | `init_job`, with `find_job_by_github_id`, `insert_job`, the unique index `idx_test_jobs_github_job`, `update_report_status` and the two broadcasts |
| `BeginInitJson`, `InsertFile`, `SetStarted` | `init_json`, `insert_json_files` (row by row), `set_json_upload_status` |
| `BeginUpload`, `ReceiveFile`, `MarkUploaded`, `CountPending`, `SetCompleted`, `SetProcessing`, `Spawn` | `upload_json`: snapshot of pending files, put per file, one UPDATE, two counts, two status writes, broadcast and spawn |
| `LoadFiles`, `LoadFilesFails`, `FetchFile`, `StoreSuites`, `SetDuration`, `SetComplete` | `extract_job` |
| `CountJobs`, `FinishReport`, `AnnounceReport` | `check_report_completion` |
| `Abort`, `Crash` | a failed query, S3 call or client connection; a restart of the server |

*Failures.* `Abort(r)` ends one request or task at any step, `Crash` all of them;
the steps of `extract_job` that carry on after an error (a file that cannot be
fetched, parsed, marked or inserted, a duration that cannot be written) have the
failing outcome among their own. All of them count against `MaxFaults`.

*Mistakes.* An operator that stands directly before another and has its name
with an ending (`RegisteredVacuous` before `Registered`) is a plausible bug in the
code the second one models. No specification uses them; they are substituted to
see that a property notices.

### `ReportLifecycle`

`report`, `job` and `delivered` are what a dashboard sees plus the set of jobs
that were ever complete. It promises: a job is created `pending`, never returns
to it, becomes `complete` or `failed` only after it was `processing`, and the
report is `complete` only once `expected_jobs` jobs have delivered. It allows
what the code does allow: a job may be processed again, and a report may be
shown as `uploading` again. The mapping is the identity on the two statuses and
`delivered <- finished`.

### `FileUpload` and the code

`html_files` and `screenshots` have handlers of their own with the same steps, so
one module models both; `Html` says which. What differs: HTML uploads write
`html_path` before the status (`SetPath`), and screenshot uploads link what they
received, in `ScreenshotLinking`. Jobs share no rows, so one job is modelled,
whose row exists.

*State.* `fileStatus`, `uploadStatus` and `htmlPath` are `status` of the file
rows, and `html_upload_status` (or `screenshots_upload_status`) and "`html_path`
is set" of the job row; `stored` is S3. `pc`, `todo`, `got`, `total`, `progress`
are locals of a handler, `asked` the accepted files of an init request.

| Action | Code |
|---|---|
| `BeginInit`, `InsertFile`, `SetStarted` | `init_html`, `init_screenshots`: accepted files, one INSERT each under the unique index, the status |
| `BeginUpload`, `ReceiveFile`, `MarkUploaded` | `upload_html`, `upload_screenshots`: snapshot of pending files, put per file, one UPDATE |
| `CountTotal`, `CountPending`, `CheckAll` | the two counts of the progress, the subtraction, and the separate count of `all_..._uploaded`; a poll (`get_html_progress`) ends here |
| `SetPath`, `SetCompleted` | `update_job_html_path`, `set_..._upload_status` |
| `Abort`, `Crash` | a failed query, S3 call or client connection; a restart |

*Clients.* `BeginUpload` sends files some init request was *answered* to have
accepted (`Accepted`), in any batches and repeatedly. This is what the handlers'
documentation asks ("Files must be uploaded using the upload_screenshots endpoint
after initialization") and what `scripts/upload-seed.js` does. A client that
uploads before the answer can have `completed` overwritten by `started`.

*Width.* `progress` is `(total - pending) % Modulus`, with `Modulus` for 2^64: a
release build wraps, a debug build panics.

### `ScreenshotLinking` and the code

`cases` are the job's `test_cases` rows and `caseOf` is `screenshots.test_case_id`.
A linker is an extraction task after its last test case, or an upload that
received something, between `MarkUploaded` and `CountTotal` (`AtLinking`): its
next step waits for the linking to end (`Linked`). A linker reads the screenshots
without a link, whatever their status (`ReadScreenshots`), then the test cases
(`ReadCases`, which chooses for each
screenshot the first match by `sequence`), and writes one link after the other
(`LinkOne`). `LinkFails` is an error in any of these, which both callers log and
ignore; `AbortTask` a panic. Failures of linking and extraction have a counter of
their own, so every step of this module is one of `FileUpload` or leaves its
variables alone, and what is proved of `FileUpload` carries over (lemma
`LinkingKeepsUpload`). `Matches` (whose title matches which
folder), `CasesOf` (what a task inserts) and `Sequence` are parameters.

### `ResultExtraction` and the code

*Documents.* A document is what serde makes of a file: the keys at its top (for
`try_auto_detect`) and the suites, tests and attempts below. A full title is a pair
of project and title, a path a sequence of directories and a name, a name a sequence
of letters, so that "ends with" is what `lookup_screenshot` tests. The title of a
Detox suite is the sequence that the code joins with " > ": ancestors that are empty
or have " > " in them, which joining cannot tell from others, are left out.
`AttachmentPrefix` ends at a directory. Messages, durations, start times and content
types are left out: nothing depends on them.

*Nesting.* `Suites(Item)[n]` are the suites at most n - 1 deep, and what the code does by
recursion is a function on them (`Preorder`, one level per step), up to `Depth`;
serde_json refuses a text that nests more than 128 deep, so every document has one.

*Numbers.* The cases of a suite are a function from their sequence numbers, which order
the vector they stand in: a suite of Detox has gaps, because the groups of a file are
numbered together. `NumberedFrom` gives the numbers to cases in the order in which
the parsers of Cypress and Playwright count `global_sequence` up.

*Orders.* Where the code iterates a `HashMap` (the groups of `extract_detox`, the
screenshots) or takes rows without ORDER BY (the files), every order is possible.

| Definition | Code |
|---|---|
| `Normalized`, `Lookup` | `normalize_attachment_path`, `lookup_screenshot` |
| `Preorder`, `CypressSuites`, `PlaywrightSuites` | the recursion of `extract_cypress_suite` and `extract_playwright_suite` |
| `CypressExtracted`, `ExtractDetox`, `PlaywrightExtracted`, `InOrder`, `Detected` | the three parsers, their numbering, and the detection |
| `LastAttempts`, `StatusCounts` | `count_statuses` |
| `ReadFiles`, `ReadShots`, `ExtractFile`, `PassOverFile`, `EndFiles`, `InsertSuite`, `InsertResults`, `EndExtraction` | `extract_job` between the status writes, which are in `ReportPipeline` |
| `RegisterShot` | a row of `init_screenshots`, at any time |

The rows of one suite's cases are inserted in one step, or all but one: nothing
reads them in between that `ScreenshotLinking` does not model row by row.

### `EventFeed` and the code

*One page, one connection.* Readers do not change the channel, so one client
suffices. `Query` is what is cached by the page that is open.

*State.* `version[q]` counts the changes of a query's answer, `data[q]` is the
version in the cache, `fetch[q]` a fetch (`Asked`, or the version on its way).
`sent` is every event ever sent; the channel retains the last `Capacity`, and
`cursor` is the receiver's position. `serving` is the connection's task, `silence`,
`due` and `ping` its clocks, in units of 10 s. `socket`, `closing`, `status`,
`shown`, `attempts`, `timers` are the client's; `closing` counts sockets that
`disconnect()` closed and whose `onclose` is still to come. `clearTimeout` reaches
the timer of `reconnectTimeoutId` only: `newest` says whether it is among the pending
ones. `blocked` says that the browser refuses the URL (a page served over https that
was built with a ws: URL, say), so that `new WebSocket()` throws, every time. From
the limit on, `attempts` turns back to the limit: only comparisons with the limit
read it. `missed` and `absorbed` are history: the queries of which an event or a fetch
was lost since the last fetch began, and those whose first load took an event about a
change that its answer lacks. `changes` only bounds the changes; they may be written
while others are not yet announced.

*Invalidation.* `invalidateQueries` cancels a fetch in flight and asks again, unless
the query has no data yet (`NoData`): TanStack Query (5.90) then keeps the load that is
running, and its answer clears the invalidation. `Message` leaves such a fetch alone.

| Action | Code |
|---|---|
| `Change`, `Send` | a write and its `EventBroadcaster::send` |
| `Upgrade`, `Subscribe`, `Forward`, `Lag`, `Tick`, `Pong`, `TaskFails` | `websocket_handler`, `handle_websocket_connection` |
| `Open`, `Disconnected`, `Timer`, `Reconnect`, `LateClose` | `onopen`, `onclose`, the reconnection timer, `reconnect()`, the late `onclose` |
| `Connect`, `Schedule` | `connect()` with its catch branch, `scheduleReconnect()` |
| `ShowLoading` | the delayed indicator of `connection_status.tsx` |
| `Message`, `Answer`, `Store`, `FetchFails`, `Refocus` | `handleMessage` and the query cache |
| `Break`, `Restart`, `Elapse` | a broken connection, a restart of the server, time |

### `Sessions` and the code

*State.* `users` and `tokens` are the rows ever inserted (a role "gone" is a deleted
user; `deleted` marks what `cleanup_expired` removed). `jar` holds a browser's
cookies, which its tabs share; `step`, `token`, `who`, `minted` are the locals of
the request a tab waits for, and `page` what its `AuthContext` shows. `failed` is
history.

| Action | Code |
|---|---|
| `Login`, `Callback`, `CallbackRefused`, `FindUser`, `InsertUser` | `github_login`, `github_callback`, `upsert_from_github` |
| `InsertToken`, `Respond` | `issue_token_pair` and its answer |
| `LoadPage`, `Me` | `fetchUserWithRefresh`, `get_current_user` |
| `FindToken`, `RevokeOld`, `FindUserById` | `refresh` |
| `Logout`, `RevokeAtLogout`, `Clear` | `logout` |
| `RestartServer` | a restart, and `cleanup_expired` at start-up |
| `Operate`, `Fail` | an operator's change of a row; a query or an answer that fails |

`create_access_token` runs before anything is awaited, so `Mint` belongs to the
query that read the user. `Revoke` is one step although `revoke_by_hash` has a
query and an update: it writes one column, to a value that only grows older.

### `OidcAccess` and the code

*State.* `policies` is the table, `edit` the row an administrator's request has
read, the two caches hold what was read and when it was stored, `published` the
issuer's keys; `check` is a verification with the key it needs and `excused`, which
is history: its key was withdrawn, a fetch or a query failed, or no policy allows it.

| Action | Code |
|---|---|
| `CreatePolicy`, `FindPolicy`, `UpdatePolicy` (any columns, in one UPDATE), `DeletePolicy` | the handlers and queries of `oidc_policy.rs` and `github_oidc_policies.rs` |
| `Begin`, `FindKey`, `FetchKeys`, `StoreKeys`, `FetchFails` | `verify_token`, `find_key_with_retry`, `get_or_fetch_keys` |
| `UseCachedPolicies`, `ReadPolicies`, `ReadPoliciesFails`, `StorePolicies` (with `Decide`, `Matches`) | `resolve_role`, `get_or_fetch_policies`, `matches_pattern` |
| `PublishKey`, `WithdrawKeys` (external) | the issuer |

A signature is either right or made with a key the verifier does not find;
`FetchTime` bounds how long a fetch or a query may take. `JWKS_REQUEST_TIMEOUT`
sees to that for the keys; for the query of the policies it is an assumption.

### `ApiKeys` and the code

*State.* `keys` is the table, `call` a request or a command with the key it came
with; `excuses` is history, for the one property that needs to know whether requests
overlapped.

| Action | Code |
|---|---|
| `BeginCall`, `FindByHash`, `ReadForTouch`, `Touch`, `TouchFails` | `verify_key`, `find_by_hash`, `update_last_used` |
| `CreateKey`, `FindToRevoke`, `RevokeKey`, `FindToRestore`, `RestoreKey` | the handlers of `auth_admin.rs` and the queries of `api_keys.rs` |
| `GenerateCommand`, `ManageCommand` | the two command line tools |
| `CallFails` | a failed query, a client that goes away |

## Runs

| Run | Configuration | Properties | What it shows |
|---|---|---|---|
| `one_job` | 1 job, 2 files, 1 `init_job`, 2 `init_json`, 2 `upload_json`, 1 failure | `TypeOK`, `UploadedIsStored`, `ExtractionHasFiles`, `ExtractionNotLost`, `ImplementsLifecycle` | Parallel registrations and uploads of overlapping file sets: rows follow objects, every trigger has files, whichever upload is last extracts everything, statuses follow the lifecycle. |
| `two_jobs` | 2 jobs (both expected), 1 file each, 3 `init_job` (two of them with one GitHub job id, both before files are registered if both are sent), 2 `init_json`, 2 `upload_json`, no failure | `CompleteReportHasJobs`, `CompletionNotLost`, `AnnouncedAtRest`, `SameKeySameJob` | Two tasks that finish together: the report is completed, and only with both; no status change stays unannounced; a retried registration yields no second job. |
| `recovery` | 1 job, 1 file, 2 `upload_json`, 1 failure, fair | `ProcessingEnds`, `UploadRecovers` | Without failures a job leaves `processing`; after one, any further `upload_json` completes the job. |
| `html_upload` | 2 files, 2 init requests, 2 uploads, 1 poll, 1 failure | `TypeOK`, `UploadedIsStored`, `CompletedHasPath`, `AllUploadedIsCompleted` | Rows follow objects, the path precedes the status, the last of concurrent uploads completes the status and no late `started` undoes it. |
| `results` | linking: 2 screenshots, 1 init request, 2 uploads, 1 task with 2 test cases, 1 failure of each kind; extraction: 2 files, each any of 5 (one per format, one whose keys tell no format, one unreadable), 4 frameworks, 2 screenshots registered at any time, 1 task, 1 failure | `LinkTypeOK`, `LinkingNotLost`, `ResultsConserved`, `SequenceOrders`, `CountsMatchCases`, `AttachmentsFound` | Links are right; whichever of upload and extraction is later links. Every result becomes one row, numbered in order, counted once, with the screenshots it names. |
| `event_feed` | the list of reports, 2 changes of 2 kinds (of 1 kind, once there is trouble), a channel of 1 event, ping every 3 units, timeout 1, 1 reconnection attempt, 1 trouble, fair | `FeedTypeOK`, `BehindHasCause`, `LiveNotTimedOut`, `SilenceBounded`, `Converges`, `Settles` | The page is behind only while an update is under way, after a loss, or since its first load took an event that its answer lacks, and otherwise converges; answers in time keep a connection, silence ends it; the client ends connected or gives up, unless the browser refuses the URL. |
| `authentication` | sessions: 1 person, 2 tabs of 1 browser, 3 refresh tokens, 1 trouble; OIDC: 2 policies (one written as admin by an operator), a pattern that matches one of 2 repositories and the empty one, 2 verifications, and either 2 administrators with 2 edits (1 while both verify), or 2 keys and 1 failed fetch or query; keys: 2 administrators' keys (one that expires) and 1 free id, 2 requests; 3 instants | 12, see below | See below. |
| `extracted_twice` | 1 job, 1 file, 2 `upload_json` | `CompleteMeansExtracted` | Violated: see below. |
| `registered_during_upload` | 1 job, 2 files, 2 `init_json` | `CompletedMeansAllUploaded` | Violated: see below. |
| `report_reopened` | 2 jobs, 1 expected | `OnlyFirstJobSetsUploading` | Violated: see below. |
| `html_progress` | as `html_upload`, no failure | `ProgressWithinTotal` | Violated: see below. |
| `refresh_signs_out` | as `authentication` | `RefreshKeepsSignedIn` | Violated: see below. |

The properties of `authentication`:

| Property | What it shows |
|---|---|
| `SessionTypeOK` | Types; tokens and cookies name rows that exist. |
| `RotationStrandsNobody` | However two tabs overlap in refreshing, signing in and out, a browser at rest does not hold a revoked token, while nothing fails. |
| `RoleFresh` | An accepted cookie's role is the database's, or was changed there at most an access token's life ago. |
| `OnePersonPerAccount` | Overlapping first logins yield one row; both cookies belong to it. |
| `OidcTypeOK` | Types; no policy grants a workflow the role admin, not even one an operator wrote. |
| `ChangedPolicyFades` | A policy whose role or pattern was changed, or that was disabled or deleted, counts for less than the cache's life and one query. |
| `PublishedKeyAccepted` | A token signed with a published key is refused only for a failed fetch or query, a withdrawn key or the policies. |
| `DeletedStaysDeleted` | No overlapping update brings a deleted policy back. |
| `KeysTypeOK` | Types; rows that are touched, revoked or restored exist. |
| `RevocationHolds` | Only a restoration makes a revoked key active, and only a revocation a restored one revoked. |
| `ExpiryFixed` | A key's expiry never changes. |
| `AdminRemains` | Unless requests overlap, an id is spelled unusually, or the caller has no key of its own, an administrator's key remains. |

*Bounds.* `Job`, `File` and the request sets are the numbers of actors and rows;
`MaxFaults` is the only counter and stops failures, never progress. (`MaxTroubles`, `MaxLinkFaults`, `MaxExtractionFaults`, `MaxOutages` do the same in
the other modules; `MaxChanges`, `MaxTokens`, `MaxUsers`, `MaxEdits`, `MaxKid`,
`MaxCalls`, `MaxNow` bound what the environment asks for.) Two requests
of a kind are enough for every race the code has between requests of the same
kind, because a handler never looks at other requests, only at rows; two files
distinguish "all", "some" and "none"; two jobs with `expected_jobs = 2` are the
smallest case in which a count can miss a job, and with `expected_jobs = 1` the
smallest in which a report completes while another job is being registered. The
theorems remove the bounds for what they state. In `results`, `Depth = 3` lets suites nest
in a result in two levels, which tells a parser that forgets the inner one. The first
test case by `sequence` matches one screenshot and the second matches both;
`extract_detox` groups by a `HashMap`, so either may be inserted first, and a
linker can find the first match, a later one, or none. `Modulus = 16` is larger than any count, so a wrapped difference exceeds every
total, as 2^64 does. In `event_feed` a channel of one event makes two unread events
a lag, one trouble is enough for each kind of loss, and with an interval of three
and a timeout of one the answer of a living client falls between two pings, as with
the code's 30 s and 10 s. `OneKindInTrouble` lets two changes of different kinds be written,
unannounced and announced in any order, and keeps to one kind once there is trouble, for
the number of states; the theorem about `BehindHasCause` has any kinds and troubles. In `authentication` three tokens let two tabs refresh with
the same one; an access token of one instant and a refresh token of two expire
within the run. A cache of one instant is old after one tick, and a new pattern changes
what a policy matches. Constraints keep apart what need not meet in a run: a retry of
`init_job` and the files of its job (`RetriesEarly`, in `two_jobs`), a second edit of the
policies and a second verification (`OneKind`); the theorems have neither. The three components of `MCAuthentication`, and
the two of `results`, share no state but the clock, so one of them moves in a behaviour
(`kind`, one of `Moving`) and the others rest.

*Symmetry.* Jobs, files and requests of one kind are interchangeable (`a3`, the
only request with another key, is kept apart); the liveness run uses none.

*Fairness.* `FairSpec` has weak fairness on the steps of each accepted request
and of its task: the runtime polls a task that can run, and a query or an S3 call
returns, successfully or not. Nothing is assumed about clients sending requests
or about failures happening. `FairFeed` has weak fairness on each kind of step that
the runtime or the browser takes by itself: the announcement that follows a write,
the accept or refusal of a connection, the task's receive, tick and pong handling,
and the client's callbacks, timers and fetches, per query. The tasks of tokio and the event
loop of a browser poll what is ready, and every HTTP request is answered or fails
in the end. Changes, broken links, clicks and focus are left to chance; time
(`Elapse`) is not forced either, so no property relies on it.

*Deadlock.* Checked in the runs of `ReportPipeline`, `FileUpload`, `results`: `Rest`
and `ExtractionRest` let the system idle when nothing is in flight, which is the
only state where it may stop. The runs of `EventFeed` and of `MCAuthentication` may stop wherever
the bounds on changes, calls, tokens and time are used up, so it is off there;
`Settles` and `Converges` say what must still happen.

### Where the code departs from its comments

- `CompleteMeansExtracted`. `models/job.rs` documents `Processing` as "Test data
  extraction in progress." and `Complete` as "Extraction complete." A repeated or
  overlapping `upload_json` starts another extraction of the same files (their
  status stays `uploaded`), the first task completes the job while the second
  runs, and the suites are stored twice (`test_suites` has no uniqueness).
- `CompletedMeansAllUploaded`. `models/job.rs` documents `UploadStatus::Completed`
  as "All files have been successfully uploaded." An `init_json` between the count
  and the write leaves `completed` with a file pending, for good.
- `OnlyFirstJobSetsUploading`. `init_job` comments 'Update report status to
  "uploading" if this is the first job', but decides on a status read two queries
  earlier: a second request that read `initializing` too, and inserts its job after
  the first has been answered and its job has completed the report, takes the report
  back to `uploading`. `CompletionNotLost` holds only with this exception (`reopened`).
- `ProgressWithinTotal`. `get_html_progress` "Returns the number of HTML files
  uploaded and total expected." `get_html_upload_progress` (and its screenshot and
  JSON siblings) counts all rows, then the pending ones, and subtracts on `u64`: a
  file registered in between gives 2^64 - 1 uploaded files, or a panic in a debug
  build.
- `RefreshKeepsSignedIn`. `auth_context.tsx` says "Automatically refreshes the access
  token when it expires." `issue_token_pair` answers 302 without a Location, which
  `fetch` hands to the client as a response that is not ok, so `tryRefresh` reports
  a failure: the page shows the person as signed out although both new cookies have
  arrived; only the next load of the page shows them signed in.

### Where a property excuses the code

Nothing in the repository says what should happen in these two cases, so they are
excuses of the properties, named in their comments:

- An event that arrives while the first load of a query is in flight invalidates nothing:
  the load goes on, and if the server answered it before the change, the page shows
  the older rows, with nothing under way, until another event or a focus
  (`absorbed`, in `BehindHasCause` and `Converges`).
- The catch branch of `connect()` schedules the next attempt without comparing it with
  `maxReconnectAttempts`: if `new WebSocket()` throws, the client tries for ever
  (`blocked`, in `Settles`).

## Proofs

`ReportPipeline_proofs` proves, for any sets of jobs (finite), files, keys and requests
and any `ExpectedJobs` and `MaxFaults`:

| Theorem | States |
|---|---|
| `TypeCorrect` | `Spec => []TypeOK` |
| `UploadedAlwaysStored` | `Spec => []UploadedIsStored` |
| `ExtractionAlwaysHasFiles` | `Spec => []ExtractionHasFiles` |
| `ReportCompletesOnlyWithJobs` | `Spec => []CompleteReportHasJobs` |
| `CompletionNeverLost` | `Spec => []CompletionNotLost` |
| `PipelineImplementsLifecycle` | `Spec => ImplementsLifecycle` |
| `InitJobIdempotent` | `Spec => []SameKeySameJob` |
| `ExtractionNeverLost` | `Spec => []ExtractionNotLost` |
| `StatusAlwaysAnnounced` | `Spec => []AnnouncedAtRest` |

Assumptions are the named ASSUMEs of `ReportPipeline`: jobs are finite (for
cardinalities), `ExpectedJobs` is positive (`register_report` demands it), the
three kinds of request are disjoint, keys are typed, and the absent values are
distinct from the present ones.

*Argument.* `TypeOK` contains `ForeignKeys` (a request past its lookup works on a
job that exists; only such jobs have keys, statuses or files), which every other
proof needs to know what a step writes to.

- `UploadedIsStored` alone is not inductive: marking needs to know that the files
  a request has taken are stored. `GotIsStored` adds that for requests that are
  still receiving.
- `ExtractionHasFiles` follows from `TriggerHasFiles`: a request past the first
  test of `all_json_files_uploaded` has rows, one past the second has none
  pending, hence uploaded ones; lemma `FilesGrow` says neither is undone, which is
  where it matters that no code deletes rows or resets a status.
- `CompleteReportHasJobs` follows from `CountedJobs`: complete jobs have been
  finished, `finished` only grows, so a count stays true until it is acted on even
  if the jobs go back to `processing` meanwhile.
- `CompletionNotLost` is inductive: a task writes its own job before it counts.
- The refinement needs `CountedJobs` for the completion of the report and
  `StartedJobs` (a job with a task is past `pending`) for `Deliver` and `Fail`.
- `SameKeySameJob` follows from `KeysHeld`: the unique index keeps keys apart, and
  a request that succeeds holds a job with its own key.
- `ExtractionNotLost` says something of states at rest only; its invariant is about
  who is on the way. `Covered`: a job all of whose files have arrived has one upload
  that is past its mark, or a task that has, for every file, either fetched and
  stored it or it still to do. The hard steps are a second `MarkUploaded` of the same
  files and an `InsertFile` while a task runs. `Attended`: a job in `processing` has
  a task, and no job fails. `SuitesOfStarted`: a job with suites is past `pending`,
  so at rest it can only be complete.
- `AnnouncedAtRest` follows in the same way from `AnnounceInv`: an unannounced change
  has a request or a task that has yet to send its event.

`FileUpload_proofs` and `ScreenshotLinking_proofs` prove, for any sets of files
(finite), requests, tasks, test cases and matches and any bounds on failures:

| Theorem | States |
|---|---|
| `TypeCorrect` | `Spec => []TypeOK` |
| `UploadedAlwaysStored` | `Spec => []UploadedIsStored` |
| `CompletedAlwaysHasPath` | `Spec => []CompletedHasPath` |
| `LastUploadCompletes` | `Spec => []AllUploadedIsCompleted` |
| `LinksAlwaysMatch` | `LinkSpec => []LinkTypeOK` |
| `LinkingNeverLost` | `LinkSpec => []LinkingNotLost` |

Beyond disjoint kinds of request and typed parameters they assume that `Modulus`
exceeds the number of files.

- `AllUploadedIsCompleted` follows from `CompletionInv`. `Noticed` says that when
  nothing is pending the status is completed or an upload is past its mark; the
  step that threatens it is `SetStarted`. `Ownership` (the unique index gives each
  row to one init request) and `Confirmed` (uploads touch only files some request
  was answered for) show that an init request about to write `started` still has
  a pending file (`StartedLeavesPending`).
- `LinkingNotLost` follows from `LinkInv`: every uploaded, matched, unlinked
  screenshot has a linker that `WillLink` it. `MarkUploaded` and `InsertCase` make
  a screenshot due and leave their own linker before its first read; a linker
  hands the screenshot from one read to the next until it writes the link.
- `LinkingKeepsUpload` (`LinkSpec => Spec`, by the shape of `LinkNext`) lets the types of
  `FileUpload` be used for `LinkSpec`.

`EventFeed_proofs` proves, for any channel capacity, set of open queries,
intervals, number of attempts, changes and troubles (`FeedConstants`: positive
numbers, the timeout at most the interval):

| Theorem | States |
|---|---|
| `FeedTypeCorrect` | `FeedSpec => []FeedTypeOK` |
| `BehindAlwaysHasCause` | `FeedSpec => []BehindHasCause` |
| `LiveNeverTimedOut` | `PongTimeout < PingInterval => (FeedSpec => []LiveNotTimedOut)` |
| `SilenceAlwaysBounded` | `FeedSpec => []SilenceBounded` |

- `BehindHasCause` follows from `Cause(q)`, one query at a time: what makes q stale
  is an event not sent yet, one between the task's position and the end of the
  channel, one on the wire, a loss that has been noted, or an event that the first load
  took. The lemmas about
  `Touched` say how that set changes when an event is appended, delivered, or
  skipped by a task that lags.
- `SilenceInv` bounds the silence by `2 * PingInterval + PongTimeout - due`: it grows
  as the time to the next ping shrinks.
- `LiveInv` ties the age of a ping to the time since the last tick. The theorem
  needs the timeout to be strictly shorter than the interval: a tick replaces a
  ping that has not been answered, so with equal times a living client's answer
  could come after the tick. The code's 10 s and 30 s satisfy it.

`Sessions_proofs` proves, for any people, browsers, tabs, lifetimes and bounds
(`SessionConstants`: types only):

| Theorem | States |
|---|---|
| `SessionTypeCorrect` | `SessionSpec => []SessionTypeOK` |
| `RoleAlwaysFresh` | `SessionSpec => []RoleFresh` |
| `OnePersonAlways` | `SessionSpec => []OnePersonPerAccount` |
| `RotationNeverStrands` | `SessionSpec => []RotationStrandsNobody` |

- `SessionInv` says of each table, tab and browser what it knows: rows are added and
  never change hands (`Growth`), a tab that waits for an answer knows the row or the
  token it asked about (`TabOK`), and an access token, in a tab or a jar, carries its
  row's role or one the row lost after the token was made (`JwtOK`). `RoleFresh`
  follows with the token's expiry.
- `OnePersonPerAccount` needs `OneRow`, which the unique index keeps.
- `RotationStrandsNobody` needs `RotationInv`: a revoked token in a jar has a tab of
  that browser which will replace or remove it (`Mends`). That in turn needs that a
  token is known to one browser only (`Own`) and that a new one is known to its
  request only until it is answered (`Unshared`): otherwise another browser's
  refresh could revoke it.

`MachineAccess_proofs` proves of `OidcAccess`, for any policies, administrators, verifications and
lifetimes (`OidcConstants`):

| Theorem | States |
|---|---|
| `OidcTypeCorrect` | `OidcSpec => []OidcTypeOK` |
| `ChangedPolicyAlwaysFades` | `OidcSpec => []ChangedPolicyFades` |
| `PublishedKeyAlwaysAccepted` | `OidcSpec => []PublishedKeyAccepted` |
| `DeletedAlwaysStaysDeleted` | `OidcSpec => DeletedStaysDeleted` |

- `ChangedPolicyFades` follows from `FadeInv`: each row in the cache, or in the hands
  of a verification, is active, enabled and has the role and pattern with which it was
  read, or has been written since (`Vouched`), and
  the cache was filled at most one query after it was read. A slow verification that
  overwrites a newer cache with older rows dates them later than they are; the
  bound therefore has `FetchTime` in it besides the lifetime.
- `PublishedKeyAccepted` follows from `ReachInv`: a verification without an excuse
  looks for a published key until it holds the keys it has fetched; one forced
  fetch is then enough. A failed query of the policies is an excuse: rows of any age are
  not used then, unlike keys.
- `DeletedStaysDeleted`: only the read looks at `deleted_at`; the UPDATE that follows
  may hit a row deleted meanwhile, but writes the columns it was asked to set and no
  other (`PolicyWrites`).

It proves of `ApiKeys`, for any keys, requests and commands (`KeyConstants`):

| Theorem | States |
|---|---|
| `KeysTypeCorrect` | `KeysSpec => []KeysTypeOK` |
| `RevocationAlwaysHolds` | `KeysSpec => RevocationHolds` |
| `ExpiryAlwaysFixed` | `KeysSpec => ExpiryFixed` |
| `AdminAlwaysRemains` | `SomeAdmin(Issued) => (KeysSpec => []AdminRemains)` |

- The two action properties follow from `KeyWrites`, which lists the steps that
  write a row and what they write: `last_used_at` after a revocation does not revive
  a key, and does not undo a restoration.
- `AdminRemains` follows from `ChargeInv`: as long as nothing has excused it, one
  request at a time administers keys, it came with an active admin key, and the key
  it revokes is another one. It is assumed that an admin key was issued to begin
  with (`SomeAdmin(Issued)`): the first comes from the command line or the key in the
  environment.

`ExtractedSuites_proofs` and `ResultExtraction_proofs` prove, for any documents of any
`Depth`, any frameworks, number of files, tasks, screenshots, prefix and number of
failures (`ExtractionConstants`: types only):

| Theorem | States |
|---|---|
| `EveryResultNumberedOnce` | of any document, map of screenshots and first number: what is extracted has as many cases as the document reports results, and they have the numbers from the first on, each once |
| `ExtractionInvariant` | `ExtractionSpec => []ExtractionInv` |
| `SequenceAlwaysOrders` | `ExtractionSpec => []SequenceOrders` |
| `AttachmentsAlwaysFound` | `ExtractionSpec => []AttachmentsFound` |
| `CountsAlwaysMatchCases` | `ExtractionSpec => []CountsMatchCases` |
| `ResultsAlwaysConserved` | `ExtractionSpec => []ResultsConserved` |

There are two layers. The first is about one document and has no state:

- Facts about recursive functions need induction, and the library's theorems for it
  take an operator as a parameter. `NatSet` does with a *set* of numbers instead (it
  has 0 and is closed under successor, so it has every number), and follows from `Least`
  and the well-foundedness of `<` on `Nat`. `SumsFacts` and what follows it (sums are
  additive over concatenation; `FlattenSeq` has the sum of the lengths, and its
  elements are those of its parts) are proved with it, and so are the facts about
  nested suites, with the depth as the number.
- `ResultsConserved` counts what a file reports in another way than the parsers do:
  `Leaves` adds up numbers level by level, `Preorder` concatenates. `EveryResultNumberedOnce`
  shows that the two agree, for each format; for Detox the groups of a
  file partition its numbers, in whatever order they come.
- `Made` says what an attachment of a case looks like: its path, and what `Lookup`
  found for it, normalised or not. What is true of every look-up (what it finds has
  been read; it is missing only if no screenshot has its name; the one it names
  is preferred) is proved of `Made` once.
- `LastAttempts` is a fold over the numbers; that it keeps, per full title, the
  attempt with the highest retry and of equals the first, is proved over its end.

The second is the inductive invariant `ExtractionInv` of the task. None of the four
properties is inductive: they speak of rows, and rows are copies of what a task has in
memory. The invariant says of each task (`TaskInv`)

- that it has every file of the job once (`EveryFileOnce`), and that it writes nothing
  before it has read all of them (`InStep`): no number is given after a row exists;
- that no number is given twice, none at or above `next` has been given, and
  numbers grow from file to file (`NumbersInOrder`): files that are passed over leave no
  gap that another file's cases could fall into;
- that each case was made of the file it is in and of the screenshots the task has read
  (`CasesMade`), all of which are registered;
- that, while nothing has failed, a file that has been read has as many cases as it
  reports (`NothingLost`);

and of the tables, that a task's rows are cases of the suites it has written, and all of them
while nothing has failed (`RowsInv`), and that a row of `test_suites` counts the cases
of its suite (`SuiteRowInv`). TLC found `ExtractionInv` to hold in every state of the run
`results` before it was proved.

*Only model-checked.* The liveness properties `ProcessingEnds`, `UploadRecovers`,
`Converges` and `Settles`: fairness and ENABLED are out of the prover's reach. Every
invariant and every action property of the passing runs is stated by a theorem.

## Not modelled, and why

- Reading and authorisation of each route: role checks at the top of a handler are
  guards on who may call; queries change nothing.
- Contents other than results: validation of file names, sizes and MIME types,
  multipart framing. A duplicate name in one `init_json` list behaves as two
  requests that register the same file.
- Cryptography: a signature or hash is right or it is not. Comparison of hashes, the
  base64 of cookies and the digits of ids are left out, except that an id can be
  spelled in more ways than one, on which a check depends.
- Concurrency inside one statement: PostgreSQL runs each as a unit.
- Statuses no code writes: `processing` and `failed` of reports, `failed` and
  `timedout` of uploads.
- Test result queries, the file proxy, pages and components: they read and render.
  Configuration, logging and the health check have no state that changes after start.
- Migrations: the indexes and constraints that matter are in the modules that write
  the tables.
- A panic of an extraction task (`truncate_message`, see the hazards): wording of
  messages is not modelled; its effect on the job is that of `Abort`.

## Plan

Everything planned so far is modelled, and every safety property of a passing run is
proved. What could be added, in this order:

1. An abstract specification of the table of sessions that `Sessions` implements, as
   `ReportLifecycle` is for `ReportPipeline`, with the refinement proved.
2. The composition of `ReportPipeline` and `EventFeed`: the announcements of the first
   as the changes of the second.
3. An abstract table of results that `ResultExtraction` implements: a task adds, for a
   job, rows that a function of its files determines, up to the order of groups.
