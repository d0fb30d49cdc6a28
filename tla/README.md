# TypstPad in TLA+

TypstPad is a collaborative editor for Typst documents: a Go application
(REST and MCP API, authentication, versions, server-side compilation) with a
Postgres database and a blob directory, a Node sidecar (Hocuspocus, Yjs) that
holds the live documents, and a React editor in the browser. This directory
models the parts of it in which several actors work on the same state, checks
them with TLC and proves the central results with TLAPS.

## 1. Inventory

| Component | Code | State it keeps | Operations | Talks to |
|---|---|---|---|---|
| Suggestions (tracked changes) | `internal/api/annotations_handlers.go`, `internal/store/annotations.go` | `suggestions` rows: status, two anchors | create, re-anchor, accept, reject | Postgres, sidecar (RelPos, AbsPos, Edit), hub |
| Comments | same files | `comments` rows, threads, read anchors | create, reply, edit, resolve, delete | Postgres, sidecar (RelPos), notifications |
| Document sync | `collab/src/server.ts`, `internal/api/collab_handlers.go`, `internal/collab/collab.go` | the Yjs documents in memory; `yjs_state`, `file_contents` | authenticate, load, seed, store, doc-ops | browsers, Postgres through the app |
| Version scheduling | `internal/versions/versions.go` (MarkDirty, Run, sweep), `cmd/typstpad/main.go` | the `dirty` map | mark, sweep | document sync, snapshots |
| Snapshots and restore | `internal/versions/versions.go` (Snapshot, Restore), `internal/store/versions.go`, `internal/api/versions_handlers.go` | `snapshots`, `snapshot_files`, blobs | snapshot, dedup, restore, diff | files, sidecar, blob store |
| Files | `internal/api/files_handlers.go`, `internal/store/files.go` | `files`, lock flags | create, upload, rename, lock, delete | blob store, hub, quotas |
| Access: roles, members, links, teams, trash | `internal/api/roleauth.go`, `sharing_handlers.go`, `teams_handlers.go`, `projects_handlers.go`, `internal/store/projects.go`, `teams.go` | memberships, grants, links, `deleted_at` | every access decision; add, change, remove, join, leave, trash, restore | Postgres |
| Projects, templates, import/export | `projects_handlers.go`, `exportimport_handlers.go`, `internal/seed` | `projects` | create, duplicate, publish, import | files, sidecar |
| Accounts and sessions | `auth_handlers.go`, `tokens_admin_handlers.go`, `oidc.go`, `internal/auth`, `internal/store/users.go`, `tokens.go` | users, sessions, one-time tokens | register, verify, login, reset, OIDC, administer | mail, settings |
| Settings | `internal/settings/settings.go` | `settings` table and its cache | get, set | everything |
| Events | `internal/api/sse.go`, `web/src/pages/EditorPage.tsx` | subscribers and their buffers | publish, subscribe, drop | browsers |
| Blob store | `internal/blob/blob.go`, `proxy_handlers.go` | files under the blob directory | put, get, link | disk |
| Compiler | `internal/compile/compile.go` | slots, scratch directories | acquire, run, time out | typst binary |
| Rate limiter | `internal/ratelimit/ratelimit.go` | fixed windows, one per key | allow, collect | auth, compile and assistant handlers |
| Quotas | `roleauth.go` | none (counts rows) | check before create | Postgres |
| Suggest mode | `web/src/editor/suggestMode.ts` | pending records in the editor | record, coalesce, flush | suggestions API |
| Browser editor | `web/src` | React state, Yjs replica, compiler worker | edit, render, refetch | all of the above |
| Collections, favourites, notifications, audit log, search | `collections_handlers.go`, `notify.go`, `internal/store` | rows | single statements | Postgres |
| MCP and CLI | `internal/mcp`, `cmd/typstpad` | none | wrap the REST API | app |
| Mail, metrics, observability, configuration | `internal/mail`, `metrics`, `obs`, `config` | none of interest | I/O | outside |

### What is hard here

* A handler is a sequence of separate statements and HTTP calls, hardly ever a
  transaction, and any number of handlers run at once (`net/http` goroutines).
* The text is shared with browsers that write to it at any time through the
  sidecar; the app sees it through calls that take offsets or return copies.
* A call to the sidecar may time out after it took effect; a request's context
  ends when its client leaves, and everything after that fails.
* Postgres, the sidecar's memory and the app's memory (`dirty`, settings cache,
  rate windows) survive different crashes.
* Check-then-act on the database: roles, quotas, last administrators, locks,
  hashes, one-time tokens.

PROJECT.json lists the hazards with their lines and the properties that cover them.

### What makes each component correct

* Suggestions: a verdict is given once, and the edit it owes is made once, at
  the anchored place, or the suggestion is open again.
* Document sync: no replica shows the initial text twice (as long as no document
  left the memory before its first store); what a store wrote stays; what was
  typed gets stored; the text mirror follows the Yjs state.
* Versions: every stored change is captured by a snapshot in time; a snapshot
  nobody disturbed is the project with its live text; a restore nobody disturbed
  yields the snapshot, and destroys nothing that no snapshot holds.
* Access: a decision follows the grants at the time of the decision; a project
  has its owner; a team that has an administrator is not left without one by a
  request to demote or to leave (deleting accounts and adding members again have
  no such check); a trashed project is out of reach; a locked file is changed by
  the owner only.
* Accounts: tokens are spent once; a reset ends the sessions of older passwords,
  if the statement that does so succeeds; an instance keeps an administrator; a
  built-in template is not seeded beside one that is live under its name.
* Projects: a quota holds up to the requests of the same moment; a published
  template is complete; a request to delete a file does not delete the main file
  (restoring a version may).
* Rate limiter: a client gets its limit per window and is refused only after it.
* Blob store: what readers find under a hash is whole. Settings: cache, rows and
  sign-on provider agree once nobody is saving. Compiler: every slot comes back.
  Hub: a list at rest in a tab is the one in the database. Suggest mode: what was
  typed is recorded, once.

## 2. Plan

One module per component; a component whose properties are proved has a module
of proofs beside it, and `MC...` modules exist only where a run needs a constant
that a `.cfg` cannot write (a record, a symmetry set). Modules are written to be
proved about as well as checked: no `RECURSIVE` operator, one action per handler
or per statement of a handler, invariants as conjunctions of named parts.

| Order | Module | Component | State |
|---|---|---|---|
| 1 | `Suggestions`, `SuggestionLedger`, `SuggestionsProofs` | Suggestions | done |
| 2 | `SnapshotSchedule`, `SnapshotScheduleProofs` | Version scheduling | done |
| 3 | `Versions`, `VersionsProofs` | Snapshots and restore | done |
| 4 | `DocSync`, `DocSyncProofs` | Document sync | done |
| 5 | `AutoVersions`, `AutoVersionsProofs` | `DocSync` and `SnapshotSchedule` together | done |
| 6 | `Access`, `AccessProofs` | Access, trash, locks | done |
| 7 | `Projects` | Quotas, copies, templates, import, files | done |
| 8 | `Accounts` | Registration, one-time links, sessions, administrators, single sign-on | done |
| | `MCAccountsProjects`, `AccountsProjectsProofs` | the two side by side, and the proofs of both | done |
| 9 | `RateLimiter`, `BlobStore`, `Compiler`, `Settings`, `Events` | the services of the server | done |
| 10 | `SuggestMode` | Suggest mode in the browser | done |
| | `MCServices`, `ServicesProofs` | 9 and 10 side by side, and their proofs | done |

Compositions and abstract specifications:

* `SuggestionLedger` says what the suggestion workflow promises (verdict and edit
  are one step); `Suggestions` is shown to implement it as long as no answer is
  lost and no request cancelled, by TLC and, step by step, by proof (`LedgerImplemented`).
* `AutoVersions` joins the actions of `DocSync` and `SnapshotSchedule`: a `PUT` of
  the sidecar is a step of both, and a snapshot reads the text there is by then.
  It shows end to end that what was typed is in a snapshot, and implements
  `SnapshotSchedule` for its one project (`ScheduleImplemented`).
* `Versions` has what a snapshot of several files holds; it and the two above
  abstract each other by one action (`Snapshot` / `SnapshotCreated`, `DocStored`).

What is left: comments with their anchors; an abstract ledger for the case that
answers are lost (the one there is promises too much for it); a proof that the
text of suggestions and the documents of `DocSync` are the same one.

## 3. The modules

Names follow the code: an action that models a handler or a method has its
name (`handleJoinLink`, `applySuggestion`, `sweep`), an action that models a
statement of a handler has the name of the store method or the call. PROJECT.json
maps each definition to its lines. Operators introduced by a comment `Mutant:`
belong to no specification: each is a plausible wrong version of the definition
it precedes, kept to show that a property would notice.

### Suggestions

`annotations_handlers.go:107-302`, the store methods it calls, and `/rel-pos`,
`/abs-pos`, `/edit` of `server.ts`.

* The text is `doc`, the sequence of all characters ever inserted, and `dead`,
  the tombstones; anchors name characters, as Yjs relative positions do.
  `RelStart`, `RelEnd`, `AbsStart`, `AbsEnd` are the conversions, including the
  two anchors that name no character.
* A request (`req`, `snap`) is a goroutine; every call to Postgres or to the
  sidecar is a step: read, claim (`ResolveSuggestion`, guarded by
  `status='open'`), `applySuggestion` (AbsPos, then Edit is sent), the answer or
  its absence, `Rollback`.
* An Edit is a message in `calls`. The sidecar executes it once, perhaps after the caller has
  given up (`EditUnanswered`), and `Cancelled` ends a request whose client has
  left: everything after that fails, the roll-back included.
* History: `applied` (ids of the Edits that were executed), `lost`, `stranded`.

Left out: comment threads, the wording of a suggestion, awareness.

### SnapshotSchedule

`versions.go` MarkDirty, Run, sweep, and the order in `handleInternalPutYDoc`
(commit first, mark afterwards). `dirty` is the map with the ages of the first
and last mark in ticks, `due` what a sweep has taken off the map, `snap` the
snapshot in progress. `unsaved` records which projects have a stored change no
snapshot has read; `forgotten` which marks a failure or a restart has dropped
(an error of a snapshot is only logged; a `PUT` whose second statement fails
never marks).

### Versions

`versions.go` Snapshot, currentText, Restore; creation, renaming and deletion of
files as the steps others take in between. A file has its row, its live text and
the stored mirror; a deleted text may live on as a document somebody has open.
Every iteration of the loops of Snapshot and Restore is a step, in the order of
the code; `Fails` ends a goroutine at any point. `disturbed` remembers who has met a
change by others since it began: the code takes no lock and promises nothing
then. Left out: diff and listing, which only read; the file's lock flag and
`mainFile`.

### DocSync

`server.ts` hooks, `collab_handlers.go` and the provider in the browser. A
document is the set of updates it has received, which is all that merging
depends on; an update is a seed (the text inserted by one load) or an edit. `{}`
is "no document": a document that is loaded holds its seed at least. `put` has an entry for each
incarnation of the sidecar, because a `PUT` may outlive the sidecar that sent it.
History: `seeds`, `drops` (documents that left the memory before anything was
stored of them), `stray`, `failures`.

Left out: awareness, the expiry of a token during a connection, positions
(`Suggestions` has them).

### Access

`roleauth.go`, sharing, teams, trash and locks. One project with its owner, one
team, one link, one file. Every handler is a decision (`handle...`: reads roles,
answers 403 or goes on) and a write (the store method's name); three handlers
look a second time in between. `req` holds what a request has decided, so that
any other request may write between the two. `disturbed` contains the requests
whose decision another write may have overtaken. A file is its lock flag and a bit that changes
with the text; renaming, deleting and the token of an editing connection share
the guard of `handleApplyEdit`.

An administrator of the instance may delete the account of another user
(`handleAdminDeleteUser`, `DeleteUser`). `accounts` says whose account exists; the rows of
a deleted one in projects and teams go with it (`ON DELETE CASCADE`), the foreign keys
`projects.owner_id` and `teams.created_by` have no cascade, so that the owner of a project and
the creator of a team cannot be deleted before these are (`Deletable`). Nothing looks at the
administrators of a team on this way.

Left out: renaming a team, several links or teams, the public link, and the
e-mail look-up of the invited user (any user may be invited).

### AutoVersions

Extends `DocSync` and instantiates `SnapshotSchedule` for a project of one file.
Every action is an action of one of them or a joint one: `StateStored` is
`UpsertYjsState` and `handleInternalPutYDoc`, `OnDocStored` is `MarkDirty` after the
mirror has been written, `PutEnds` an end of the handler before it. `reading` is what
the snapshot in progress has read (`currentText`: the live text when the document is
loaded and the sidecar answers, else the mirror), `saved` the newest snapshot.

### Projects

Creation, duplication, use and publication of templates, ZIP import, upload,
renaming, deletion, main path and trash, in `projects_handlers.go`, `exportimport_handlers.go`,
`files_handlers.go` and the quotas of `roleauth.go`. `CreateProject` and the creation of a
file are transactions and one step each; copies and imports go file by file, and a quota is
counted in one step and used in another. Its requests are called `Calls` here.
Restoring a version (`handleRestoreVersion`, then `Restore`, one step per statement) is here
for the rows it deletes and creates, without a quota and without a look at the main
path; what the version holds is any of `Manifests`. What becomes of the texts, and the
snapshots themselves, are in `Versions`.
`checked` says that a row came through the quota. Contents are left out (a copy takes the mirror, which lags behind the
live text); the rows, their paths and kinds are what the properties tell apart.

### Accounts

`auth_handlers.go`, `tokens_admin_handlers.go`, `oidc.go`, `middleware.go`, `seed.go` and
`users.go`. A request is admitted with the user its session belongs to and uses
what it has read then to its end; every statement is a step. A password is
numbered, so a session tells under which it was opened. An error of the
statement that deletes the sessions is ignored, as in the code: the reset is complete,
and the sessions that were there are `spared`. The seeding of the
templates runs in the first registration and at every start, and the process may
restart at any time. Of a built-in template there are copies live under its
name as they were seeded (`kept`), copies that came to the name later, by a renaming, out
of the trash or by a publication (`back`), and copies that were renamed or trashed
(`away`); seeding looks for a live one of the name (`kept` and `back`). `menu` bounds which
operations meet in one behaviour. Left out: personal access tokens, the profile
and the sending of mail, single statements that nothing here depends on.

### RateLimiter, BlobStore, Compiler, Settings, Events

* `RateLimiter`: fixed windows per key, and a collector that drops windows that
  are over. `log` is the history of admissions the property counts.
* `BlobStore`: the writers of one content; a name stands for an inode, so that a
  writer goes on writing to the file it has opened whatever it is called by then.
  `cachedProxy` fills its cache the same way and is the same model.
* `Compiler`: a request reads its files, waits for a slot, writes its directory,
  runs Typst under a time limit, and leaves through its deferred calls; its
  client may go away at any point.
* `Settings`: the rows, the cache, the environment behind both, and the sign-on
  provider that is rebuilt at the end of a form when the issuer or the client differs
  from what the request found at its beginning. A form is saved key by key.
* `Events`: handlers write and then publish, channels are bounded, and a tab
  fetches the list an event names; the stream breaks, the server restarts, a fetch
  fails. The first load of a tab and the opening of its stream are not ordered.

### SuggestMode

`suggestMode.ts`: one record per run of adjacent keystrokes and kind, a timer, POST
the first time and PATCH from then on. Between two awaits the browser runs one
thing, which is one step. A range is abstracted to how often it has been extended.

`MCServices` runs these six side by side in one model, because they share no
state: the part a behaviour starts in is the one that moves, so the state spaces
add up and do not multiply. `MCAccountsProjects` does the same for those two.

## 4. The runs

| Run | Question | Bounds |
|---|---|---|
| `SuggestionsSafety` | Do claims, edits and rows stay consistent when two requests race, an answer is lost and a request is cancelled? | two requests, an inline insertion and a deletion, text of one character, two revisions of the anchors |
| `SuggestionsLedger` | Does the protocol implement the ledger, does every verdict settle, and does an Edit hit exactly what was anchored? | two requests, one replacement in a text of three, two changes by browsers, one revision, no lost answer |
| `SuggestionsLost` | "so the suggestion isn't lost" | one suggestion, one cancelled request |
| `ScheduleLive` | Is every stored change saved in the end? | two projects, two Puts, windows of 1 and 2 ticks, one failure, one restart |
| `AutoVersionsLive` | Is what was typed in a snapshot in the end, and is nothing stored left out of one? | one tab, one edit, windows of 1 and 2 ticks, one failing store, one failing snapshot, one restart of the app |
| `VersionsSafety` | Is a snapshot the project, a restore the snapshot, and is nothing destroyed unsaved? | two files, paths, contents; any earlier snapshot; sweeper, one request, one change by others |
| `VersionsOutage` | "A pre_restore snapshot is taken first" | one file, calls to the sidecar that may fail |
| `DocSyncStores` | Is the text seeded once, stored, kept and mirrored? | a writer, a reader, one edit (typed or made by the app), one restart, one failing store |
| `AccessSafety` | Who is owner, do decisions hold, does a team keep an administrator, is the trash respected? | two users, of whom the owner administers the instance and has created the team; two requests, one role to give away |
| `AccessLocked` | "Locked files are editable only by the project owner" | one request |
| `AccountsProjects` | Accounts: do resets end sessions, are links single, does an administrator remain, are templates seeded once? Projects: by how much can a quota be exceeded, is a template complete, does the main file stay? | two requests; two addresses, accounts, passwords and links, one session at a time, three copies of a template, six menus; a user and one exempt from quotas, three projects, four files, quotas of one, two versions to restore, nine menus |
| `Services` | Six parts: limit, whole blobs, slots, settings, recorded typing, refetched lists | limit 2 per 2 ticks for two clients and 6 ticks; three writers; three jobs for one slot; two administrators with two forms; two records; one tab, two lists, two handlers, a channel of two |

Why these bounds are enough. Hazards of this code are races of two actors around
one row, so two requests (and the browsers, or the sidecar) make them all.

* Suggestions: two revisions let an anchor change under a resolution; a text of
  one to three characters has the anchors at the beginning, inside, and at the
  end, and tombstones at each. `SuggestionsSafety` has no typing because none of its
  properties looks at positions; positions are what `SuggestionsLedger` is about.
* Schedule: with a longest window of two ticks the first and the last mark have
  distinct ages; ages saturate at `maxWindow`, so ticks need no bound. There a
  change can be marked while its project is due, being read, or failing.
* Versions: `Init` is every project of up to two files with every snapshot of an
  earlier state, so a restore meets missing, extra, renamed, changed files and
  files of another kind without first having to make them. The sweeper comes by once: a second
  sweep meets nothing the first does not.
* DocSync: one edit can be typed in a tab, offline, or made by the app; a restart
  finds it in the tab, in memory, in a `PUT` or in the store. `MaxDrops = 0` excludes
  only that a document is unloaded without ever having been stored; `Crash` still
  produces it, and `ContentOnce` names it as its condition.
* Access: one role is enough for the interleavings, since handlers compare ranks;
  what depends on the roles, `SoleOwner` and `OwnerDecisionsHold`, is proved for all of them.

* AutoVersions: one edit meets each stage of a store, a mark and a snapshot, and
  the second window separates the first mark from the last. The sidecar does not
  restart here: `DocSyncStores` has that, and its `stray` would excuse both properties.
* Accounts, Projects: the hazards are pairs of requests around one row; a menu only
  keeps operations apart that touch no common row. With quotas of one, two
  requests show the overrun, three projects leave room for it. Three copies of a
  template are one that was seeded, one seeded after the first was put away, and one
  more that comes back or is published. The two versions are one with the main file as
  a text and nothing else, and one with another text and an asset at the main path, so
  a restore creates, overwrites, replaces and deletes. The creator of the team is the
  instance's administrator in `AccessSafety`, so that the other user can be promoted, left
  alone in the team, and deleted.
* Services: two windows back to back need four ticks; three writers of a blob are
  one that has opened the file, one that truncates it, and one that finds the result;
  three jobs for one slot make two wait; a second full channel is one event more
  than fits. Two administrators suffice for every case the property excuses, and the
  proof covers any number (with three, a third may turn a field back, which is
  why the excuse is a change by *another* request and not a race on the key).

`CHECK_DEADLOCK FALSE` stands where a behaviour really ends: changes, cancelled
requests and revisions are bounded (Suggestions, Versions), a project and a team
can be gone (Access), tokens, files and menus are used up (Accounts, Projects), time
and inodes end (Services).

### Fairness

* Schedule: weak fairness of `Tick`, `sweep`, each `Snapshot`, its creation and each
  `MarkDirty`: a `time.Ticker`, one goroutine without blocking calls other than
  those that time out, and handlers that run on. Nothing is assumed of Puts.
* Suggestions: weak fairness of every started handler and of the execution of a call
  by the sidecar. Every call of a handler has a timeout, which is an action.
* DocSync: weak fairness of loads, of the debounced store and of the steps of a
  `PUT`, all timers or calls with timeouts. Strong fairness of `Connect` for a tab that
  has a replica, and of `Send`: the provider reconnects for ever, a document is
  loaded for the connection that asks for it, and some connection lasts
  long enough to send. Nothing obliges a browser to stay open: closing the tab is
  an exit of `EditsAreStored`.
* AutoVersions: the assumptions of `DocSync` and `SnapshotSchedule` about the same parts.
* Compiler: weak fairness of what a running job does next, since Typst is killed at
  its time limit and the deferred calls cannot block; strong fairness of taking a
  slot, since a Go channel serves its waiting senders in their order.

### What the runs show

Pass. A suggestion is claimed by one request, its edit reaches the text at most
once more than answers were lost, and a verdict without an edit leaves a trace
(lost or cancelled); with neither, the protocol implements the ledger. An Edit
removes exactly the anchored characters *when the text has not changed since
AbsPos* (`m.ver = DocVersion`): AbsPos and Edit are two calls, and typing between
them shifts the offsets, which the condition names. No race of `MarkDirty` and
`sweep` forgets a change, and uninterrupted writing cannot postpone its snapshot;
a failed snapshot or `PUT` does forget (`forgotten`). A snapshot and a restore nobody disturbed do
what they promise, and the restore deletes a file only after the snapshot has it.
What is stored in a document stays. A project has one owner; a decision
only the owner may take is never stale; a team loses its last administrator only
through overlapping requests, by re-adding that administrator as a plain member, or by the
deletion of that administrator's account (who has then not created the team); a project is
deleted for good only out of the trash, except when a restore overtakes the
deletion. Joining by link does not look at the trash: a user may become a member
of a trashed project.

What was typed in a tab that stays open is in a snapshot in the end, whichever of the
two texts a snapshot reads, because the mark follows the mirror; a failed store
or a lost mark breaks this until the next edit.

The other parts hold their promises under conditions the properties name, and
each condition is a race or failure the code does not exclude. Such a property does
not say that the race is harmless: it says that nothing else breaks the
promise. What happens in the race is in the model, and it is named here:

* A sign-in that read the account before a reset and inserts its session after it
  keeps the session (`late`); so do all sessions of an account when the statement that
  deletes them fails, and the answer of the reset is "ok" all the same (`spared`). Two
  requests that overlap leave two links of one kind active (`alone`).
  The last administrator goes only by a request whose author has ceased to be one.
* Two first accounts seed the templates twice (`overlap`). Without that, of the
  copies that were never touched one is live at most; one that was renamed
  or put in the trash is seeded anew at the next start, and when it comes back two live
  copies have the name.
* A quota is exceeded by at most the other requests of the same moment. A
  template misses files only when files or paths were changed while the publication
  ran. A main file is deleted by a request to delete a file only when paths were
  changed while it ran; restoring a version deletes it, with no race at all, when the
  version holds nothing at the main path, and replaces it when kinds or assets differ.
* A client gets up to twice its limit in an interval as long as the period, in two windows.
* A blob is whole unless two writers have shared the temporary file.
* Settings take effect unless two requests write one key, rebuilding the provider
  fails or is skipped by an error, or another request has changed the fields.
* Suggest mode records what was typed unless a request failed, two PATCHes of
  one record overlapped, or `flushAll` dropped a record that had grown while it waited.
* A list is stale at rest only when its last change was published while the stream
  was down or the channel full, came during the first load, or could not be loaded.

Violations, each of a sentence the repository says of itself:

| Run | Line | What happens |
|---|---|---|
| `SuggestionsLost` | `annotations_handlers.go:244` | the roll-back uses the context whose end made the Edit fail |
| `VersionsOutage` | `versions.go:156` | the snapshot silently takes the older mirror when the sidecar does not answer |
| `AccessLocked` | `roleauth.go:80` | accepting a suggestion and restoring a version do not ask for the lock |

Disagreements seen while modelling, without a run of their own:

* `annotations_handlers.go:234` "rejecting removes the range": the anchors applied
  are those read before the claim, and suggest mode re-anchors open rows.
* `server.ts:70` "First load: seed the CRDT": seeding schedules no store, so a
  restart seeds the same text again; this is the condition of `ContentOnce`.
* `README.md:95` says `REQUIRE_EMAIL_VERIFICATION=false` keeps mail without gating
  sign-in; `settings.go:150` falls through to `SMTPEnabled()`.
* `tokens_admin_handlers.go:184` says that `null` clears a secret; a null pointer is
  what a missing field is, and leaves it unchanged.
* `auth_handlers.go:334` says that a reset logs out other sessions; line 337 ignores the error
  of the statement that does it, and the reset answers "ok" (`spared`).
* `seed.go:26` says that seeding is a no-op when a template of the same name is present;
  only a live one counts (line 66), so that one renamed or in the trash at a start is there
  twice when it comes back.
* `files_handlers.go:227` "cannot delete the main file": `versions.go:202`, `:220` and `:231` delete it
  without asking when a version is restored.
* `teams_handlers.go:200` keeps a team from losing its last administrator; the cascade of
  `0002_teams.sql:14` removes one with the account.
* Saving the same sign-on form again after a failed start of the provider does not
  start it: the fields do not differ from those in the cache.

## 5. The proofs

TLAPS proves these for every value of the constants allowed by the named
assumptions (`SuggestionConstants`, `ScheduleConstants`, `AutoVersionsConstants`,
`VersionConstants` and `NoFileIsNoFile`, `AccessConstants`, `AccountConstants`, `ProjectConstants`,
`DocSyncConstants`, `BlobConstants`, `CompilerConstants`, `SettingsConstants`, `EventsConstants`,
`LimiterConstants`, `SuggestModeConstants`), which say only that constants have their types, that
marker values are not members of the sets they stand beside, and, in `AccessConstants`, that the role of owner
cannot be given away (`validMemberRole`). A theorem that needs more says so in its statement.

* `SuggestionsProofs`. `Invariant` is the conjunction of `TypeOK`, `Creators` (a row
  being created does not exist yet, and one request creates it), `Claims` (a
  suggestion has one holder, the row shows its verdict, and that verdict owes an
  edit), `Ids` (every executed or waiting Edit of a suggestion has a number of its
  own between 0 and `lost`) and `Uses` (the current number is in use only while the
  row owes an edit, and a verdict nobody works on has been executed under it, unless
  its request was cancelled). The bound on the number of edits follows from the
  range of the numbers: with `n` answers lost an Edit has a number in `0 .. n`, and
  no number is executed twice. `OneHolder` alone is not inductive: a roll-back
  reopens the row, and only `Claims` says that no other request holds it then.
  From it: `TypeCorrect`, `OneHolderAlways`, `AtMostOncePerLostAnswerAlways`,
  `UntouchedUnlessOwedAlways`, `VerdictExecutedAlways`.
* `SuggestionsProofs`, positions. `Positions` is `Placed` (every character has one place,
  tombstones included, through every insertion), `AllAnchored` (anchors, also those a
  request has read or an Edit carries, name characters of the document) and `UpToDate`
  (an Edit holds the offsets its anchors have in the text of its version; the version
  grows with every change, so equal versions mean equal texts). `EditHitsItsRangeAlways`
  follows: the sidecar's count of visible characters leads back to the anchored ones.
* `SuggestionsProofs`, the ledger. `LedgerImplemented` assumes `MaxLost = 0` and
  `MaxCancelled = 0`, as the run `SuggestionsLedger` does, because the ledger decides and
  carries out at once and the code does not when an answer is lost. A suggestion is
  shown as open while its verdict is not carried out (`InDoubt`); the step that
  takes effect is the sidecar's (`SidecarEdit`), or the claim when nothing is owed, and
  every other step stutters. It needs `Claims` and `Ids`: the Edit executed
  belongs to the one holder, and it is the first one.
* `SnapshotScheduleProofs`. `NoChangeForgotten` is inductive together with `TypeOK`:
  `ScheduleTypeCorrect` (its `TypeOK` is proved and in no run), `NoChangeForgottenAlways`. The step that needs care is
  `sweep`, which moves a mark into `due` in one step, and `SnapshotFails` and `Crash`, which
  put back what was read.
* `AccessProofs`. `AccessInvariant`: `TypeOK`, the owner's row says `owner` and no
  other does while the project exists, and every pending request carries what its
  handler admitted: no role of owner, no change to the owner's own membership,
  and the owner as author of what only the owner may do. No row is left of a deleted
  account, and the owner's account stays as long as the project (`Deletable`). `SoleOwner` is not
  inductive without the last part, since a pending write could carry anything.
  From it: `AccessTypeCorrect`, `SoleOwnerAlways`, `OwnerDecisionsHoldAlways`. `StandInvariant`
  adds what a decision rests on as long as nobody else has written it: a team
  about to lose an administrator by demotion, removal or leaving has another, a project about to be deleted is in
  the trash. From it: `TeamKeepsAdminAlways`, and the action property `DeletedFromTrashAlways`.
* `VersionsProofs`. For an operation nobody has disturbed, `Faithful` says of each stage of its loops
  how far it is: what has been read and what is still to be read make up the
  project (`Reading`, `Taken`), what it is about to replace is in some snapshot (`Saved`), and
  the files in place and those still listed are the project, without a path in
  common (`Restoring`). The properties speak of the end of a loop only. From it:
  `SnapshotIsCurrentAlways` and `DestroysOnlySavedAlways`, both with the hypothesis that
  the sidecar answers (the run `VersionsOutage` shows the first without it), and
  `RestoreYieldsSnapshotAlways`, which needs no such hypothesis.
* `DocSyncProofs`. `IInv` is `TypeOK`, `Puts` (a request carries a document, and
  sidecars to come have none), `Seeding` (every document shows seeds that were made; as
  long as nothing has been dropped there is one, and then the file is in memory or
  stored), `Kept` (until a `PUT` outlives its sidecar, memory contains what is stored
  and what is under way) and `Mirrored` (a `PUT` between its two writes carries
  what is stored, otherwise the mirror shows it). `MirrorFollowsState` alone is not
  inductive: nothing in it says what the second write will write. From it:
  `DocSyncTypeCorrect`, `ContentOnceAlways`, `MirrorFollowsStateAlways`,
  `StoredUpdatesStayAlways`.
* `AutoVersionsProofs`. `AutoVersionsInvariant` joins the invariant of `DocSync` with the types
  of the schedule, `MarkToSet` (a `PUT` that has stored the state and not the mirror has
  its mark still to set) and `SavedOrRemembered` (what is stored is in the newest snapshot
  or the one in progress, or the schedule still knows of it). The text in memory contains
  what is stored, and so does the mirror once the `PUT` that stored it has set its mark,
  so it does not matter which of the two a snapshot reads. From it: `StoredIsSavedAlways`. `ScheduleImplemented`:
  every step of the composition is a step of `SnapshotSchedule` or a stutter, so that its
  theorem carries over (`NoChangeOfTheDocumentForgotten`).
* `AccountsProjectsProofs`, accounts. A request uses what it has read long before. `Orderly` says
  what a request at each statement may be about, `Informed` how old its
  knowledge of the password may be, `Resets`, `Links` and `Seeding` what that means for the
  rows. `OneActiveToken`, say, is not inductive without `Links`: a request that has cleared
  the old links must still find none when it inserts. `Resets` lets a session be older than
  the last reset only if it is `late` or `spared`; `Seeding` says that a request about to insert
  a template has found none, and that until two seed at once there is no `kept` copy
  then, whatever has become of the others. From it: `ResetEndsSessionsAlways`,
  `OneActiveTokenAlways`, `TemplatesOnceAlways`, and the action property `KeepsAdminAlways`.
* `AccountsProjectsProofs`, projects. `WithinQuota` counts the rows together with the requests that were
  admitted and have not inserted yet: a check admits one only below the quota,
  and whatever is inserted was among them, so the rows alone can pass the quota by fewer
  than the requests there are. `CheckedIsLive` keeps the trash out of that count. `CopiedSoFar`, `NotMain`,
  `Underway` and `OneFills` say what a copy, a publication and a deletion have in hand at each
  step, and `StillListed` what the restoration of a version does: a file it has listed keeps its project
  and kind, and its path unless a renaming is noted, so that the file it deletes is the one it
  compared; no two entries of a version have one path (`ProjectConstants`, the primary key of
  `snapshot_files`). From it: `QuotaOverrunBoundedAlways`, `TemplateCompleteAlways`, `MainFileKeptAlways`; and
  with the accounts, `RowsTypedAlways`.
* `ServicesProofs`, blobs. `OneWriter` (the one writer has the temporary inode open, and
  what it is about to rename is whole) and `FinalWhole` (the final inode is whole
  and not the temporary one), both until two writers have shared the file. From it:
  `WholeUnlessSharedAlways`.
* `ServicesProofs`, compiler. The tokens in the channel are the jobs that run, counted, and
  only they have directories: `SlotsCountedAlways`.
* `ServicesProofs`, events. `Told`: a change that has not reached a list is with its handler,
  in the channel, in a request under way, or in `missed`. From it: `ListsRefetchedAlways`.
* `ServicesProofs`, settings. `CacheFollows` (a key not raced is in the cache or about to be put
  there), `LastChange`, `ProviderFollows`, `Installing` (while the provider is not as
  configured, somebody busy will rebuild it or note that nobody did). From them:
  `SettingsInEffectAlways`.
* `ServicesProofs`, suggest mode. `Followed` says how a record, its requests and its rows belong
  together: one POST at a time and none after a known row, one request at a time
  without an excuse, and the last of a clean record carries what was typed. `ModeInv` adds
  that a record which needs another request is still pending and that a timer
  or a `flushAll` will come for it; the property itself speaks only of the moment
  when neither is left. From it: `TypingIsRecordedAlways`.
* `ServicesProofs`, limiter. The windows of a key lie further apart than the period
  (`Apart`), the one in the map is the last (`WindowIsLast`), and each has admitted what
  it counts (`WindowCounts`), whatever the collector drops. An interval as long as the
  period meets two windows at most (`TwoWindows`). From it: `LimitKeptAlways`.

Proof attempts changed four models. The history flags in `Projects` did not say that
trashing a project takes its files out of the quota's count, nor that a new main path concerns a
deletion under way; they say so now. `Versions` was without the unique index on
paths, and a restore of it could have met two files of one path, which the
database excludes (`UniquePaths`). The log of the limiter lists requests, where it had
numbers to be summed up, and `SuggestMode` has names for the two records it nests in
another, because the prover cannot reason about the earlier forms; the behaviours
are the same.

Only model-checked: liveness (`ChangesAreSaved`, `EditsAreStored`, `TypedIsSaved`,
`ResolutionSettles`, `WaitersServed`), which needs fairness and ENABLED and is out of this
prover's reach, and the three violations. Every invariant and every other action
property of a passing run is a theorem.

## 6. What is not modelled

Comments, collections, favourites, notifications, the audit log, personal access
tokens and search are single statements that nothing else depends on; a comment's
anchors are those of a suggestion. MCP and CLI wrap the REST API; mail, metrics
and configuration keep no state. The thumbnail cache is written in place
(`compile_handlers.go:124`), so a reader may meet half a picture: one write,
which `BlobStore` shows with `OpenFinal`. Rendering, layout, diffing and the Typst
compiler are functions of their input. The filter of suggest mode that turns a
deletion into a record is left out but for the records it makes. The merging of Yjs
and the transactions of Postgres are taken as they are documented: a document is
what its updates make it, and a statement is atomic. What Hocuspocus does when a
direct connection closes is outside the repository; `DocSync` lets a document be
stored then, as often as it likes.
