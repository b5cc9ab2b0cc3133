# TLA+ models of the GeOSM API

Specifications of the GeOSM API (Fastify, Prisma/PostgreSQL/PostGIS, Redis/BullMQ, MinIO,
Meilisearch, QGIS Server): the parts whose correctness depends on the order of steps. Paths below
are relative to the repository; the code is under `src/`.

## 1. The system

The code is layered: routes (`src/presentation`) check a request and call a use case
(`src/application/use-cases`), which calls repositories and services (`src/infrastructure`). There
are no in-memory domain objects shared between requests. What requests share is PostgreSQL rows,
PostGIS tables, MinIO objects, files of QGIS projects, search documents and BullMQ jobs.
`docs/deploiement.md` runs three replicas, so a lock in one process would not help, and the code
takes none; except for one `$transaction` per handler at most, **every `await` on a store is a
commit, and anything may happen between two of them**. That is the central modelling decision: one
action is one statement of a handler with the checks up to the next `await`, and a request carries
on with what it read before.

| Component | State | Operations | What is hard | What makes it correct |
|---|---|---|---|---|
| Sessions, password resets | `refresh_tokens`, `password_reset_tokens`, `users.isActive`, password | login, OSM login, refresh with rotation and reuse detection, logout, change, forgot, reset, disable, delete | read-check-write across awaits; bulk revocation against requests in flight; a crash between revoke and create | no session survives its revocation; one active token per family; one usable reset token, which sets one password |
| Background jobs | tracking rows (`exports`, `location_plans`, `raster_analysis_results`, `analysis_reports`), BullMQ jobs, MinIO objects, imported rows, notifications | create and queue, per kind; one processor per kind; delete row or layer, clear a layer's table name; admin retry | crash, lapsed lock, second processor on the same job, retries, rows deleted meanwhile, failing catch block | COMPLETED means whole; row agrees with queue; imports not silently lost; every job ends |
| Layer tables | PostGIS tables in `staging`, `personal_data` and the instance's schema; `layers`, `personal_layers` | stage, clean up, import, request, approve, reject, delete (both), promote from staging, purge | two reviewers; owner against reviewer; failure between move and record; purge against all of them; names that coincide | a row has its table; a file is published once; no table is lost or orphaned without a failure |
| Personal styles | the column `personal_layers.style`, the style file, the project | style, upload QML, approve, delete | read-merge-write | published as styled |
| Instances | `instances` and what cascades from them, schemas, project file | create (replies, then initialises in the background), OSM layer, resync, delete layer, delete, clone | background work outlives the reply; deletion during it; scripts that rewrite one file; clones that share tables | rows, tables and project file agree |
| OSM import | `osm.*`, `admin_boundaries`, default layers, one repeatable job | manual load (which also queues the job), scheduled load, rebuild | several loads at once; failures per layer | no layer older than the import that reported success |
| Accounts | `users`, `osm_profiles`, verification tokens | register, verify, OSM login, link, unlink, create, change, delete | check-then-create; create, then profile | an OSM identity leads to one account, and an account it made is reachable |
| Access | role in the row, role in the token | sign, serve, change role, disable, delete | the token outlives the change | no call under a role lost longer than a token's life ago |
| Discussions | `comments`, `feedbacks`, `notifications` | comment, reply, moderate, delete; submit and handle feedback; persist, then push | notices that nothing awaits | comments hang on roots; the author is told; the last notice is current |
| Assistant, FAQ | conversations with a geometry cache; FAQ entries | chat, create, delete; gather, generate, review | whole write-back after a long tool loop; cache limit | the geometry just drawn is there next time |
| Backups | objects in MinIO | dump, upload, retention | failure in the middle; two runs at once | the last backup remains |
| Catalogue | `groups`, `sub_groups`, `layers`, search index, drawing of the project | create, rename, delete, cascade, index, reindex, style, resync | three copies, no common transaction | index and drawing follow the row |
| Uploaded QGIS projects | `qgis_projects`, the layers made of them | upload, import all, confirm a selection, delete a layer and take it out of the file | find-then-create with ids kept over a long loop; a file that changes behind it | imported as drawn |
| Contents | documents (file and row), shared maps, drawings, bookmarks, themes | create, delete, expire, seed | order of file and row | a listed document can be downloaded |

## 2. Modules

    Sessions ─── SessionsProofs        JobQueue ─── BackgroundJobs ──(refines)── TrackedRow
        └── MCSessions                                   ├── BackgroundJobsProofs
                                                         └── MCBackgroundJobs
    LayerTables ─── LayerTablesProofs  Instances ─── InstancesProofs
        └── MCLayerTables                  └── MCInstances

    Services ─── MCServices            Routes ─── Access
        ├── Accounts, Access, Discussions, Assistant, OsmImports
        ├── Backups, Contents, Catalog, PersonalStyles, QgisProjects
        └── AccountsProofs, ConversationsProofs, CatalogProofs ─── ServicesProofs

* **Sessions** - `use-cases/auth`, `users/toggle-user-active`, `users/delete-user` and the two token
  repositories. `status`, `owner`, `family`, `next`, `expired` are the columns of `refresh_tokens`
  by token value; `rstatus`, `rowner`, `rexpired` those of `password_reset_tokens`; `pc`, `who`,
  `tok`, `fresh`, `rtok` are what a request in flight has read or minted. The seven last variables
  are history that no action reads: they name the requests that were overtaken, so that the
  invariants can say *exactly* which sessions the code lets through. `spent` counts the passwords a
  reset token set, `loose` are the tokens two resets held at once or one left unused behind it.
* **JobQueue** - the part of BullMQ the API relies on (external: hand-out, lock, lapse, stalled
  check, attempts), with `QueueService.addJob` and `RetryJobUseCase` of the repository.
* **BackgroundJobs** - the requests (one action per kind, then `Enqueue`), the rows, the processors
  (`at` is the statement a worker process is at), MinIO (`stored`, `content`), and imported features
  (`rows`: how many copies of a file's features are in its layer's table). `tabled` are the layers that
  have a schema and a table name: a bulk export passes over the others without a word
  (`export.worker.ts:285`), and `UpdateLayer`, `PATCH` of a layer, may clear or give a name between two turns of its
  loop; `bare` is history of the layers a job found, or may have found, without. The catch block is
  `MarkFailed` or, when its own update fails, `MarkFailedRejected`.
* **TrackedRow** - what a client that polls `GET /exports/:id` may see: an abstract row that is
  created, worked on, ends, and may be worked on again only if its job stalled or was retried.
  `BackgroundJobs!ViewSpec` is the refinement.
* **LayerTables** - `at[d]` is the schema and name of a file's table; `status` the personal layers;
  `live`, `slug`, `of` the catalogue rows; `pc` the statement a request awaits. The same dataset
  value names a file in staging and the personal layer made of it: a staging table can be promoted
  only once. `TableOf` gives several slugs the same table
  (`review-personal-layer-publication.use-case.ts:131` removes every non-word character).
* **Instances** - `rows` of OSM layers, the `tables` by schema and name, `project`: what each
  project file lists. Workers are the background initialisations (`Initialising`) and the
  requests; `view` is the project file as a script read and changed it, before it saves. `Bare` is
  a slug without its hyphens, which `delete-instance` strips from the schema and `createTable` keeps.
* **Services** puts ten smaller modules side by side; `part` says which of them moves in a
  behaviour. No step of one reads a variable of another, so any behaviour of all is, projected to
  one of them, a behaviour of that one alone; letting the others wait loses no violation of a
  property that is about one of them, and spares the product of the state spaces. Each is a
  specification of its own (`Spec` in its module), and the invariants are theirs:
  * **Accounts** - `email`, `verified`, `token`, `osm` are the rows; `pc`, `addr`, `who`, `from` what
    a request holds. Only the unique keys and foreign keys refuse a statement (`Insert`, `ProfileRefused`).
  * **Routes** - the table of the HTTP routes and the roles their preHandlers admit, file by file;
    **Access** signs tokens with the role of the row and serves the routes by the role in the token,
    while administrators change roles. A guarded route is judged by its own role list (`Guards`); the table of
    `docs/architecture.md` says something else in places (section 3) and is in no module.
  * **Discussions** - comments with `parent`, feedback with `status`, `inbox` per user, and the
    `notices` a handler started and did not await; a `Crash` of a process takes its notices with it.
  * **Assistant** - `turns` and `cache` of a conversation, written back whole by `Reply`; `Kept` is the
    last MAX_CACHED_GEOMETRIES entries of the map, whose loaded keys come in key order. `Set` puts a new
    label last and leaves a known one where it is, as a JavaScript Map does; `again` marks such a redraw. FAQ entries.
  * **OsmImports** - `planet` is the number of the load in the OSM tables, `table[l]` the load a
    layer's table was built from; `run` is where a load or a rebuild is. Without OSM_IMPORT_PBF_PATH a job
    completes and loads nothing (`NoPath`). A layer may fail before its
    table is dropped (`ReadFails`) or after (`BuildFails`); the job counts it and goes on (`Skip`).
  * **Backups** - objects by day, and `run`: dumped, uploading, applying the retention.
  * **Contents** - files and rows of documents; drawings, shared maps, bookmarks, themes.
  * **Catalog** - `row`, `index` and `drawn`: the three copies of a layer's name and style.
  * **PersonalStyles** - the JSON column (`style`), the style file, what the project shows.
  * **QgisProjects** - an import finds or makes each group and sub-group of the project's tree
    (`PlaceOf` folds folders of any depth to two levels), keeps their ids (`known`), then finds and
    inserts each layer. What an import has left is a set of places and of leaves; the order of the tree
    (`FirstPlace`, `FirstLeaf`) says which comes next. Deleting a group empties the ids that requests hold.
    `Tree` is the project as uploaded and `inFile` what of it the file still has: the deletion of a layer made from
    the project queues `remove_layer.py` on that file (`scripts`, `RemoveLayer`, `RemoveFails`), by the name the layer
    shows, which a selection takes from the file and `UpdateLayer` may change. `complete` are the slugs of the layers an import *read*.
* **...Proofs** - the inductive invariants and the theorems, for every value of the constants:
  SessionsProofs, BackgroundJobsProofs, LayerTablesProofs and InstancesProofs of the module they are
  named after; AccountsProofs of Accounts and Access, ConversationsProofs of Discussions and
  Assistant, CatalogProofs of Catalog, PersonalStyles and QgisProjects, ServicesProofs of the other
  three and of `Services!TypeOK`.
* **MC...** - values of the constants, bounds and symmetry sets for TLC.

Variables called history (marked so where they are declared) are read by no action. They record which rows were
touched by two requests at once, or by a request that failed halfway, and the invariants that need
an exception name it through them: "unless raced" then means precisely that step order, and
everything else is promised.

Definitions commented "a version that ..." are deliberately wrong alternatives of the definition
below them. No specification uses them; replacing the definition by its alternative must break the
property named in `PROJECT.json`, which shows the property depends on that line of code.

## 3. What is checked

Deadlock is not checked: every bounded instance comes to rest when its tokens, jobs or rows are used up.

| Run | Instance | Properties | Shows |
|---|---|---|---|
| `sessions` | 1 user, 3 tokens, 2 reset tokens, 2 requests, up to 2 password changes | `TypeOK`, `NoSurvivorUnlessOvertaken`, `OneActiveUnlessForked`, `RotationLineage`, `OneUsableResetUnlessOvertaken`, `OnePasswordPerResetToken` | a login and two rotations, or a fork of one; two resets, of one token or of two, one of which may break off, or a fork of forgotten-password requests |
| `jobs` | a row of any of the 7 kinds, or two imports into one layer; 2 processes, 2 attempts, 1 stall, 1 admin retry, 2 layers | `TypeOK`, `OneProcessorUnlessStalled`, `CompletedIsWhole`, `RowAgreesUnlessLost`, `InsertedOncePerAttempt`, `ImportedUnlessOverwritten`, `ViewSpec` | crashes and lapsed locks at every step, with a second processor still running; what a completed export holds when layers go or lose their table under it; the one way a completed import loses its features |
| `jobs_end` | one export, fair workers | `QueuedRowEnds`, `JobEnds` | nothing waits for ever |
| `layer_tables` | 2 files, 2 slugs that share a table, 3 rows; or 1 file, 2 rows, a layer of a QGIS project or the purge; 2 requests | `TypeOK`, `EveryRowHasItsTable`, `NoOrphanWithoutFailure`, `FilePublishedOnce`, `PurgeSparesWhatItFound` | rows and tables agree through any two interleaved requests and the purge |
| `instances` | 2 instances, 2 slugs that differ by a hyphen, 1 default layer, 1 OSM layer, 2 requests, any 2 workers at once | `TypeOK`, `RowHasItsTable`, `NoTableWithoutRow`, `ProjectListsLayers`, `DeletedIsUnlisted` | rows, tables and project file agree, but for tables two workers contest and steps that failed |
| `services` | per service: see `Services.cfg`, `MCServices` | `TypeOK` and 14 invariants, one to three per service | each service keeps its copies in step under two concurrent requests |

The invariants of `services`, by service: Accounts `SameAccountEachLogin`,
`OsmAccountHasItsProfile`; Access `EntitledInTime`; Discussions `EveryCommentIsShown`,
`AuthorIsTold`, `NewestIsCurrent`; Assistant `NewGeometryKept`; OsmImports `LayersFollowImport`;
Backups `LastBackupRemains`; Contents `DocumentHasItsFile`; Catalog `IndexFollowsRow`,
`StyleAgrees`; PersonalStyles `PublishedAsStyled`; QgisProjects `ImportedAsDrawn`. Each is stated,
with its exceptions, in the module of its service. Verification e-mails and their tokens (Accounts), one-row contents and
themes (Contents) and FAQ entries (Assistant) are there because their handlers are; only `TypeOK` speaks of them.

**Bounds.** The code uses 3 attempts (`queue.service.ts:54`); the model's 2 has the case of a retry and that of a last
attempt. `MaxRows`, `MaxRetries`, `MaxGen`, `Row`, `MaxPurged`, `MaxLoads`, `MaxDay`, `MaxKey`, `MaxName` bound counters,
named where they guard; `MaxChosen` the layers of a selection. Two requests are what it takes for one to overtake another. The cfgs also
have a `CONSTRAINT` (`Bounds` of the MC module), which TLC explores no further than; a state beyond
it is still checked when it is first reached. They keep apart cases that do not meet:

* `MCSessions`: families of tokens, or resets. `MCBackgroundJobs`: one row of any kind, or the two imports up to the first
  failure. `MCLayerTables`: the two files, the layer of a project, or the purge. `MCInstances`: any two workers at
  once; OSM layers in one instance, or several instances with their default layers.
* `MCServices`: per service, one thing lost, deleted or raced in a behaviour, since no step is about two;
  one manual load beside the job; a selection of one layer beside whole imports; in QgisProjects one layer that shows another name than its slug, or one thing deleted, and then one import at work; in Catalog a behaviour ends where two requests
  about one layer have overlapped, and in PersonalStyles likewise (their invariants promise nothing of such a layer).
  The tree of `SomeTree` has a layer in no folder, one three folders deep, and two of the same slug.

Symmetry is used over interchangeable model values only, and not in `jobs_end`.

**Fairness** (`BackgroundJobs!Fairness`, run `jobs_end` only). Worker steps and the queue's own moves
are weakly fair: BullMQ workers poll for ever, its stalled checker is periodic, and a processor's
`await` resolves or rejects. Crashes, admin actions and deletions are not fair, and the number of
times a job may stall is bounded by BullMQ (`maxStalledCount`), not by the model. Requests are under
no fairness: a process may stop after any statement, which `Abort` and `Crash` say.

### Disagreements between code and text

Each has a run that TLC ends with a counterexample, and an entry in `PROJECT.json`.

1. `password_change_revokes` - "all sessions revoked" (`change-password.use-case.ts:36`): a login that
   verified the old password, or a refresh that read its token, before the bulk revocation creates its row after it.
2. `one_reset_token` - "un seul token valide à la fois par utilisateur"
   (`forgot-password.use-case.ts:32`): invalidate and create are two statements.
3. `reset_token_single_use` - "Usage unique" (`reset-password.use-case.ts:46`): the token is checked by the first of four
   statements and invalidated by the last, and two resets that both find it unused both set a password.
4. `approval_can_resume` - "reprises sur échec (auto-correction/self-healing)"
   (`review-personal-layer-publication.use-case.ts:143`): the state it looks for is never committed.
5. `deletion_spares_others` - "les tables d'autres instances ne sont jamais touchées"
   (`delete-instance.use-case.ts:18`): the hyphens of a schema are taken out before the drop
   (line 61), and the tables of `a-b` so become those of another instance, `ab`, made on its own.
6. `deleted_layer_leaves_project` - "nettoie aussi ... son entrée dans le projet QGIS de l'instance"
   (`delete-layer.use-case.ts:14-16`): a default layer's entry goes by another name than the one looked for.

Without a run of their own, since the texts are plain and the lines side by side, or no step order is about them:

* `docs/fonctionnalites-detaillees.md:1820` says the purge "supprime definitivement les tables PostGIS orphelines"; its candidates
  must have a name that some row still carries (`purge-orphan-tables.use-case.ts:56-77`), and the table of a deleted row does not.
* `docs/architecture.md:285-300` admits ADMIN_INSTANCE to most actions for "la sienne" only; `requireRole`
  (`rbac.middleware.ts:7-24`) looks at the role and not at the instance. Line 299 gives "-" to EDITOR for QGIS projects;
  `layers/confirm` and `auto-import` (`qgis-project.routes.ts:215-218, 246-249`) admit it. `EntitledInTime` therefore speaks of
  the roles the routes admit.
* The comment `assistant-chat.use-case.ts:611-613` says the most recent geometries are kept; one drawn again under a
  known label keeps its old place in the Map, and the cut may drop it first. `NewGeometryKept` excepts it (`again`).
* `auto-import-qgis-project.use-case.ts:43-46` folds deep folders "plutôt que de ... perdre des couches", while of two layers of a
  project with the same name in different folders the second is passed over (logged,
  `create-layers-from-qgis-project.use-case.ts:49-51`). `ImportedAsDrawn` therefore speaks of the slug.
* A deletion takes a layer out of the uploaded file by its name (`remove_layer.py:40-47`), whoever else shows it: of two catalogue
  layers made of one, the other is left without, and a late script takes what a new layer already shows. No text says otherwise.

## 4. What is proved

TLAPS proves every invariant the passing runs check, and the refinement `ViewSpec`, as theorems
about `Spec` for every value of the constants: any number of users, tokens, jobs, processes,
layers, requests, and any bounds. No finiteness is assumed. TLC found the properties true on the
small instances first; each theorem is `Init => Inv`, `Inv /\ [Next]_vars => Inv'` with one step
per action, and `Inv => Property`. Of almost every property the same must be said: **it is not
inductive, since it is silent about a request between two statements**; the strengthening
says what such a request knows, or has under way.

**Assumptions.** All are of three kinds: a name is not another one (`None` is not a value; jobs are
not requests, files are not tables), a table of the model has the right shape
(`TableOf`, `Kind`, `Tree`, ...), a number is a number. Three say more, and why is in the code:
`JobAssumption`, that a job of a single-layer kind names one layer (the column `layerId`);
`SlugAssumption`, that taking the hyphens out twice is the same as once;
`NamingAssumption`, that the markers of where a table is (`"staging"`, `"personal"`, ...) are no catalogue tables, which
are in the instance's schema. `NoneAssumption` of Services lists the sets of records that `None` is not in. TLC
evaluates each of them in the run of its module.

| Module | Theorems | The invariant, and why it is needed |
|---|---|---|
| SessionsProofs | `TypeCorrect`, `Linked`, `SurvivorsOvertaken`, `OneActive`, `Lineage`, `ResetTokens`, `OnePassword` | `LinkInv`: rows refer to rows, a minted value is of one request. `SurvivorInv`: a request about to create a row is sound already, or overtaken. `ForkInv`, `ResetInv`: such a request *holds the place* of the one active row; two never hold the same. `SpentInv`: a token that set a password is invalidated, about to be by its one holder, or loose |
| BackgroundJobsProofs | `TypeCorrect`, `Locked`, `OneProcessor`, `Completed`, `Imported`, `Inserts`, `RowAgrees`, `Tracked` | `LockInv`: until a job stalls its worker holds the lock or the job is active under none. `FileInv`: exported and still to be read are all there is, at each statement, so two workers both upload the whole but for layers without a table. `InsertInv` counts inserts made and to be made together. `RowInv`: what a row may say at each statement; the refinement rests on it |
| LayerTablesProofs | `TypeCorrect`, `PublishedOnce`, `ListedHasTable`, `OrphanExplained`, `PurgeSpares` | `MoveInv`: one request has a file's table in hand, and it is where its last statement put it. `HoldInv`: who drops a table by name holds it. `OrphanInv`: each place of a table has something that speaks of it. `PurgeInv`: a row is in what the purge read, or late |
| InstancesProofs | `TypeCorrect`, `TableThere`, `RowThere`, `ProjectLists`, `ProjectForgets` | `Watched`: an uncontested table has one row and one writer, for that row. On it rest `TableInv` (a row without table has a worker), `OrphanInv` (a deletion knows every table of its rows), `ViewInv` (a script's copy of the project is the file with its own change), `ListInv`, `UnlistInv` |
| AccountsProofs | `SameAccount`, `ProfileThere`, `Entitled` | `SignsIn`: a login about to end has its account linked, or will link it alone. `Identities`: an identity of two requests is contested. `RoleKept`: a token's role was held no longer ago than the token is old |
| ConversationsProofs | `CommentsShown`, `AuthorTold`, `NewestTold`, `GeometryKept` | `Rooted`: what a request answers is a root, if it is there. `OneChange`, `Latest`: a feedback never raced has one change or notice under way. `Alone`: a chat that is not crossed read what there is; the lemma `KeptIs` says what the slice keeps |
| CatalogProofs | `IndexFollows`, `StylesAgree`, `AsStyled`, `AsDrawn` | `Promise`: what is true of a layer in the hands of one request, by what that is about to do. `Current`: a styling alone about its layer read what stands. `Importing`: an import's ids name rows, and each leaf it read is present, erased or still to come, whatever the file has now |
| ServicesProofs | `BackupRemains`, `DocumentThere`, `LayersFollow`, `TypeCorrect` | `LastKept`: who is past its upload is so on the day of the last one. `Uploaded`: a request about to insert a document's row has its file. `Rebuilt`: what a running job has been through is fresh, or was counted as failed |

In Services one part moves and the others wait, so each invariant is proved as
`Spec => [](part = "..." => Inv)`, and the property of a part follows as its state is the initial one while
another moves.

**What the proofs found.**

* `LayersFollowImport` excused the layers a job counted as failed, but the model let a rebuild fail only after the table was dropped,
  when there is no old table to speak of. The code may also fail before (`resync-layer.use-case.ts:28-80` reads two rows and
  splits the tags first). `ReadFails` is that; without the exception the property is now false.
* `NewGeometryKept` excused every conversation in which two chats ever overlapped. The proof never needed that of the turn that
  drew the geometry: the property now demands it even then.
* `LayerTables` names places of a table by strings, and `Instances` uses `None` beside layers and slugs: nothing said that no table
  or layer bears those names. `NamingAssumption` and `SlugAssumption` do now.
* `ImportedAsDrawn` held of every layer of a project that stays as it was uploaded. The file does not: a deletion rewrites it. The property
  now speaks of what an import read, and its proof needs nothing of the file after that.
* The project tree and the geometry map were walked by recursive definitions; `QgisProjects` and `Assistant` now say which leaf
  comes next and which entries are kept, by sets and their order.

**Only model-checked.** `QueuedRowEnds` and `JobEnds` are liveness under fairness, which TLAPS
1.4 cannot prove (no `ENABLED`). The six runs that end in a counterexample refute their property; there is
nothing to prove of it.

## 5. Not modelled

* Wording, formats, statistics, the content of e-mails and reports, the answers of the language model,
  geometry and everything PostGIS and GDAL compute from it: data no modelled property tells apart.
* Reads that change nothing: geoportail, routing, geocoding, search, analytics, SEO, live layers, WMS proxies. Their
  routes are in Routes.
* One-statement writes that nothing else depends on: members of an instance, map compositions,
  base maps, profile and instance fields, order of groups, ratings, counters, features of a layer.
* BullMQ features the code does not use, ids shared between several queues, `deleteExpired` of the token
  repository (no caller), rate limits, start-up.
* Deleting an instance takes its groups, layers and projects with it by foreign keys; that is in Instances,
  not in Catalog or QgisProjects, which are about one instance that stays.
* Ownership checks inside handlers (`comment.userId === userId`): one request, no shared state.
* The dependency container, constant tables, icon and document rendering.

The components of `PROJECT.json` list each with its reason.

## 6. Plan

The modules are complete for what section 5 leaves in, and every invariant of the passing runs is proved. What may follow:

1. An abstract specification for the catalogue (one copy of a layer, with the moments at which the copies lag) and one for a
   login session (valid until revoked), each with the detailed module shown to implement it, as BackgroundJobs does for TrackedRow.
2. Action properties of the services: what a step may never do to a row of another user, a published layer, a running job.
3. Shorter proofs: InstancesProofs is longer than what it proves deserves; `Listing` and `Unlisting` share a case analysis.
