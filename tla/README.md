# Codess in TLA+

Codess reads the transcripts and databases of coding assistants (Claude Code,
Codex, Cursor), normalizes them into one SQLite store per Project and vendor,
and publishes *snapshots* of these stores, bound to the raw evidence they were
derived from. This directory holds its specifications: what a run may do, step
by step, with every failure the code handles, and what must nevertheless hold.
TLC checks small instances; TLAPS proves what matters most for every instance.

## The system and its parts

| Part (source) | State it keeps | Operations | Modules |
| --- | --- | --- | --- |
| Vendor adapters (`adapters/`) | none but what one Source tells | decode one rollout, transcript or database | `CodexRollout`, `ClaudeTranscript`, `CursorDecoding` |
| Normalized store (`store.py`) | rows of a vendor store: Sessions, Events, Sources, records, bodies, artifacts | replace a Session, drop, prune | `SessionGrouping`, `NormalizedStore`, composed in `StoredRows` |
| Ingest run (`cli/ingest_cmd.py`) | per run: options, tally, changed vendors, raw records; staging tree of a rebuild | resolve, preflight, ingest each Project, publish, report | `ProjectIngest` |
| Source admission and commit (`ingest_pipeline.py`, `ingest_sources.py`) | `ingest_state.json` (marker per Source) | inspect, decode, observe, replace rows in a transaction, mark complete | `ProjectIngest` |
| Cursor cohort (`cursor_cohort.py`, `cursor_source.py`) | captured database cohort, marker cache | read headers and markers, capture, reuse, drop absent Sessions | `CursorCohort` |
| Publication decision (`ingest_publication.py`) | working stores | promote rebuilt stores, decide whether a snapshot is due | `ProjectIngest` |
| Snapshot store, retention (`snapshot.py`, `retention.py`) | snapshot directories, central and local `current.json` | create, publish the pointer pair, recover, trim, prune | `CurrentSnapshot`, `SnapshotPublication` |
| Raw evidence (`raw_store.py`) | content-addressed objects | observe, capture, verify, restore | `RawCapture`, `SnapshotPublication` |
| Baseline workflow (`baseline_*.py`, `acceptance.py`) | validation report, approved and reviewed catalogs | reset, rebuild, validate, repeat, compare, publish, freeze | `BaselineWorkflow`, `SnapshotValidation` |
| Project catalog (`project_catalog.py`) | `projects.json`, binding index, in-project binding | bind, add, merge, retire, register, select | `ProjectCatalog` |
| Catalog operations (`catalog_operations.py`, `refresh_*.py`) | receipts | refresh, retire, relocate, readiness | `ProjectCatalog`, `RefreshReceipts` |
| Scan, candidates, registry (`walk_sessions.py`, `review_project.py`, `registry_store.py`) | candidate catalog, `projects_state.json` | scan roots, discover repositories, record decisions, note and prune paths | `SessionScan`, `CandidateReview`, `ProjectRegistry`, composed in `Discovery` |
| Query (`query_cmd.py`, `query_api.py`, `query_reports.py`, `token_usage.py`) | saved requests and results, counts in the registry, token cache | resolve and open a scope, query, replay, compare, report | `QueryScope`, `QuerySelection`, `ActivityOverview`, `TokenUsage`, with the decodings in `Decodings` |
| Reporting (`reporting/`) | bounded event buffer, sinks | emit, flush | `ReportBuffer` |
| Audits, helpers, settings, schema contract | none | reports, conversions, atomic file replacement | - |

They interact through files and one call chain: the ingest command drives the
adapters, which hand rows to the store and raw records to the run; the run
hands both to publication, which creates a snapshot and has it named by two
pointers; retention and the baseline workflow act on the same directories from
commands of their own, and queries read what the pointers name. Which Project
all this is about is settled first, from the catalog, the binding index and the
binding file in the working tree. The vendors' tools write the Sources, and the
owners of working trees clean, copy and move them, at any time.
Codess is meant to run as a single writer (`fileio.py`, the isolation comment),
but nothing enforces it between, say, an ingest and a prune.

What is hard here:

- *Order of durable writes.* Markers, rows, raw records, pointers, receipts and
  the documents of the catalog are made durable one after another, and a run
  may die between any two.
- *Sources that move.* A vendor writes while its file is read, marked,
  fingerprinted, compressed or counted.
- *Order of records.* What a record means (who submitted a text, which call a
  result answers, which configuration governs an Event) rests on records before
  and after it, and Cursor's rows do not come in the order of time.
- *Read, then act.* The catalog, the registry, the candidate list and a query's
  scope are read, and acted on when others may have changed them.
- *What is shared.* Bodies and Sources belong to several Sessions, one Cursor
  database to several Projects, raw objects to several snapshots, snapshots to
  several pointers: none may be removed for the sake of one holder.

## Modules

| Module | What it is |
| --- | --- |
| `ProjectIngest` | one Project's ingest runs and the publication decision |
| `CursorCohort` | several Projects' ingests over the database Cursor shares between them |
| `CurrentSnapshot` | abstract: what publication and retention promise a reader |
| `SnapshotPublication` | snapshots, pointers, trim, recovery, prune and raw objects of one Project |
| `ProjectCatalog` | which Project a directory belongs to: catalog, index and binding files under ingests and catalog commands |
| `RefreshReceipts`, `ReportBuffer`, `BaselineWorkflow`, `RawCapture` | what keeps a Project's results in order around its ingests |
| `SessionScan`, `ProjectRegistry`, `CandidateReview`, `SnapshotValidation` | what finds Projects, keeps account of them and judges a snapshot |
| `Discovery` | the last four together, and what is said of them together |
| `Upkeep` | the eight components of these two lines together |
| `CodexRollout`, `ClaudeTranscript`, `CursorDecoding` | the decoding of one Source of each vendor |
| `SessionGrouping`, `NormalizedStore`, `StoredRows` | the rows of one Session, those Sessions share, and both together |
| `QuerySelection`, `QueryScope`, `ActivityOverview`, `TokenUsage` | typed queries, query commands, the overview, token counts |
| `Orders` | sets listed in an order, and sums, as the scanning, decoding and asking modules use them |
| `Decodings` | the nine components from a vendor's record to an answer together, and what is said of answers |
| `MCProjectIngest`, `MCCursorCohort`, `MCSnapshotPublication`, `MCProjectCatalog` | instances of the large components |
| `MCUpkeep` (of `Upkeep`) with `MCDiscovery`, `MCDecoding` (of `Decodings`) | instances of the small ones: a behaviour is one of any of them, told by `part` |
| `ProjectIngestProofs`, `CursorCohortProofs`, `SnapshotPublicationProofs`, `ProjectCatalogProofs`, `UpkeepProofs`, `DiscoveryProofs`, `AdapterProofs`, `StoredRowsProofs` | proofs |

The components stand side by side and share no state but identities: an ingest
of `ProjectIngest` begins when the one of `ProjectCatalog` has settled its
Project, decodes by one of the adapters, commits as `NormalizedStore` says and
takes its snapshot as `SnapshotPublication` does, of which `BaselineWorkflow`
sees only which one is current. `CursorCohort` is the branch of Cursor that
`ProjectIngest` takes one Source at a time.

Definitions headed "Faulty variant" stand beside the definition they are a
wrong form of. They are used by no specification; substituted for the right
form they show that a property notices.

### ProjectIngest

The content of a Source is its revision, growing with each append. `rows`,
`mark` and `stores` are the working stores and the state file, `snap` what the
current snapshot binds. The run's own state is what the code keeps in `opts`,
`ProjectOutcome` and `IngestTally`: the options, the vendors reached, the
Sources not settled, the Source in hand, the raw records, the reasons a
snapshot is due.

| Action | Code |
| --- | --- |
| `Begin` | `_ingest_project` up to the vendors: raw records of the current snapshot, `rebuild_had_existing_store`, seal upgrade |
| `OpenVendor` | the branch of one vendor: `VendorStore.create`, the listing of its Sources |
| `Skip`, `Reject`, `Admit` | `inspect_sources`, `should_ingest` |
| `Decode`, `Observe`, `Commit`, `MarkComplete` | the body of the loop of `_ingest_cc`, `_ingest_codex`, `_ingest_cursor`: the read, `_record_raw` inside the transaction, `commit_source_replacement`, `mark_source_complete` |
| `SourceFails` | its `except` clause |
| `Abandon` | any exception that leaves `_ingest_project`, `--stop-on-error`, the Project identity check, a killed process |
| `Publication` | `_publish_project` up to the promotion |
| `PromoteStore`, `PromoteState` | `promote_rebuilt_stores`, file by file |
| `TakeSnapshot`, `NoSnapshot` | `publish_snapshot` and its early returns |

The read of a Source, the observation for its raw record and the marker are
three looks at the file. `EarlyMark` names the Sources whose marker is taken
before the read (the Cursor databases, `detection_marker`); transcripts are
marked afterwards. `LiveAppend` says whether the vendor may write in between.
A forced run writes to a staging tree (`stRows`, `stMark`), dropped with the
run. A snapshot is one step here; the other module opens it up.

### SnapshotPublication

One Project with a durable root, a set of locations, one Source and the raw
store. Snapshots are numbered in creation order, as their identities begin with
a timestamp. A snapshot on disk is `whole`, or what a removal that failed left
of it: `gutted` (a manifest, but no complete stores) or `wrecked`.

| Action | Code |
| --- | --- |
| `Begin`, `Capture`, `Leave` | `current_raw_records`, `RawStore.observe`, a run that creates nothing |
| `Create` | `create_snapshot`, staged and renamed |
| `Accept`, `Reject` | the verdict in `apply_project` |
| `Recover` | `recover_current_snapshot` |
| `Verify`, `ReplaceCentral`, `ReplaceLocal`, `ReplaceFails`, `Rollback` | `publish_snapshot`, one step per file replaced |
| `AfterIngest`, `Trim`, `TrimDone` | `_trim_prior_snapshots`, one step per directory |
| `AfterApply` | `update_approved_catalog` |
| `Plan`, `PruneSnapshot`, `PruneObject`, `PruneDone` | `build_retention_plan`, `apply_retention_plan` |
| `Crash`, `PruneCrash` | the process dies |

A run of kind `candidate` leaves its snapshot unpublished. `Apart` states the
single-writer assumption for the one pair of commands that share raw objects:
a prune and a run. Two history variables serve properties only: `served` and
`torn`.

`CurrentSnapshot` is the promise: a current snapshot that is always held whole,
changes in one step and is not discarded while current. The refinement maps
`held` to the whole snapshots and `current` to `Serving`: the central pointer,
except between the two replacements of a publication, when the pointer a
rollback would restore counts. A publication thus takes effect when the second
replacement succeeds, or when a crash or a failed rollback leaves the first.

### ProjectCatalog

Every process at work is a `Worker` with the copies of the documents it has
read. A document is replaced as a whole by a changed copy, and no lock spans
the read and the write. Projects are numbered as they are minted.

| Action | Code |
| --- | --- |
| `BeginIngest`, `Load`, `Resolve`, `Enter` | `ensure_project_binding`: the reads of the binding file, the catalog and the index, `_resolve_project_id`, the write of the catalog |
| `Look`, `Record`, `Bind` | `record_binding` with its own read, the write of the binding file |
| `Open`, `Link`, `Relink`, `IngestDone` | `get_project_entry` in `_ingest_project`, `register_workspace_bindings` |
| `BeginAdd`, `Claim`, `Save`, `Adopt` | `add_project_location`, by itself or inside a relocation |
| `BeginRetire`, `Verify`, `Drop` | `retire_location`, `retire_project_location`, likewise |
| `BeginRelocate`, `Fail`, `Undo` | `relocate_project`, a failure of any of its steps, its rollback |
| `Crash`, `Clean`, `Copy`, `Move`, `Damage` | a process dies; what happens to working trees and to the index |

Three history variables serve the properties. `known` is the identity an ingest
or an added location gave a directory, until nothing is owed any more: when
another binding file came into a directory the index does not list, the code
follows that file (a moved tree keeps its Project), and a relocation that is
undone withdraws what it gave. `past` says what became of a working tree, and
`overlapped` whether two processes were ever at work at once.

### CursorCohort

Cursor keeps the conversations (composers) of all Projects in one database. The
content of a composer is the moment of its last write, so `live` and `clock`
are the database and its container's stat; `stored` and `saved` are rows and
markers of each Project, `selCache` and `cohCache` the two cache files. `listing`
says how Cursor lists a composer: by a header, or without one by the index of one
of its Project's workspaces, or of several, in which case it is ambiguous and not
selected. The two histories `absent` and `unmarked` are the exceptions
`DropsOnlyAbsent` and `NeverOlder` make.

| Action | Code |
| --- | --- |
| `StartRun`, `ReadIndexes`, `ReadGlobal` | the preflight of `run`: `get_project_composer_headers`, the indexes of the workspaces first, then the headers |
| `ReadIndexesShort`, `ReadGlobalShort` | an index or the headers do not read, which is reported |
| `MissWorkspace`, `MissHeaders` | `get_workspace_ids`: a `workspace.json` does not read, which is not |
| `CacheAnswers`, `LookupMarks`, `OpenBracket`, `ReadMarks`, `CloseBracket` | `resolve_selection_markers`: the cache, or a read between two looks at the container, retried |
| `AskCohort`, `RestoreCohort`, `CaptureCohort` | `cohort_needed`, `prepare_cursor_cohort`: the retained object or a new copy |
| `SkipProject`, `PassProject`, `OpenProject`, `DecodeComposer`, `DecodeFails`, `CommitProject`, `MarkProject` | `_ingest_cursor`, one Project at a time |
| `EndRun`, `Leave` | the end of the command, or its death anywhere |
| `CursorWrites`, `CursorRelists`, `CursorDeletes`, `LoseObject` | Cursor's own writes; the object of a cohort is pruned or damaged |

What is selected, marked and decoded need not agree. The marker of a selection
reads the headers again, but takes what indexes list from the first reading
(`MarksNow`); a Project for which nothing was found reads its headers, without
indexes, once more before it is decoded (`HeadersOf`).

### Around an ingest

`RefreshReceipts` (`refresh_operations.py`, `refresh_receipts.py`): a refresh
plans (`StartRefresh`), validates every Project (`Preflight`, `EndPreflight`),
compares the plan with the catalog once more (`Compare`, `BlockApply`), ingests
(`IngestBegins`, `IngestPublishes`, `IngestEnds`) and gives a verdict
(`EndApply`); each writes the receipt (`Checkpoint`). An ingest publishes first
and writes its report later, with other refreshes' ingests in between, since
nothing locks a Project; `CollectResult` then reads whichever report it finds.
`Interrupt` ends a refresh anywhere. `Newest` and `Latest` are what readiness
reads.

`ReportBuffer` (`reporting/`): `Report` puts an Event into the ring and drains a
batch when `FlushDue` says so, `Flush` drains; `Emit` hands a batch to every
sink, of which any may fail.

`BaselineWorkflow` (`baseline_operations.py`): `BeginApply` to `WriteReport` are
the steps of `apply_project`, of which any may fail (`FailApply`); the stores
are unlinked before the state file (`ResetWorkingStores`, `DropState`).
`FreezeApproved`, `FreezeReviewed`, `VerifyReviewed`, `RollBackFreeze` and
`KillFreeze` are `freeze_reviewed_catalogs`. Between commands Sources and the
package change, and ordinary ingests publish.

`RawCapture` (`raw_store.py`, `fileio.py`): `Begin` stats and, for a database,
backs up; `ReadChunk` copies a chunk at a time while the vendor writes, `Check`
compares the second stat, `LookUp` and `Promote` make the object,
`Record` merges the record into the run's; `PublishRecords` puts it in a
snapshot, `Restore` takes it back out.

### Finding and judging

`SessionScan` (`walk_sessions.py`, `scan_cmd.py`): a machine is a set of
directories with repositories, exclusions and the three vendors' stores.
`WalkRoot` is `walk_sessions` for one root: candidate paths, their boundaries,
the ones that remain when outer ones give way, the counts, the recency window.
A Project has the workspaces of its tree and those its approved source links name
(`WorkspacesOf`). Every workspace database and the central store count by
themselves (`CursorSessions`), the central store for the composers it binds to
those workspaces or one index alone lists (`Attributed`). A source whose read
fails may stop the scan, a malformed index does not.

`ProjectRegistry` (`registry_store.py`): a command loads the file
(`LoadRegistry`) and writes it over (`SaveRegistry`), or dies and tears it
(`TearRegistry`). `State` is `project_lifecycle`.

`CandidateReview` (`review_project.py`): `ReadCatalog`, `ObserveSessions`,
`EnterRoot`, `VisitDirectory`, `EndTraversal`, `WriteCatalog` are
`refresh_candidates` with the bounded traversal of `discover_git_roots`;
`Decide` is a decision recorded at any time.

`SnapshotValidation` (`baseline_validation.py`): `GoWrong` is a defect of what
an ingest wrote; `OpenSnapshot` to `ValidatePolicy` collect errors and
limitations. `InsertRow` builds two tables whose digest input is compared.

### Decoding and storing

Each adapter is a loop over one Source, one record or row a step, after a first
pass that collects what only other records tell. The content policy is a choice
at every body.

`CodexRollout`: `Decode...` are the branches of `process_file`. `unclaimed`
counts the submissions no message has claimed, `config` what is in force.
`ClaudeTranscript`: likewise, with blocks, results written out to files, and
strict mapping, which ends the decoding at a record it cannot map.
`CursorDecoding`: `BindMessages` is `_agent_kv_by_session`; `ReadBubble`
collects the bubbles of a composer in the order of keys, and `Flush` drops the
server's copies, sorts, marks repetitions and yields.

`SessionGrouping`: `StoreEvent` is one Event of `replace_session_events`: its
interaction, turn, inherited configuration and tool invocation.
`RecordModelEvidence` is what the Session says of its models at the end.
`NormalizedStore`: `OpenPass`, `ReplaceSession`, `RemoveSession`, `ClosePass`
(with drop and prune, for a database) or `EndTranscript` and `Sweep`, for
transcripts, over the rows Sessions share.

### Asking

What the code sorts by columns that tell all rows apart (an `ORDER BY` ending in
an identity, `sorted` with a key) is `ListOf` of `Orders`: the element at place `i`
is the one that `i - 1` others precede. What it adds up is `Total` of a list or
`Weight` of a set. Neither is a recursion, so both can be reasoned about.

`QuerySelection` (`query_api.py`): `Ask` validates a request and opens a cursor
a store, `Take` returns the least head of them, `Overflow` and `Exhausted` end
it; `Save`, `Narrow` and `Compare` are investigations; `Reselect` selects other
snapshots between queries.
`QueryScope` (`query_cmd.py`, `query_reports.py`): `Resolve` fixes Projects and
snapshots, `OpenNext` opens one of them a step while `Publish`, `Curate` and
`PruneRelease` happen, then one report: `ListSessions`, `ShowNumber`,
`ShowIdentified`, `CountStats`, `SaveRequest`, `Replay`, `PairCalls`.
`ActivityOverview`: `ReadRow` in any order, then `Summarise`.
`TokenUsage`: `Collect` takes the marks of all files at once (the code stats them
one after another) and looks in the cache, the reads follow file by file while the
vendors append, `KeepResult` fills the cache.

## Runs

| Run | Instance | What it shows |
| --- | --- | --- |
| `ingest_faults` | 2 Sources of 2 vendors (one marked early, one late), 2 revisions each, every option combination, every fault, live appends | `TypeOK`; `MarkTrailsRows`; `NoRegress`: no failure, not even a crash in the middle of a promotion, makes rows older |
| `ingest_live` | the same Sources, updates only, failing reads and commits | `EventuallyPublished`; `EvidenceCoversRows` |
| `ingest_lost` | identity change | violates `EventuallyPublished` |
| `snap_promise` | 2 locations (interchangeable), 4 snapshots, 2 contents, retained totals 1 and 2, ingests and baseline runs, every fault | `TypeOK`, `CentralServes`, `EvidencePresent`, `PointersAgree`, `KeepsPromise`, `SelectedKept`, `PruneSparesPointers` |
| `snap_single` | 1 location, 5 snapshots, 1 content, retained totals 2 and 3, every kind, every fault | `LocalServes`, `RollbackKept` |
| `snap_location` | 2 locations, 3 snapshots, total 1, no fault | violates `LocalServes` |
| `catalog_alone` | 1 worker, 2 directories (interchangeable), 2 Projects, every command, every fault | `TypeOK`, `IndexBacked`, `OneOwner`, `KeepsIdentity` |
| `catalog_overlap` | 2 workers ingesting, 2 directories, 3 Projects, no fault | `OwnTreeKeepsIdentity` |
| `cursor_cohort` | 2 Projects, 3 composers (those of one Project interchangeable), none or two of them there at first, 2 writes, 2 attempts at an unstable read; both Projects with capture, forced or not, and one without capture | `CursorTypeOK`, `NeverOlder`, `CachedMarksHold`, `DropsOnlyAbsent` |
| `cursor_gap` | the same, updates of both Projects with capture | violates `UnchangedIsComplete` |
| `upkeep` | the eight small components around an ingest, see below | `UpkeepTypeOK` and, of each component, the property named below |
| `decoding` | the nine small components from a vendor's record to an answer | `DecodingsTypeOK` and, of each component, the property named below |

| Property of `upkeep` | Of | Says |
| --- | --- | --- |
| `ReceiptsTellWhatWasDone`, `NamesItsSnapshot` | `RefreshReceipts` | a receipt on disk lacks at most the ingest just ended; readiness never goes back to an older result; a passed result names the snapshot of its ingest or a newer one, or one another ingest had published and was still to report when this one published |
| `DeliversInOrder` | `ReportBuffer` | every sink takes its Events once and in order, losses are accounted for, no warning waits, the ring holds the last ones however often it wrapped |
| `ReviewedIsAFixedPoint`, `DiscardLeavesASnapshot` | `BaselineWorkflow` | what is frozen was built twice alike, under the release it is frozen under; working stores are given up only beside a published snapshot |
| `RecordsTellWhatIsKept` | `RawCapture` | a copy is one state of the file, a captured record can be restored, a record that differs from the published one is noticed |
| `DiscoveryAccounts` | `Discovery`: `SessionScan`, `CandidateReview` | a Session is in two rows of a root only for the reasons `CountsOnce` names, and none is left out unsaid; a traversal is complete or says it is partial |
| `RecordsOutlast` | `Discovery`: `ProjectRegistry`, `CandidateReview` | facts and decisions outlast commands that do not overlap with them |
| `ReportsTellTheTruth` | `Discovery`: all four | of several places of an undisputed Project (`Undisputed`) one is the original; hidden Projects are counted; a snapshot is rejected exactly if something is wrong with it; equal digests mean equal rows, and the reverse where rows are ordered |

| Property of `decoding` | Of | Says |
| --- | --- | --- |
| `EventsFollowTheRollout` | `CodexRollout` | prompts are what the person submitted, a configuration is the one in force, both records of a call agree |
| `EntriesAreDistinctAndLinked` | `ClaudeTranscript` | no two Events share an identity, a result knows its tool |
| `ComposersAreWhole` | `CursorDecoding` | a composer's Events stand together, tokens and repeated calls count once, messages find their composer or are refused |
| `StoredRowsCohere` | `StoredRows`: `SessionGrouping`, `NormalizedStore` | an inherited configuration governs, requests are remembered; what rows share is held as long as one refers to it |
| `OnlyOwnedSessionsGo` | `NormalizedStore` | a pass removes only Sessions of its own file |
| `AnswersFollowTheData` | `QuerySelection`, `QueryScope`, `ActivityOverview`, `TokenUsage` | answers come in one order of all stores and say what they lack; numbers, counts and replays are of the snapshots selected; days and tokens add up in any order |

Bounds. Two Sources of different vendors are the least for which a rebuild of a
subset, a promotion cut in two and a failure beside a success differ; two
revisions let a Source be behind, level and ahead; a third would only repeat.
Four snapshots are enough for a current one, a stale pointer, a rollback target
and a candidate at once; five in the single location let a retained total of
three bite; its properties are not about evidence, so one content will do. Two
contents make a raw object that only an old snapshot names. A retained total of
1 lets a trim take everything it may, 2 separates what a prune keeps from what
is current. A candidate run leaves what a rejected baseline run leaves, a
snapshot that was never published, so `snap_promise` does without that kind.
Two directories and two Projects are the least for which a binding file can
come from elsewhere, a location can be claimed twice and a relocation has two
ends. Overlapping ingests need a third Project: two processes may mint one each
and lose both entries, and it takes a further one to show that a directory
falls through to a new identity. (`catalog_overlap` was also run, outside the
project's runs, with crashes and with a damaged index: 5 and 6.5 million
states, no violation.)
The bounds of these are `MaxRev`, `MaxId`, `MaxContent` and `MaxProject`; the
guards that use them are those of `Write`, `Create` and `Resolve`.

Two composers of one Project and one of another separate what is shared from
what is owned, and `MaxWrites` 2 lets a composer be written again, listed
otherwise, or deleted, on either side of each read; two of them at first let a
Session be stored and its composer become ambiguous. Of the small components: two
refreshes of two Projects overlap, publish and report in every order, and push each
other's receipt beyond a limit of one; a
ring of 3 with batches of 2 and 4 Events wraps with Events pending, and the
collector's room of 3 runs out within a batch; three builds (`MaxBuilds`) are
the two of a repeat and an earlier or later one; a file of 2 chunks, written once
(`MaxWrites`) and observed twice (`MaxCaptures`) by two Projects, changes before,
between or after the chunks; two commands (`MaxUpdates`) are the least that
overlap, and one move (`MaxMoves`) the least that makes a path go stale; two
refreshes (`MaxRefreshes`) and a decision (`MaxDecisions`) race and follow one
another; one defect (`MaxDamage`) is enough, since each check looks at one thing;
three rows (`MaxRows`) hold a tie and a third. A behaviour of `MCUpkeep` begins
in one state, an initial one, of each component it is not about
(`MCUpkeepInit`). A rollout of 3 lines (`MaxLines`) holds a submission, its
message and its repetition, or a call with both of its records; 2 records of 2
blocks (`MaxRecords`, `MaxBlocks`) a use and its result in either order; 3
bubbles a tie, a repetition and another composer; 3 Events (`MaxStored`) a
prompt, its configuration and one that inherits it; two files, Sessions and
revisions with one rewrite (`MaxRevision`, `MaxRewrites`) a Session that moves
to another source; two stores of up to three rows a limit inside a merge; two
queries or commands (`MaxQueries`, `MaxCommands`) what a later one makes of an
earlier; 4 rows of an overview two exchanges on two days; 3 appends
(`MaxAppends`) a fall of a counter or a message stated in two files. The inputs
of these components (`MC...` definitions of the MC modules) are chosen for such
cases and not all there are: machines, trees and snapshots to be validated above
all. The machines have up to two workspaces, apart, nested or linked to another
Project, composers that one index lists, two, or the central store binds, rows of
one composer in two databases, and a workspace or the central store that fails.

Every system specified here may stop: nothing obliges a vendor to write or an
operator to start a run. `upkeep` and `decoding` switch deadlock checking off,
since a behaviour there ends when its bound is reached or its Source is
decoded; the other runs need not, since a run may always be begun or ended.

### What the violations show

- `ingest_lost`. When the Project identity changes during a first run,
  publication is withheld (`ingest_cmd.py:1348-1352`: "so a later run rebuilds
  them"), but the Sources are marked. Later runs find them unchanged, have no
  raw records, and publish nothing until a Source changes or a run is forced.
- `snap_location`. The trim spares what was just published and what catalogs
  select; what the pointer of another location names is not looked at, though a
  prune refuses exactly that.
- `cursor_gap`. The headers that select what is decoded are read before the
  markers, which read the headers again. A composer created in between is in the
  marker that is saved and in no Session, and later runs skip its Project.

### Seen while modelling, and outside the runs

Where a property holds only with an exception, the exception is named in its
definition and listed here; `findings` of `PROJECT.json` quotes the lines.

*Ingest.* A run that dies after its commits leaves rows the next snapshot binds
to the older raw records (`EvidenceCovers` is proved for runs carried to their
end, and fails otherwise). `mark_source_complete` stats a transcript after it
was read, so an append in between counts as read. A failed rebuild clears the
changed vendors but not `raw_records_changed`, and publishes all the same. A
Cursor workspace that cannot be read is left out without a read error, and its
Sessions are dropped. So is the Session of a composer that has no header and that
a second index lists, a diagnostic apart; or that loses its header between the
two readings; or that an index lists between the reading and the marker, since
the cached markers lack it until the container changes (`unmarked`). When nothing
was found of a Project its headers are read once more, its indexes not. A
response refused in the second phase of the content
policy takes its bubble's reasoning and call with it. The second of two
databases that hold one Session removes what the first gave.

*Publication and retention.* Candidates, rejected snapshots and the remains of a
failed removal count towards the retained total, so `RollbackKept` is stated for
when there are none; recovery takes the newest snapshot that validates, which
may never have been published; and with `Apart` false a prune deletes the object
a run has just captured, so that `EvidencePresent` fails. A baseline reset that
dies between the stores and the state file leaves marks without stores.

*Catalog.* `add_project_location` records nothing in the index and
`retire_project_location` removes nothing from it, so an ingest at a retired
path makes the location active again; where a tree was copied over an ingested
directory the index is no cache: without it the Project of the copy is reached.
After overlapping processes and a crash the index may list a directory the
catalog does not, which is why `IndexBacked`, `OneOwner` and `KeepsIdentity`
speak of processes that do not overlap. The registry and the candidate list are
written over likewise (`alone`, `raced`).

*Refreshes.* An ingest publishes well before it writes its report, and nothing
keeps the ingest of another refresh from doing both in between. The receipt may
then name a snapshot older than the one its own ingest began with: `floor` of
`RefreshReceipts` is how old.

*Discovery.* A subdirectory's Sessions are given to its repository, where they
are not counted; an included path below an excluded directory is not visited. A
composer with rows in a workspace database and in the central store counts twice
in one row, since the databases are added up. A workspace a source link gives to
another Project counts for both, and so does a composer two workspaces of
different Projects claim: `CountsOnce` says that nothing else does.
Two catalog entries that list the same two places in opposite orders make each place
a copy of the other (`project_lifecycle`), and no original is left; hence
`Undisputed`.

*Query.* A request narrowed by a result it has nothing in common with is not
narrowed at all. A scope selected by path names no snapshot, so its saved
request is answered again over another one; a Project set that names a snapshot
twice, once as the current one, counts it twice (`doubled`).

## Fairness

`FairSpec` assumes that a started run goes on (`WF` on its steps: the loop has
no waits), that the operator keeps starting runs (`SF` on `Begin`: routine
updates are repeated, nothing else drives Codess), and that a Source read again
and again is some time admitted, decoded, observed and committed without an
error (`SF` on these four, by Source: errors are transient). Without the last,
a Source that fails for ever is rightly never published. The other modules have
no liveness property, so no fairness: what they promise is about order, not about
time, and nothing obliges an operator to repeat a command.

## Proofs

All theorems hold for every set of Sources, vendors, options, locations,
directories, workers, Projects, composers, Sessions, files, refreshes, sinks,
machines and trees, for every bound and every combination of faults, from the
named `ASSUME` of each module, which states the types of its constants and
little more: that what stands for "no value" is no value (`NoneAssumption`,
`NothingAssumption`; that `Unset` is neither a setting nor a turn or call, in
`GroupingAssumption`), that the directories of a machine and the sinks are
finitely many, that no two files of a machine hold one Session and no two
workspaces have one name, that the parents of a tree's directories are in the tree
(`ScanAssumption`, `ReviewAssumption`), that what is there at first is listed in
some way (`StartedAssumption`), that the catalog is a list of entries
(`RegistryAssumption`) and a normalized row has a key, a number, and nothing beside value and observation
(`ValidationAssumption`), and that the ring holds a batch (`ReportAssumption`: the
ring has `DEFAULT_CAPACITY` slots, the largest batch of a profile is a fraction of
it). What is decoded, queried or reported is finite, and told apart by the keys the
schema and the vendors' databases have: a bubble by its key within a composer
(`DatabaseAssumption`), an Event by its identity within a store
(`QueryAssumption`), a Session within a snapshot and a snapshot by Project and name
(`QueryScopeAssumption`); days and their limit are not empty (`OverviewAssumption`),
and identities that are sorted are numbers, told apart from what stands for
none (also `TokenAssumption`). TLC evaluates them all.

| Theorem | Property | Needs |
| --- | --- | --- |
| `TypeCorrect`, `MarkersTrailRows`, `RowsNeverRegress` | `TypeOK`, `MarkTrailsRows`, `NoRegress` | - |
| `EvidenceCovers` | `EvidenceCoversRows` | runs carried to their end, no candidates (`Completed`) |
| `PublicationTypes`, `PairStaysTogether` | `TypeOK`, `PointersAgree` | - |
| `ReaderIsServed`, `EvidenceIsKept` | `CentralServes`, `EvidencePresent` | `Apart` |
| `ImplementsPromise` | `KeepsPromise` | `Apart` |
| `SelectionIsKept`, `PointersAreSpared` | `SelectedKept`, `PruneSparesPointers` | `Apart` |
| `LocationIsServed` | `LocalServes` | `Apart`, one location (`Single`) |
| `RollbackTargetIsKept` | `RollbackKept` | `Apart`, retained totals above one |
| `CatalogTypes` | `TypeOK` | - |
| `IndexIsBacked`, `DirectoryHasOneOwner`, `IdentityIsSettled` | `IndexBacked`, `OneOwner`, `KeepsIdentity` | - (each is about processes that do not overlap) |
| `OwnTreeIsSettled` | `OwnTreeKeepsIdentity` | the index is not lost as a whole |
| `CursorTypesHold`, `MarkersNeverAhead`, `CacheIsCurrent`, `DropsAreObserved` | `CursorTypeOK`, `NeverOlder`, `CachedMarksHold`, `DropsOnlyAbsent` | - |
| `FrozenIsFixed`, `DiscardsAreBacked` | `ReviewedIsAFixedPoint`, `DiscardLeavesASnapshot` | - |
| `RefreshIsTyped`, `ReceiptsTell`, `ResultsNameTheirSnapshot` | `RefreshTypeOK`, `ReceiptsTellWhatWasDone`, `NamesItsSnapshot` | - |
| `RawIsTyped`, `RecordsAreKept` | `RawTypeOK`, `RecordsTellWhatIsKept` | - |
| `ReportIsTyped`, `DeliversAll` | `ReportTypeOK`, `DeliversInOrder` | - |
| `SessionsCountOnce`, `NoTranscriptIsLost`, `TraversalFindsAll`, `FindingsAreAccounted` | `DiscoveryAccounts`, which is made of the first three's | - |
| `FactsAreKept`, `DecisionsAreKept`, `RecordsStay` | `RecordsOutlast`, likewise | - |
| `HiddenProjectsAreCounted`, `OneOriginal`, `VerdictTells`, `DigestsAgree`, `ReportsAreTrue` | `ReportsTellTheTruth`, which is made of the first four's | - |
| `ScanIsTyped`, `ReviewIsTyped`, `RegistryIsTyped`, `ValidationIsTyped`, `WorkflowIsTyped`, `UpkeepIsTyped` | `UpkeepTypeOK`, together with the three `...IsTyped` above | - |
| `UpkeepImplementsItsParts` | each of the specifications composed in `Upkeep` | - |
| `RolloutIsTyped`, `EventsFollow` | `RolloutTypeOK`, `EventsFollowTheRollout` | - |
| `TranscriptIsTyped`, `EntriesAreLinked` | `TranscriptTypeOK`, `EntriesAreDistinctAndLinked` | - |
| `StoreTypesHold`, `SharedRowsHold`, `OwnersDecide` | `StoreTypeOK`, `SharedRowsAreHeld`, `OnlyOwnedSessionsGo` | - |
| `GroupingIsTyped`, `GroupingCoheres`, `RowsCohere` | `GroupingTypeOK`, `GroupingIsCoherent`, `StoredRowsCohere` | - |
| `DecodingIsTyped`, `ComposersWhole` | `DecodingTypeOK`, `ComposersAreWhole` | - |
| `QueryIsTyped`, `QueriesFollowTheStores` | `QueryTypeOK`, `AnswersFollowTheStores` | - |
| `CommandsAreTyped`, `CommandsTellTheirSnapshots` | `QueryScopeTypeOK`, `CommandsReadTheirSnapshots` | - |
| `OverviewIsTyped`, `OverviewsFollowTheRows` | `OverviewTypeOK`, `OverviewFollowsTheRows` | - |
| `TokensAreTyped`, `TokenCountsFollowTheFiles` | `TokenTypeOK`, `TokensFollowTheFiles` | - |
| `DecodingsImplementTheirParts` | each of the nine specifications composed in `Decodings` | - |
| `DecodingsAreTyped`, `AnswersAreTrue` | `DecodingsTypeOK`, `AnswersFollowTheData`, which is made of the four above it | - |

Theorems of a component of `Decodings` are about its own specification.
`DecodingsImplementTheirParts` carries them over to the composition the run
checks: a step of one component leaves the variables of the others alone, so a
behaviour of `DecodingsSpec` is one of each of the nine;
`UpkeepImplementsItsParts` does the same for `Upkeep`. A run's behaviours are
some of these, since it restricts the initial states alone.

*Ingest.* `NoRegress` is not inductive: that a promotion loses nothing depends
on what the staging tree holds. `StageInv` carries it: while nothing failed, a
forced run has staged at least the stored rows of every Source it settled, and
if it found no store there is nothing stored to lose; so whatever reaches
promotion (everything settled, nothing failed or nothing to protect) replaces
rows by rows at least as new. `CursorInv` relates the three looks at a Source,
`MarkInv` states `MarkTrailsRows` for the staging tree too, since a promotion
moves its markers. `BoundInv` adds that the raw records in hand reach every row
in either tree.

*Publication.* `RunInv` says what a publication relies on between its steps:
what it is about to name is whole, so is what it would restore, and its own
trim spares it. `PruneInv` says that a prune has the Project to itself and
spares the current snapshot, and that what it keeps refers to none of the
objects it will delete; it is where `Apart` enters. `EvidenceInv` extends
`EvidencePresent` to what a run has in hand and to half removed snapshots that
still have a manifest. `FreshInv` says that new identities are unused. The
refinement is proved action by action: each is a `Build`, `Publish` or
`Discard` of the promise, or leaves `Serving` and the whole snapshots alone.
`PairInv` and `KeepInv` are the additions for the pointer pair and for what a
trim or prune has still to remove. `LocalInv` adds that at a trim the one
location names what was just published; with two locations it names something
else (`snap_location`), hence `Single`. A retained total of one keeps the current
snapshot alone, hence `1 \notin Depths`.

*Catalog.* `KeepsIdentity` is not inductive: that an ingest takes the right
identity depends on how the documents stand while a worker is between two
writes. `Agreed` relates the documents: a claimant is the only one (`Owner`), a
binding file names a claimant (`Bound`), the index lists only locations
(`Backed`), and what a directory is owed is a claimant or, under a foreign
binding file, what the index says (`Owing`). `Memory` says that what a worker
that is alone has read is still so, and that the catalog a relocation would put
back differs in the one new location. Each write, and each thing that can
happen to a tree or the index, is shown to keep `Agreed`.

`OwnTreeKeepsIdentity` speaks of overlapping processes too, so nothing can be said
of the catalog, which others write over. `OwnInv` says of a directory whose tree
was left alone that its binding file holds the identity it is owed, that the
index and every copy about to replace it list that identity or nothing, and that
only its own ingest may be about to write another (`Settled`, `Unsettled`,
`Written`). Damage to the index is excluded: one that cannot be read counts as
empty (`load_binding_index`), and then index and copies differ in what they list
for a directory whose first ingest is under way. On the instance of
`catalog_overlap` TLC finds the property to hold with damage too.

*Cursor.* `NeverOlder` is not inductive: a marker that is saved comes from a read
that is long past. `MarksInv` places the run's markers between the saved ones and
the database, `CohortInv` and `CohInv` say that what is decoded in its stead is at
least as new, `SelInv` that a cached marker is the database's as long as the
container is the same, and `UnbornInv` that nothing is remembered of a composer
before it exists; `BufferInv` carries this through the decoding of one Project.
`AbsentInv` says of a composer that was there and listed throughout, not by
several indexes alone, that the run's selection has it: an index finds it before
the headers are read, or they do. What a Project drops was therefore absent. A run
may store what its markers leave out, so `MarksInv` and `NeverOlder` say nothing of
a marker that is 0.

*Normalized store.* `SharedRowsAreHeld` is inductive with the types. Three of
the actions take references away: what is left of them is the hypothesis of one
lemma about `Prune` (`PruneHolds`), in which a Source is stale only if no Session
and no Event is left of it, and a body goes only if no Event, link or stray
reference has it.

*Baseline.* `ReviewedIsAFixedPoint` follows a build through five places:
`matched`, the running apply, the report, the catalogs and the copy a freeze
would put back. `WorkflowInv` states for each that the build was compared and
made by the package that goes with it; `ApplyKept` adds that a second build
comes after the first and that both were validated by the package in use, which
cannot change while a command runs.

*Refreshes.* `RefreshInv` says where a refresh stands and what its receipt lacks:
nothing is ingested before all passed, and the one result not on record is that
of the child at work or of the one that ended last (`WorkKept`). That readiness
never goes back needs `ResultsInOrder`: while refreshes follow on each other, results
are obtained in the order in which receipts are written. `ChildKept` says
that no ingest found a snapshot newer than the current one; `FloorsKept` that no
report to come, and none left behind by an ingest that passed, is older than the
`floor` of an ingest of the same Project, whoever wrote it.

*Raw evidence.* `RawInv` follows the bytes of a copy from chunk to chunk:
`ReadKept` says that what was read is the beginning of some state of the file,
which is the state compared if the second stat agrees; `Told` that a record of a
capture names an object that is there, in the encoding it is in; and a record
that was not noticed as changed is that of the snapshot.

*Reports.* `ReportInv` relates the ring to the history: the slots before `write`
are the last events (`Holds`), fewer than a batch is pending, and each sink has
exactly what it is due of the rest (`Delivered`). An event is not overwritten
before it is delivered because a batch is no larger than the ring; that the
reading of the ring is right at the wrap is arithmetic of remainders (`Wraps`,
`RingTurns`), and that a batch arrives in order rests on the existence of an
ascending enumeration, proved by well-founded descent (`SomeOrder`).

*Discovery.* `ScanInv` says that each row is that of some Project of its root;
for which reasons alone two rows share a Session then follows from the order of
directories (`Bindings` from what makes a composer a workspace's), and that
none is lost from the existence of a most specific Project (`MostSpecific`).
`WalkInv` says of a traversal under way that what may still be entered is in the
queue or behind a directory in it, unless it is already partial. `DecisionInv`
says of the refresh's draft what must hold of the file; `RegistryInv` that one
command at a time holds what the file says (`Sole`) and that the file says what
was noted (`Says`). `HiddenInv` compares the running total with a sum over the roots
walked so far, taken as the number of pairs of a root and a hidden path (`Weight`,
`Units`), which a root adds to without any induction. That one place of a Project
is the original follows from the types: no entry disputes its places
(`PlacesOfOne`), so each that exists is the first of them or a copy of it.

*Validation.* `VerdictInv` says that the errors collected so far are none exactly if
what was looked at so far agrees. That the queries of `_validate_store` find
something exactly if the snapshot is not `Sound` takes a little arithmetic: numbers
that are as many as the Events, start at one and end at their count are all the
numbers between (`NumberingIsChecked`), and identities as many as the Events are
distinct (`IdentityIsChecked`). What may go wrong with a snapshot before it is
validated keeps it `WellFormed`, which is what the constant is assumed to hold.

*Digests.* Rows are hashed in the order of keys and, among equals, of insertion.
`InOrder` places a row by how many come before it, so sorting is a renaming of
positions, one to one (`PlacesOfRows`), and leaves each row as often. In the other
direction, rows whose keys differ have one place each, told by the keys alone.

*Adapters.* An Event says something of records before and after it. `RolloutInv`
carries what the decoder remembers of the lines so far: what is left of the
submissions (`ClaimedUpTo`), the configuration last stated (`ProviderInForce`), and that
every Event emitted agrees with the whole file (`Follows`). `TranscriptInv` does
with identities, which grow with the position, and the names of tools, which are
settled before the first entry is made.

*Cursor decoding.* `ComposersAreWhole` speaks of what was yielded, and the rows
come in the order of keys. `ComposersInOrder` says that what is yielded belongs to
composers before the one in hand, and what is unread to it or later ones
(`Waits` turns on the latter); `SoundUsage` that every count or repetition points
back to an Event of the same composer, which a flush keeps because it sorts and
marks one composer only. `Placed` says of a message with evidence of its own that
it left a trace or is bound to a composer still to be yielded: with nothing left
to read, it left a trace. If the corpus could not be read, none of it did
(`Unread`).

*Stored rows.* Of `SessionGrouping`, `AnchorStates` says what makes one pass
enough: the Event an inherited configuration points to stated it with
provenance, and nothing after it stated another.

*Queries.* That an answer is a beginning of the one list of all stores is not
inductive, since it does not say what is still to come. `HeadsFirst` and
`CursorsFollow` say that every store that has rows left has its least one among
the heads; `NothingSkipped` that every selected row was returned, is `Waiting`
behind a head, or is `Beyond` the limit its store was asked for, in which case at
least as many rows come before it as are asked for. `Beginning` follows for the
rows taken one by one, and `PrefixOfList` turns "in order, and nothing left out
before" into a prefix of the enumeration. A comparison rests on what is `saved`
being complete (`SavedComplete`).

*Commands.* A Session's number means something only together with a listing, and
a listing outlasts the scope it was made of. `Listed` and `Shown` therefore say
that what is on record is the sorted content of some releases, and that the rest
is a function of the `reading` kept with it: two listings of equal readings are
equal. `RequestKept` says that a saved request names the snapshots that were read.
The pairs of calls and results are those of `PairCalls` because a place among the
lines is taken by one of either (`PlacesAreTaken`).

*Overview.* Rows are read in any order. `BucketsFollow`, `LatestFollows` and
`StampsFollow` say of the rows read so far what days, last responses and moments
they make, whatever the order; the sums over days are then sums over the
selection, since every row is of one day.

*Token counts.* The marks are taken before the files are read. `GrownSince` says
that files only grow, so marks that still hold at the end held throughout, and
`CountedSoFar` says what was counted in that case: each message once, in the first
file that states it (`FirstsOf`). What was kept under older marks is never
answered again, since no file returns to the size it had (`KeptIsTrue`).

Only model-checked is `EventuallyPublished`, since liveness is out of the prover's
reach. Every other property of a passing run is a theorem, under what the table
above says it needs.

## Not modelled

- Of the vendors' formats: the fields a record is copied into, model names, the
  parsing of times, history files, and the chunked reads of large values. A text
  is its comparison key, a body what it is told apart by.
- The schema: DDL, text index, workspace rows, package digests. Inside a
  published snapshot, digests, package identity and read contracts are one thing,
  `whole`; only `SnapshotValidation` opens a snapshot up.
- Content processing: per-record transformation without state. It is a choice at
  every body of the adapters, and a reason to publish in `ProjectIngest`.
- Of queries: text search, facets, model filters, Artifact and audit reports.
  Audits and reports read and print; settings and helpers have no state.
- Of retention: working archives, the large-revision rule of a prune, its
  receipt. Several Projects share only the raw store, where a prune refuses as a
  whole.
- Of the catalog: selection states, the contents of workspace bindings, and
  `backfill_binding_index`, which no command calls. The pointer a relocation
  copies to the new location is one of the local pointers of
  `SnapshotPublication`, but is not modelled there.
- An unreadable `ingest_state.json` counts as empty: everything is decoded
  again, the safe direction.
- Of admission: the least size of a Source (`--min-size`). A smaller one is
  skipped like one that was not found, before any other check.
- Of Cursor in `CursorCohort`: a composer belongs to one Project, so a source link
  that gives two Projects one workspace is not there; the workspaces a run fixes at
  its start, for its markers, are read in full; an index without the expected table
  or list counts as one that lists nothing.
- Of refreshes: the process of an ingest whose refresh was killed outright and that
  goes on alone, and ingests no refresh started. Either may replace a report, as the
  ingests of other refreshes do.
- Of scans: the row of the whole central store a scan adds at the end. A
  `workspace.json` that cannot be read is a workspace of no directory.
- Of the validation of a snapshot: the contract digest, the validator's version,
  SQLite's integrity and foreign-key checks, artifact indexes and JSON fields, raw
  headers and manifests, and of a policy its Project, least number of Sessions,
  raw mode and workspace identities. Each adds an error or a limitation of its own,
  like those modelled. A store of another format raises `UnsupportedStoreError`;
  `SnapshotValidation` rejects it.

## Plan

Done: the modules listed above, with their runs. Next, in order:

1. A refinement of `ProjectCatalog` to an abstract registry that gives every
   directory one identity; what overlapping catalog commands may undo of each
   other.
2. Relocation in `SnapshotPublication`: the pointer copied to a new location and
   put back when a step fails.
3. `BaselineWorkflow` composed with `SnapshotPublication`: the candidate of the
   one is a snapshot of the other.
4. Several Cursor databases that hold one Session.
