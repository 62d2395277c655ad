# Sounds Right: TLA+ models, model checks and proofs

Sounds Right turns an uploaded recording into a reviewed, published transcript.
This directory models what the program does with its rows, objects, messages,
files and pages, checks the models with TLC on small instances and proves the
central safety properties with TLAPS for instances of any size. Paths are
relative to the repository; `A/` stands for `apps/api/src/sounds_right_api/`,
`W/` for `apps/worker/src/sounds_right_worker/`, `V/` for `apps/web/src/`.

## 1. The system

### 1.1 Components

| component | state it keeps | operations | modelled in |
|---|---|---|---|
| accounts, `A/services/auth.py` | `users`; the token in the browser | register, log in, check of the token | `Accounts` |
| catalog, `A/services/artists.py`, `tracks.py`, `slug.py` | `artists`, `tracks`, numbers of `track_versions` | create, rename, list | `Catalog` |
| upload, `A/services/versions.py`, `V/app/.../versions/[versionId]/page.tsx` | `upload_sessions`, `track_versions`, the temporary audio; the page's file and URL | upload URL, PUT, upload complete | `Upload` |
| start of a transcription, `A/services/jobs.py` | `transcription_jobs`, `job_events`, `track_versions.status` | `start_transcription`: check, commit, publish | `StartTranscription` |
| event bus: topic `sounds-right.events` | partitions, keyed by job id | `EventProducer.publish` | `EventBus`, `Lifecycle` |
| worker, `W/main.py`, `W/jobs/`, `W/events/` | the run in hand; position in the topic; the running flag | consumer loop, pipeline run, mock run, failure handler, SIGTERM | `Worker` |
| job directories, `W/jobs/tempdir.py` | one directory per job on the worker's disk | create, fill, remove | `Workspace` |
| audio probing, `W/audio/` | none | `parse_ffprobe_output`, `validate_audio`, ffmpeg | `AudioProbe`, `Workspace` |
| transcript building, `W/transcription/`, `W/storage/` | none | `parse_whisper_output`, `build_transcript`, `build_manifest` | `Transcript` |
| projector, `A/events/projector.py` | the tables of jobs and versions; position in the topic | `run_projector`, `project_event`, `start_projector`, `stop_projector` | `Projector` |
| object store (MinIO) | temporary audio; `transcript.json`, `manifest.json` per version; public bucket | put, stat, delete | `ObjectStore`, `Upload`, `Publication` |
| database | the rows the above share | transactions | `Database` and the module of each handler |
| review, `A/services/review.py` | `review_events`, `track_versions` | `approve_version`, `reject_version`, the queue | `Review`, `ReviewDesk` |
| publication, `A/services/publications/` | `publications`, `track_versions.status`, public bucket | `publish_version`, `unpublish_version`, public reads | `Publication`, `PublicFace` |
| web client: job page, review page, player, `V/` | cached rows, requests under way, a clock | polling, decisions, playing | `Pages`, `KaraokePlayer` |
| web client: the other pages | one query each | lists, forms, layout | no (section 5) |
| HTTP layer and settings; migrations and infrastructure; old prototype | none of its own | | no (section 5) |

### 1.2 How they interact

```
 browser ── register, log in ──> API: users
         ── create artist, track, version ──> API: rows, unique by slug or number
         ── upload-url ──> API: session, version status ──> presigned URL
         ── PUT audio ──> MinIO (past the API)
         ── upload-complete ──> API: stat of the object, version row
 POST start ──> API: job row + version status ──commit──> Postgres
                 └── transcription.requested ──> topic ──> worker group
 worker: started, progress*, completed | failed ──> topic ──> projector group
 worker: audio ──read, delete── MinIO ──put── transcript.json, manifest.json
         └── ffprobe, ffmpeg, whisper.cpp on the files of the job's directory
 projector (task of the API process): events ──> job, version, job_events
 job page ── every 1.5 s ──> API: job, events
 POST approve/reject ──> API: version row lock, transcript from MinIO, review event
 POST publish/unpublish ──> API: version row lock; public objects to MinIO, then commit
 GET public manifest, latest, version ──> API: publication row, then the object
```

The API is one asyncio process: coroutines interleave at every `await`, and the
projector is one of them. Workers are separate processes of one consumer group;
they share the object store, and on one host the job directories. API and
workers never call each other, they meet in the topic. Browsers are further
processes: what a page shows is the answer to an earlier request, and it meets
other pages only in the rows.

### 1.3 What is hard about it

* **Unlocked reads.** `start_transcription`, `project_event`, `create_upload_url`
  and `complete_upload` read rows, await, and commit later. Reviews and
  publications lock the version row (`SELECT ... FOR UPDATE`), the others do
  not take that lock, and nothing locks the rows and objects that all versions
  of a track share. Slugs, user names and addresses are looked up first and
  inserted later.
* **At-least-once and at-most-once at the same time.** Both consumers leave
  aiokafka's background commit on. It may commit the event still being
  processed (a crash then loses it) or not yet have committed one long finished
  (a restart then repeats it).
* **Two workers on one request.** A transcription outlasts the poll interval of
  five minutes; the coordinator gives the partition away and the next owner
  starts over while the first one is still running. Object keys depend on the
  version, not on the run; file names on the host depend on the job.
* **Answers that get lost.** A handler goes on when its client has given up and
  tries again: two `complete_upload` calls of one upload may overlap.
* **Ambiguous publishes.** A send may raise although the broker stored the
  message, or store it twice. The pipeline's failure handler then publishes
  `failed` for a run whose `completed` is stored.
* **Stopping.** SIGTERM clears a flag that is looked at only when the next
  request is in hand; that request is dropped. Stopping the API cancels the
  projector's open transaction but its consumer commits the position.
* **Stale pages.** The answer with an upload URL may find another file chosen;
  an answer requested before a decision may arrive after it; polling is driven
  by the answer to the last poll.
* **No transaction spans database, topic and object store.**
* **Reports of external programs.** ffprobe and whisper.cpp may leave fields
  out, and die while they write.

`PROJECT.json` lists each of these hazards at its line with the property that
would catch it going wrong.

### 1.4 What makes it correct

* A confirmed upload is a stored object, described as it is. No row names a
  transcript that is not stored (a manifest key may, after a re-emission, and
  the key of the temporary audio does once that is deleted); no audio is deleted
  before it is transcribed; nothing is approved without a transcript.
* Jobs only move forward, and whatever ended a job is in its audit trail.
* The version's status is what its job says; each completion is decided once;
  a decision is not undone by a repeated event.
* Every request ends in `completed` or `failed`, or is lost in one of few known
  ways, each fault losing at most one; an open job page shows the end.
* A transcript is that of the whole recording, whatever an earlier run left on
  the disk; its counts agree with its text.
* A published version's files are complete, never mixed and never overwritten;
  the shared documents name only what is stored; `latest.json` is never behind
  the rows unless a call failed.
* Who is told that a name, a slug or a number is free does not find it taken
  unless somebody was faster; lists can be read to their end; accounts can be logged in to.

## 2. The modules

The modules of the transcription flow share their state by `EXTENDS`; a
component's action says what it leaves alone among the variables its module can
see, and `Transcription` adds the variables of the other components.

```
              Lifecycle                 statuses, rows, events
      ┌───────────┼───────────┐
  EventBus     Database   ObjectStore   state and primitive operations
      ├─────┬─────┤ ├──────────┤
 StartTran-  Projector  Review   Worker (EventBus, ObjectStore)
 scription
      └───────────┴──────┴───────┘
            Transcription               composition, properties, IInv
          ┌───────┴────────┐
  MCTranscription   Transcription_proofs ── Delivery_proofs

  PublicFace <── refined by ── Publication ── MCPublication, Publication_proofs
  Upload ── MCUpload, Upload_proofs     one version, its pages and its object keys
  AudioProbe ── Transcript ── Workspace ── MCWorkspace, Workspace_proofs
                                        runs of one job on a host
  Accounts ── Catalog ── MCCatalog, Catalog_proofs
                                        people, artists, tracks, version numbers
  ReviewDesk, KaraokePlayer ── Pages ── MCPages, Pages_proofs
                                        open pages and the API behind them
  NumberLemmas                          least numbers, induction, folds: used by
                                        Workspace_, Catalog_ and Pages_proofs
```

**`Lifecycle`** has the enums, rows and event envelopes. Data is kept as far as
a property can tell it apart: an event is its job, its id, its type, its
progress, whether it carries the artifact keys, and the digest. A digest stands
for what was hashed: the *run* (job, id of its `started` event) that built the
transcript. `NoRun` is NULL, or "no such object".

**`EventBus`**: `log[p]` is everything ever appended to partition `p`; consumers
are positions in it. `Send(e, ok)` is `EventProducer.publish`: stored once;
stored twice (a retried send); or an exception, with the event stored or not.
`faults` counts injected faults by kind and `MaxFaults` bounds them. Event ids
are UUIDs in the code and fresh numbers here; both keep two events apart, and
copies of one event share it.

**`StartTranscription`**: `request[j]` follows one call. `Check` makes the two
reads, `Commit` is the transaction, `Publish` the send after it. Between them
anything may happen, also the death of the process (`LoseRequests`).

**`Projector`**: `Take` consumes an event and, unless `Ignored`, holds it with
the two rows *as read*; `Apply` commits later. The ORM writes only the columns
that differ from what it read (`WriteChanged`), which matters when a review or a
start commits in between. `DatabaseError` ends the task for good: the consumer
is stopped in the `finally` clause, committing its position, and nothing
restarts the task but a restart of the API.

**`Worker`**: `task[w]` is the run in hand, by its next step; one action per
step of `TranscriptionPipeline._run` that touches shared state or can fail. The
mock run uses the same actions with `MockCheckpoints` and neither keys nor
digest. `Exit` is the end of the process and its restart by the container
runtime. Partitions are assigned (`Assign`) at the committed offset; taking one
from a live owner is the `rebalance` fault. `SeparateVocals` names the jobs
requested with the option of that name, which the pipeline refuses.

**`Review`**: one action per call, because the row lock is held from the read to
the commit. The transcript is read from the store under it.

**`Transcription`**: `Next` interleaves everything; `ApiStop` and `ApiCrash` act
on the start requests and the projector together, since they are one process.

**`PublicFace`** is what publication promises a reader: a version's document
appears in one step, whole, and never changes; it may be hidden, and shown again
with the publication of another version. **`Publication`** follows calls on the
versions of one track, since tracks share neither rows nor objects. A call in
progress holds the lock of its version row (`Locked`). It yields to other
coroutines at database calls only, because the MinIO client is synchronous: so
reading the rows to supersede, writing the objects and committing are three
steps, and the writes are one step that an error may end after any object
(`Written`). The death of the process between two writes leaves the same state
as such an error followed by `Crash`. An immutable file is abstracted to the
call that stored it, `manifest.json` to the versions and the latest it names,
`latest.json` to its version. The refinement mapping (`Face`) takes a version's
document to be its files once it has a publication row, and `visible` to be
whether the public endpoint finds that row. Versions start out approved; what comes before is the
transcription flow.

**`Upload`** keeps pages and handlers apart. A tab is a page, of a person or of
a script used like one: its file, the URL it holds (named by the `upload-url`
call that made it) and the call it waits for. `CheckUrl`, `CommitUrl`,
`AnswerUrl` are `create_upload_url` at its yields and the page taking the
answer; the status is committed before the URL is signed, so `FailUrl` (signing
fails, the answer is lost) leaves a session nobody has a URL for. Pressing
"Upload and complete" (`PressComplete`) begins a PUT of the file to the URL of
that moment, which may arrive at any time, again, or never (`PutAudio`).
An `upload-complete` handler may start for any upload that was begun, whatever
other handlers are in progress (`LoadRow`, `MatchSession`, `CommitUpload`,
`FailComplete`): the client that retries after a lost answer does not end the
handler of its first call. It may match a session of another tab with the same
key, and writes only the columns it changed (`RowAfter`). `stat_object` blocks the
event loop and commutes with the commits of other handlers, so it is one step
with the query before it. An object is the file last put under a key. `swapped`
and `lost` record which URLs came to a page with another file, and which no page
can use any more.

**`AudioProbe`** and **`Transcript`** are the pure functions: ffprobe's report as
fields that are missing, empty, some text, a number written as text, or the bare
number 0, which the `or` of `parse_ffprobe_output` skips like a missing one; whisper's entries as offsets and a
sequence of letters and blanks. The loops of `parse_whisper_output` and
`build_transcript` and the `join` are folds (`WithEntry`, `PlusWords`, `Spaced`). **`Workspace`** puts them into a directory all
runs of a job on a host share: `Enter`, `Download`, `Validate`, ffmpeg and
whisper.cpp with a beginning and an end each, `Build`, `Leave`. A WAV file
knows who is writing it and whether it is whole; of one that is not, whisper
hears some beginning. `Crash` may leave a torn output. `Worker` abstracts all of
this to `ProcessingError`; the two models meet in the run, which is one
`TranscriptionPipeline._run` in both.

**`Accounts`** and **`Catalog`**: a call that looks and inserts later is kept in
`call[p]`; `raced` records that a call of the same kind committed in between. A
name is a model value with its lower-case form; a slug is the sequence of the
words and numbers between its hyphens, so `slugify` is a selection and a numbered
slug an append, and that one slug may begin like another (`song` and `song-2`)
is kept.

**`ReviewDesk`** is the API as the pages see it: the version row, its jobs
with their events, which of them is the latest by its times (`latest`, what the
queue shows a version with), approve, reject and publish as *wait for the lock,
check, commit*. The projector's outcomes come from outside, in any order the guards of
`project_event` let pass. **`Pages`** adds what each open page shows: the job
page polls while the status it shows is active; the review page keeps a cached
row with the number of changes it was read after (`changes`), a query under way,
and the calls its buttons made. Mutations cancel the query under way and ask
again. **`KaraokePlayer`** is the clock of the preview.

Each definition's lines are in `PROJECT.json` under `map`. Operators commented
as `Mutant:` are plausible wrong versions of the definition below them; putting
one in its place makes the property `PROJECT.json` names fail.

### External parts

The broker and its client, the store, the ORM's update statement, unique
constraints and row locks, the query cache of the web client, ffmpeg,
whisper.cpp and process death are modelled from how the code uses them:
auto-commit at any time of any position reached, positions committed when a
consumer is closed, resumption at the committed offset, one owner per partition,
keyed sends to one partition. A send that fails while a worker is to exit may or
may not leave the broker reachable for the closing commit; both are allowed.

## 3. The runs

| run | configuration | question |
|---|---|---|
| `overlap` | 1 job, 2 workers; rebalance, storage error | two workers run one request at once |
| `stop` | 2 jobs on one partition, 1 worker; SIGTERM, crash, send error | how much a stop or a crash can lose |
| `api_faults` | 2 jobs, 2 versions, one partition; a real, a mock and a failing mock worker; API stop or crash, database error, duplicated send | projector against redelivery, restarts and reviews |
| `fair` | 1 job, 2 workers; crash, SIGTERM, API restart; `FairSpec` | does every request end |
| `publish` | 3 versions, 5 calls; storage error, database error, crash | publications against each other and against failures; refinement of `PublicFace` |
| `upload` | 2 tabs, 3 `upload-url` calls, 2 `upload-complete` handlers at a time, 3 files (one too large), 2 object keys | uploads of one version at once, lost answers and retries, late PUTs |
| `workdir` | 3 runs, 44 uploads | runs of one job in one directory, after and beside each other |
| `catalog` | 2 people, 4 requests to register, 3 titles, 3 rows | look first, insert later |
| `pages` | job page, or review page beside a script, or player; 2 jobs | pages against the rows they show |
| `v_two_active` | 2 jobs of one version, 2 partitions | violation: two active jobs |
| `v_decision` | 1 job, crash | violation: an approval undone |
| `v_unpublished` | 2 versions, 3 calls | violation: a version taken down comes back |

What they show:

* `overlap`: `KeysPointToTranscript` and `AudioKeptUntilTranscribed` hold
  however two runs of one version overlap and whatever store error strikes,
  because every path uploads before it deletes or announces, and a run that
  finds the transcript touches nothing but the audio. `ArtifactsMatchDigest`
  holds when only one run started. `ReplacedOnlyByOverlap`: a transcript is
  replaced only by a run that began before any completion with a transcript was
  published, or behind an error of the store at that run's own existence check,
  and one more error if the completion was that of a full run, which has deleted
  the audio. A late redelivery alone never rewrites what a reviewer may have read.
* `stop`: `EachFaultLosesOneRequest`: the background commit loses requests, but
  never more than one for each crash, stop or failed publish. That stopping
  loses one at all is a consequence of where the flag is looked at.
* `api_faults`: the same for outcomes (`EachFaultLosesOneOutcome`).
  `VersionFollowsJob` holds in spite of the unlocked reads because the reads
  are of rows nobody else changes in the same columns while an event of the
  version's only job is pending. `DecisionStands`: with a single published
  outcome, the duplicate check protects a decision; the exception is the
  finding below. `OutcomeRecorded` and `EventsHaveJobs` tie table, trail and
  topic together. A version completed by a mock worker has no keys and cannot be
  approved (`ApprovedHasTranscript`); it can be rejected. An approved version has
  a transcript, and its row names it, unless completions with and without keys
  were both published for the version: one without, loaded before the approval
  and committed after it, clears the keys.
* `fair`: a queued job finishes unless the request call died before publishing
  or its request or outcome was lost (`JobFinishesOrIsLost`; the losses are those
  bounded above), and only a crash, a store or a send error can leave the audio
  of a completed job behind (`CompletedAudioIsDeleted`).
* `publish`: `PublishedIsComplete` and `ImmutableFilesKept` hold through failed
  and repeated attempts, thanks to the row lock and the absence check. A failed
  attempt that wrote an immutable file makes its version unpublishable for good.
  `ManifestListsStored`: the shared manifest, which is replaced before the
  commit, names complete versions only. `LatestIsNewest`: rows follow the order
  of the commits and `latest.json` that of the writes, and still, without
  failures, `latest.json` is never that of a superseded version.
  `ImplementsPublicFace` is the refinement.
* `upload`: a row's key always leads to an object (`ConfirmedAudioIsStored`).
  With one session the row describes the stored object, however many
  `upload-complete` calls overlap, name apart when the page showed another file
  as the URL arrived (`SoleUploadIsDescribed`); with two it need not. The status
  may go back even with one session: when a second handler, matched before the
  first one committed, commits after the transcription was started.
  `GoesBackOnlyByRace` says that this is the only way, and that the rest of the
  row stays as it was. A version in `upload_url_created` has an open session, but
  may be stuck, since the code has no way back to `draft` and `upload-url` answers
  409. `WaitingCanComplete` names all the ways: each open session's URL is on its
  way to a page or held beside a file of an allowed size, unless it was never
  answered, was thrown away with the choice of another file, or arrived at a page
  that showed no file or one over the limit. In the last case the next choice
  throws it away.
* `workdir`: a run that had the directory to itself builds the transcript of the
  whole recording (`AloneMeansWhole`) or fails for its audio
  (`AloneFailsForItsAudio`), whatever earlier runs left: every file is written
  anew before it is read. Left out of both is a run whose whisper.cpp succeeds
  without writing its output (`mute`): it reads an output that was left behind. A run that overlapped another may transcribe part of
  the recording. `BuiltWithinLimits` and `TranscriptAddsUp` check the pure
  functions on every report and every output of the instance.
  `NothingLeftBehind`: without crashes and kept files the last run takes the
  directory with it.
* `catalog`: only an overtaken call meets a taken name after it was told that it
  is free (`FreeUnlessOvertaken`; version numbers not even then, by the row lock;
  a slug that is too long is refused without a race),
  slugs are numbered without gaps, the owner of an account finds it, and a reader
  who pages through a list sees all of it, for limits the server replaces too and
  although each page is sorted by a query of its own: with equal titles, which no
  order tells apart, a reader may miss one, and the property excludes them.
* `pages`: each completion is decided once and published after its approval
  (`OneDecisionPerCompletion`); the row names the last decision and the queue the
  job that made the version so; an answer requested before a decision does not
  hide it (`OwnChangeIsShown`), because the query under way is cancelled; job
  pages show the end, and the player stops wherever it was sent.

### Bounds

*Transcription flow.* Every kind of fault of a run happens at most once
(`MaxFaults`), each version is decided at most once (`MaxReviews`), partitions
and requests are as in the table, and a run reports the checkpoints `<<>>` or
`<<80>>` and then 90 and 100. This is enough for: a request run twice (by
rebalance, crash or duplicated send), on two workers at the same time; a fault
in every step of either run; an event redelivered after being applied, or lost
after being taken; an out-of-order progress report (80 after 90); and the
combination of two faults of different kinds. More checkpoints repeat the step
`Report`. In `stop` both jobs ask for the separation of
vocals, which a run refuses right after `started`: what is lost depends on
positions, the flag and the publishes, not on which step of a run is in hand,
and short runs keep two jobs and three faults within reach.

*Publication.* A call is made once; three versions and five calls allow a failed,
a repeated, a superseding and an unpublishing call, two of them at a time or
more.

*Upload.* Two tabs; three `upload-url` calls that pass the check, so that two
overlap and a third repeats one whose answer was lost; two `upload-complete`
handlers at a time, repeated without bound; files of two kinds, so that two tabs
have the same key or different ones; one above the limit, which a PUT can store
all the same.

*Job directory.* Three runs: two overlap and a third comes after or between.
Uploads are a good report with every output of up to two entries (blanks around
and between words, a blank text, a missing offset), and reports that differ from
a good one in one field or two, each field with values below, at and above its
limit, missing, empty, zero or some text; with the container's duration missing,
empty or zero, the streams' durations vary as well.

*Catalog.* Two people; registrations with a capital in the address, an address
as user name, two names equal but for a capital; titles whose slugs are equal,
begin alike, or are empty; `MaxRows` artists, tracks and versions together;
slugs of at most `MaxSlug` parts.

*Pages.* `LastJob` jobs of the version, `MaxEvents` events and `MaxChanges`
decisions or publications, so that a decision, a new completion and a further
decision fit; times up to `Largest` and `MaxSeeks` seeks; segments that touch,
end or start after the duration (a click on such a one puts the clock beyond
the end), or are missing.

Symmetry is used of workers (`overlap`), versions and calls (`publish`), tabs,
calls and handlers (`upload`), runs (`workdir`) and people (`catalog`); those runs check no
temporal property beyond actions. Deadlock is not checked: all requests answered
and all events consumed is a legitimate end, so is a dead projector with idle
workers, and the bounded explorations end when their bounds are reached.

### Fairness

`FairSpec` asks for weak fairness of what a running deployment does by itself:
a request that passed its check commits and publishes (a coroutine of the event
loop); the projector takes and applies (same); a live worker takes the next
request or, when told to stop, notices and exits; it carries on the run it has
(`RunStep`; the container is restarted by its policy, so `Exit` leaves an idle
worker behind); and the coordinator assigns unowned partitions. Faults, signals,
auto-commits, requests and reviews are not fair. No strong fairness is needed.
Database errors are not part of the fair run: nothing restarts the projector
task, so no progress could be promised; send and store errors are left out
because they only add ways to `failed` or to a lost request, which the safety
runs bound.

`Pages` asks for weak fairness of an open job page's poll, which a timer sends
every 1.5 seconds as long as the status it shows is active, and of the interval
of a player that plays. Nothing people do, no outcome and no other query is fair.

### Findings

* `v_two_active`: two start requests that both pass the unlocked check each get
  a job (`A/services/jobs.py:72`), against `docs/phases/Phase_3.md:801,1361`.
  The database has no constraint that would stop the second. Both runs are
  harmless to the artifacts (the theorems hold for any number of jobs of a
  version), but the version follows whichever event comes last.
* `v_decision`: a redelivered request finds the transcript, and
  `completed_from_existing` mints a new event id, so the projector's duplicate
  check lets it through and an approved or rejected version is `completed`
  again (`A/events/projector.py:137`), against `docs/phases/Phase_5.md:285`.
* `v_unpublished`: publishing v2 reads v1 as published, v1 is unpublished, and
  the commit for v2 sets v1 to superseded (`A/services/publications/service.py:102`),
  which the public version endpoint serves, against
  `docs/phases/Phase_6.md:972`. v1 is then approved and public at once; the
  opposite, a version in status published that is not public, is impossible.

Other divergences met while modelling follow from one call or one step of the
models, or are stated by a property that holds, and have no run of their own:

* Two `upload-complete` calls of one upload both find the status
  `upload_url_created` (`A/services/versions.py:150`); the first commits, the
  transcription is started, and the second sets `queued_for_processing` back to
  `uploaded`, against `docs/phases/Phase_2.md:334` ("Invalid transitions should be
  rejected."). `GoesBackOnlyByRace` states it: this is the one way the status
  goes back, and nothing else in the row changes. As long as the job is active a
  further start is answered 409 and its next event sets the status right. What
  follows `queued_for_processing` is not part of this model; a handler slow
  enough would put those statuses back in the same way.
* A re-emitted completion publishes no digest and the projector writes the NULL
  over the one there was (`W/jobs/pipeline_events.py:113`), against
  `docs/transcript-schema.md:71`.
* `latest.json` is replaced before the commit
  (`A/services/publications/service.py:134`); when the commit fails it is the
  document of a version that is not published, against
  `docs/phases/Phase_6.md:555`.
* A publish without `make_latest` rewrites `manifest.json` with itself as the
  only version and no latest (`service.py:132`, against `Phase_6.md:394`), and
  leaves two publications with status published (against `Phase_6.md:297`).
* `JobTempDir` does not clean a directory it finds (`W/jobs/tempdir.py:20`,
  against `docs/phases/Phase_4.md:953`); the run `workdir` shows that a run alone
  in it is not affected.
* Login lowers what was typed, also for user names, which are stored as typed
  (`A/services/auth.py:60`): a name with capitals cannot be used to log in. The
  address is compared as typed at registration and stored in lower case, so a
  second registration may end in an unhandled error (500).
* A title may be longer than the slug column made from it; the insert is then
  answered 500 (`InsertRefused`).
* The job page whose first load fails is not polled again until it gets the
  focus, and its timeline may stop before the last event, since the events stop
  being polled when the job is seen finished.

## 4. The proofs

Every safety property and action property of the passing runs is proved, for
every choice of the constants that satisfies their assumptions: any number of
jobs, versions, partitions, workers, calls, handlers, tabs, people, titles, entries and
faults, not only those of the runs.

`Transcription_proofs`:

| theorem | property |
|---|---|
| `Invariance` | `[]IInv` |
| `TypeCorrect` | `TypeOK` |
| `KeysAlwaysResolve` | `KeysPointToTranscript` |
| `AudioNeverLost` | `AudioKeptUntilTranscribed` |
| `NoOrphanEvents` | `EventsHaveJobs` |
| `ProgressMonotonic` | `ProgressNeverDecreases` (no run checks it) |
| `FinishedForGood` | `FinishedStaysFinished` |
| `OutcomesAudited` | `OutcomeRecorded` |

`Delivery_proofs`, about the same specification:

| theorem | property |
|---|---|
| `DeliveryInvariance` | `[]DeliveryInv` |
| `ArtifactsAgree` | `ArtifactsMatchDigest` |
| `VersionsFollow` | `VersionFollowsJob` |
| `ApprovalsHaveTranscript` | `ApprovedHasTranscript` |
| `OverwritesOverlap` | `ReplacedOnlyByOverlap` |
| `DecisionsStand` | `DecisionStands` |
| `RequestsLost` | `EachFaultLosesOneRequest` |
| `OutcomesLost` | `EachFaultLosesOneOutcome` |

`Publication_proofs`:

| theorem | property |
|---|---|
| `PublicationInvariance` | `[]IInv` |
| `PublicationsAreComplete` | `PublishedIsComplete` |
| `PublishedIsReachable` | `PublishedVersionsArePublic` |
| `FilesAreImmutable` | `ImmutableFilesKept` |
| `ManifestIsHonest` | `ManifestListsStored` |
| `LatestIsRight` | `LatestIsNewest` |
| `PublicationImplementsPublicFace` | `ImplementsPublicFace` |

`Upload_proofs`:

| theorem | property |
|---|---|
| `UploadInvariance` | `[]IInv` |
| `UploadTypeCorrect` | `TypeOK` of `Upload` |
| `ConfirmedAudioIsKept` | `ConfirmedAudioIsStored` |
| `SoleUploadIsRight` | `SoleUploadIsDescribed` |
| `WaitingUploadIsPossible` | `WaitingCanComplete` |
| `StatusGoesBackOnlyByRace` | `GoesBackOnlyByRace` |

`Workspace_proofs`:

| theorem | property |
|---|---|
| `WorkspaceInvariance` | `[]IInv` |
| `WorkspaceTypeCorrect` | `TypeOK` of `Workspace` |
| `AloneBuildsWhole` | `AloneMeansWhole` |
| `AloneFailsForAudio` | `AloneFailsForItsAudio` |
| `DirectoryIsRemoved` | `NothingLeftBehind` |
| `BuiltIsWithinLimits` | `BuiltWithinLimits` |
| `NumbersAgree` | `TranscriptAddsUp` |

`Catalog_proofs`:

| theorem | property |
|---|---|
| `CatalogInvariance` | `[]IInv` |
| `TypeCorrectness` | `TypeOK` of `Catalog` and `Accounts` |
| `AccountsAreFound` | `OwnerIsFound` |
| `FreeNamesStayFree` | `FreeUnlessOvertaken` |
| `SlugsAreGapless` | `SlugsWithoutGaps` |
| `ReadersSeeAll` | `ReaderSeesAll` |

`Pages_proofs`:

| theorem | property |
|---|---|
| `PagesInvariance` | `[]IInv` |
| `PagesTypeCorrectness` | `TypeOK` of `Pages` and `ReviewDesk` |
| `QueueIsRight` | `QueueNamesItsJob` |
| `RowIsRight` | `RowNamesLastDecision` |
| `DecisionsExclude` | `OneDecisionPerCompletion` |
| `ChangesAreShown` | `OwnChangeIsShown` |

**Assumptions.** They are the named `ASSUME`s of the modules: functions have their
domains, checkpoints are percentages, mock workers are workers, recordings have
their fields, titles have a place in the order, `Lower` is idempotent, and
`NoRun`, `NoWorker`, `None`, `Missing` and `Sent` are none of the things they
stand beside. TLC evaluates them in every run.

**The flow: what is there is named, what is named is there.**
`KeysPointToTranscript` is not inductive: nothing in it keeps `Apply` from
projecting a `completed` event with keys while the object is missing. The chain of
reasons is: a run past its upload, or past a positive existence check, has a
transcript (`TasksSound`); hence every event with keys is stored after its
transcript (`LogSound`); hence the event the projector holds is sound
(`LoadedJobIsCurrent`); hence the keys it writes resolve. The same `TasksSound`
gives `AudioKeptUntilTranscribed`, since audio is deleted only in the steps it
speaks of. Transcripts are overwritten, never deleted, so all of this survives
other runs' steps. `LoadedJobIsCurrent` also says that the job row the projector
loaded is still the row in the table: start requests only insert absent rows
(`RequestsMatchJobs`) and nobody else writes them. So `WriteChanged` writes what
`ProjectedJob` computed, and `JobSteps`, that a job row changes only by insertion
or by `ProjectedJob`, gives the two action properties and `OutcomesAudited`.

**The flow: what a history allows.** The properties of `Delivery_proofs` compare
a state with the whole log, which nobody shortens. `IdsAreFresh` makes an event's
id its place in the log, so a run is known by the place of its `started` event and
"began before the completion" is a comparison of places. `RunsSound` says what a
run has behind it: on its way to the upload, that no completion with keys lies
before its own start, except behind the storage errors it takes (`ErrorsNeeded`);
completing, that its manifest is stored and its audio deleted.
`EventsSound` and `ArtifactsSound` carry that to digests and objects: they are
those of runs that began, which gives `ArtifactsAgree`, and what a run may
overwrite, which gives `OverwritesOverlap`. `LoadedIsNew` is what can be said of a
row read before an await: the event is not recorded yet, and the version row
differs from the one in the table by a decision on the completion it shows, at
most, unless the version has another job. With it `VersionFollowsJob` and
`ApprovedHasTranscript` become inductive, and a recorded outcome is one that has
been applied (`RecordedSound`), so that the only published outcome cannot be
applied to a decided version (`DecisionsStand`).

**The losses.** The bounds count sets over a whole history. A request is lost when
the group passes it without a run that is about it, and one step passes at most
one (`NewlyLost`, `NewlyLostOutcome`); what has to be shown is that such a step is
a counted fault, or ends a worker that was told to stop by one. So the invariant
counts the workers still to stop with the requests lost already
(`RequestsAtFault`): `stop` puts a worker on that side of the account, its exit
moves it to the other.

**Publication.** A call checks that a version has neither row nor files and writes
much later. `OneCallPerVersion` is the row lock: no two calls in progress have the
same version. With it `CallsMatchFiles` is inductive: until a call writes, its
version still has no file and no row; after it has written everything, all four
files are its own. So no write overwrites anything, and the row it commits names a
complete set. `PreviousHaveRows`, that rows are never deleted, makes superseding
well defined. `LatestIsNewest` speaks of the end of all calls only; the invariant
behind it, `LatestHasRow`, says for the time before that the document is of a call
that has written and will commit, or has a row, and that no call that has written
will supersede it: each of them has written its own document *after* it read what
it supersedes. The refinement needs no further invariant: a commit is
`Publish` of its version, because the files were complete before the row; an
unpublishing commit is `Withdraw`; everything else is a stutter.

**Upload.** No handler locks, so what a call read may be old when it commits;
`SeenStays` says which of it can be relied on all the same: a key once in the row
is not taken back, and a matched session and a seen object stay. The `UPDATE` that
leaves an unchanged key column alone then leaves a key that resolves.
`OneFileIsSent` is about the page: it shows the file it sent to a URL as long as it
holds the URL, because another choice forgets it, and by `OnePage` nobody else holds
it; so PUTs of one URL all carry the same file, however late or often they arrive.
`StatusTellsSessions` says what the status says of sessions, objects and handlers:
in a draft there are none, so an answer never overwrites a URL, and `UrlsAreKept`
follows, which is `WaitingCanComplete`. `SoleSessions` is what holds while one call
only ever made a session: every handler loaded the row as that call had left it,
without a key, and matched that session with the size of its one object. So the first
commit meets a row that waits, and each further one writes what is there already,
the status apart; that is `StatusGoesBackOnlyByRace`.

**Job directory.** `InsideTogetherMet` says that two runs inside at once have both
met somebody. So while a run that has met nobody makes a step, no other run does,
and each of its files is as its last step left it (`FilesOfRun`): it wrote the WAV
file alone, so the file is whole when ffmpeg ends; it read the whole of it, so the
output is that of the recording. `WritersNormalize`, that only runs in ffmpeg are
writers, makes the files of dead runs harmless. `SomebodyInside` gives
`NothingLeftBehind`. `BuiltIsWithinLimits` needs no more of the directory than that
the recording does not change.

**Catalog and accounts.** `CallsAreFresh` says what a call that has looked and not
yet inserted may still believe: its slug or name is free or `raced` says why not,
and, raced or not, the smaller numbers its slug skipped stay taken, because rows are
never deleted and slugs never change. That one is what `SlugsWithoutGaps` needs at
the insert. For version numbers there is no `raced`: `OneHolder`, the row lock, and
`VersionsAreCounted` keep the number right. That a free number exists among those
tried is a pigeon-hole argument (`SomeNumberIsFree`). `ReaderSeesAll` is pure: without
equal titles there is only one sorted order (`SortedIsOne`), so pages of different
queries are pages of one list, and a multiple of the limit lies before every place.

**Pages.** `LocksHold` is the row lock once more: what a call checked stays true
until it commits, also against the projector, whose events wait for the row.
`DecisionsFollowCompletions` says that the completion a version waits with is not
decided, `ApprovalIsLast` that nothing came after the approval of an approved
version, so a publication is next to it. `Current` is what the review page waits
for or shows: after its own change, something at least that new, because the query
under way at that time is given up.

**Induction and folds.** The library's induction theorems take an operator, which the
provers cannot instantiate. `NumberLemmas` therefore proves that a set of natural
numbers that has 0 and with every number the next one has them all, from the least
element of its complement (`LeastNatural`, `SetInduction`), and the folds of the
community modules are unfolded by hand: a function that computes the fold exists
for every length (`FoldExists`), so the one the fold's definition chooses satisfies
its equation, so it goes from prefix to prefix (`WordsFold`, `JoinFold`,
`ParseFold`). With this `NumbersAgree` is about sequences of any length: blanks at
the ends are no words (`StripKeepsWords`), a blank between two texts keeps their
words apart (`WordsApart`), and so the words of the joined text are those counted
part by part (`JoinAddsUp`).

**Layout.** In the flow, one lemma per component shows that its steps keep `IInv`
(`StartStepInv`, `ProjectorStepInv`, `WorkerStepInv`, `ReviewStepInv`,
`ApiStepInv`); the worker's is split by the kind of step (group, signal,
publishing, silent, object). `SendExtendsLog` and `SendKeepsLogSound` state once
what a send does to the log; `PublishStep`, `GotoStep`, `QuietWorkerStep` and
`ObjectStep` what the steps of a run have in common. `Delivery_proofs` first says
once, of all actions, what they do to one kind of state (`RunSends`, `RunGoesOn`,
`RunLooks`, `RunStores` for runs, `StepsGoOn` for the log and the faults,
`TableSteps`, `ApplyWrites` and `CommitWrites` for rows, `ObjectSteps`,
`ProjectorSteps`), then shows each conjunct of `DeliveryInv` from these, without
looking at the actions again. In the job directory, `MovingRun` is what every step
of a run inside has to show, and there is one lemma per step; catalog and pages
have one per action as well.

**Only model-checked.** Liveness, which depends on fairness and ENABLED:
`JobFinishesOrIsLost`, `CompletedAudioIsDeleted`, `JobPageShowsEnd` and
`PlayingStops`. It is checked on the instances of section 3 alone.

## 5. What is not modelled

* The other pages of the web client: each shows the answer to one query or sends
  one form; what those calls do is in `Catalog`, `Accounts` and `ReviewDesk`.
* The HTTP layer and settings: request parsing, error mapping, configuration,
  health endpoints, logging. Migrations and deployment files were read for
  constraints, partition counts and restart policies.
* The old prototype under `archive/`: nothing builds or calls it.
* Scripts that put different files through one URL: pages forget the URL with the
  choice of another file, and `SoleUploadIsDescribed` rests on it.
* Pages in the background, which browsers throttle, and tokens that expire while a
  page polls.
* Password hashing, tokens and their expiry, the expiry of upload URLs, search
  filters, listing publications, reading the transcript document: calls into
  libraries, or reads that nothing polls.
* Malformed messages: both consumers skip them and nothing in the system
  produces them.
* A database error whose transaction took effect: `DatabaseError` always rolls
  back. A commit that succeeded unnoticed leaves the state after `Apply` with a
  dead projector.
* A failing database in request handlers other than publication: the call ends
  before its commit, as if it had not been made.
* Words with times: `W/transcription/whisper_cpp.py` makes none.
* A log that is shortened: the topic's retention. The proofs use that events stay
  where they are.

## 6. What could follow

1. `VersionLifecycle`: the status diagram of a version across upload,
   transcription, review and publication as an abstract specification, refined by
   the composition of those modules.
2. The job as the client sees it (queued, active, finished, with monotonic
   progress) as an abstract specification that the flow refines, in the way
   `Publication` refines `PublicFace`; `JobSteps` of `Transcription_proofs` is the
   core of its step simulation.
3. Runs with two jobs of one version under faults, which the theorems cover and the
   runs leave out for their size.
