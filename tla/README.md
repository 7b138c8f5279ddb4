# Verification of spring-app-api

TLA+ modules, TLC runs and TLAPS proofs for the Spring API server and its
background worker. A user of Spring uploads the archive a social network hands
out; the system stores it, parses it into PostgreSQL, computes statistics into
DynamoDB, and can export or delete all of it again.

## 1. The system

Three programs share four stores.

| program | code | what it runs |
|---|---|---|
| API server | `src/api`, `src/main.go` | HTTP handlers, one goroutine per request |
| worker | `src/background` | `worker.concurrency` goroutines taking tasks from the broker |
| lambda | `src/aws/lambda/ack-archive-uploaded` | calls the API server for every object put in the bucket |

| store | content | written by |
|---|---|---|
| PostgreSQL `fbm` (`src/store/postgres`) | accounts, archive rows (`fbarchive`) | handlers and jobs |
| PostgreSQL via gorm (`src/schema`) | posts, reactions, ..., export rows (`fbm.archive`) | parse job, export handler and job |
| DynamoDB (`src/store/dynamodb`) | statistics, reaction and post items by account | analysis jobs |
| S3 | uploaded archives, exports | client, download job, export job |
| Redis (machinery v1.7.3) | the task list, task states | handlers, jobs, machinery |

There is no lock and no transaction around a row between two calls, no check of
the status a write replaces, and no retry of a task. Every hard behaviour
follows from that: handlers and jobs of one account or one archive interleave
between any two calls; events are delivered twice; a job that fails ends its
chain; a process that dies takes its tasks with it, because the broker's `BLPOP`
removes a task before it is executed.

### Components

| component | state | operations | what makes it correct | status |
|---|---|---|---|---|
| archive handlers (`api/archives.go`) | archive row, bucket, task list | upload, upload by URL, ack, submit, force parse, generate hash | a submitted archive has work on its way; no job looks for a missing object | modelled |
| archive jobs (`background/download.go`, `parse.go`, `post.go`, `reaction.go`, `archive.go`, `notification.go`) | the same, plus rows and statistics | download, parse, analyze posts, analyze reactions, hash, notify | one successor per job, the status only moves forward, the statistics count what is in the database | modelled; the counting itself under period statistics |
| worker process (`background/main.go`) | registered tasks, workers | start a task, `jobErrorHandler`, `jobProcessedHandler`, die | a failed job marks its archive, a finished export its row | modelled |
| archive rows (`store/postgres/archive.go`) | status, key, hash, error | add, update, invalidate | as above | modelled |
| data export (`api/account.go`, `background/export.go`) | export row, task state, file | request, build, upload, name, report; copy archives and read fifteen collections | one export at a time, SUCCESS has a file, nobody is blocked for good; the file has all that was there | modelled |
| Facebook parser (`background/parser`) | posts, reactions, friends, tags, media, places | validate, insert an archive's rows, upload its media | no row is skipped wrongly, every row of a medium names an object | modelled; the conversion of fields (`schema/facebook`) not |
| account and metadata (`api/account.go`, `store/postgres/account.go`) | account, metadata document | register, update metadata | no update is lost | modelled |
| account deletion (`background/account.go`) | everything of an account | flag, ten removals | a flagged account gets deleted, nothing of it is left | modelled |
| activity range (`background/timerange.go`) | four timestamps of the metadata | recompute | covers exactly the rows present | modelled |
| period statistics (`post.go`, `reaction.go`, `timeutil`) | counters of weeks, years, decades | count, compare with the last period | each row is counted in one period of each kind, and the growth is over the right period | modelled |
| stat saver, DynamoDB table (`util.go`, `cachedata.go`) | batch of items, table | save, flush, put, query, remove | every item reaches the table, no request is refused for its form; a list is complete; removal leaves none | modelled |
| sentiment statistics (`sentiment.go`) | statistics of sentiment | ask, count, save | as period statistics | modelled, though nothing sends the job in this version |
| income insight (`api/insight.go`) | none | walk over periods | each day is charged to one quarter, no index is out of its table | modelled |
| read-only queries (`api/post.go`, `reaction.go`, `event.go`) | none | list, count | a list has all that was there meanwhile, a count of one is not above the count of all | lists and counts modelled |
| authentication, clients of other services, generated messages, logging | none shared | | | not modelled |

`PROJECT.json` lists the same components with their files, and the hazards: the
lines at which something can go wrong that a test would hardly reach.

### How they interact

    client --> uploadArchive ........> S3 ..event..> adminAckArchiveUploaded
    client --> uploadArchiveByURL --> download_archive        |        |
                                          |                   |  generate_hash_content
                                          +--> parse_archive <+
                                                    |
                             analyze_posts --> analyze_reactions
                                                    |
                       extract_time_metadata, notification_finish_parsing

    client --> accountPrepareExport --> prepare_data_export --> jobProcessedHandler
    client --> accountDelete, adminAccountDelete --> delete_user_data
    client --> getAllPosts, getPostStats ... (read while all of the above writes)

Each arrow is a `SendTask` after the row was updated, never in one transaction
with it. A handler of `adminSubmitArchives` sends `upload_archive`, which no
worker registers: the broker pushes it back for ever.

## 2. Modules

| module | what it is |
|---|---|
| `ArchivePipeline` | archive handlers, jobs, worker process, task list, archive rows |
| `ArchiveLifecycle` | abstract specification: what a client sees of an archive |
| `MCArchivePipeline` | small instances of `ArchivePipeline` |
| `ArchivePipelineProofs` | types, queue and workers; no archive hangs; every row gets counted; no job looks for an object that is not there; one responsible per archive until its work is started again, with its error, lifecycle and push: all safety properties of `ArchivePipeline` |
| `AnalysisJobs` | counters of both analysis jobs, their batches, the statistics in DynamoDB |
| `Calendar` | days, weeks, months, years and decades of `timeutil`, growth |
| `MCAnalysisJobs` | rows around the ends of periods |
| `AnalysisJobsProofs` | batches, counters and table: all properties of `AnalysisJobs` |
| `CalendarProofs` | periods are intervals that follow one another; a finite set of timestamps has a first and a last one |
| `DataExport` | export handler, job, result backend, export rows |
| `ExportLifecycle` | abstract specification: what an account sees of its exports |
| `MCDataExport` | small instances of `DataExport` |
| `ExportContent` | what `prepare_data_export` puts into the file, beside a parse and an analysis |
| `AccountData` | registration, metadata document, activity range, deletion, and the jobs that write for the account |
| `MCAccountData` | a small instance of `AccountData` |
| `AccountDataProofs` | types, deletion, metadata, posts that are kept: all properties of `AccountData` |
| `ArchiveImport` | the parser's inserts of friends, posts, tags, media and places; the upload |
| `ImportExportProofs` | what an archive leaves in database and bucket, and what an exported file has of it: all properties of `ArchiveImport` and `ExportContent`; the latter implements the job of `DataExport` |
| `ReadHandlers` | lists page by page and counts, beside the jobs that write |
| `SentimentJob` | the whole of `extract_sentiment` |
| `FacebookIncome` | the income of a period: table, bounds and loop |
| `StatisticsProofs` | all properties of `SentimentJob` (weeks, counters, items that are written), `ReadHandlers` and `FacebookIncome` (the loop stays inside its table and charges every day once) |
| `MCParts` | small instances of `ExportContent`, `ArchiveImport`, `ReadHandlers`, `SentimentJob` and `FacebookIncome`, one of them per behaviour |
| `PartsProofs` | a behaviour of `MCParts` is one of each of these modules |
| `DataExportProofs` | types, exclusion, downloadability, progress and lifecycle of exports: all safety properties of `DataExport` |

### ArchivePipeline

State and code:

| variable | code |
|---|---|
| `status`, `fileKey`, `contentHash`, `procError` | the columns of `fbm.fbarchive`; key, hash and error only as set or not, since no code compares two of them |
| `s3`, `links` | objects `archive.zip` in the bucket, presigned links handed out |
| `creating`, `acking` | handlers that are between two of their calls |
| `acksLeft`, `adminLeft` | bounds on the environment (see 3) |
| `restarted` | of the model: archives whose work was started again after they had been submitted |
| `queue`, `job`, `pc`, `snap` | the Redis list; what each worker executes, its next call, and the rows it has read and not yet written |
| `rows`, `stat` | posts and reactions of an account in PostgreSQL, and those its statistics count |
| `notified` | accounts that got the push message |

A handler or job is cut at each call of the database, the bucket or the queue,
because others run between two calls; everything between two calls is one
action. A failure is a disjunct of the action it happens in, allowed when its
name is in the constant `Faults`: `JobFails` covers every call whose error the
job returns as `jobError`, `JobErrorHandler` what `background/main.go` does about
it. `download_archive` has three steps, `parse_archive` four, and so on;
`StepsOf` lists them. An archive of a type other than Facebook skips the parser and
goes through the rest of the chain.

The lambda looks at no key, and `UploadArchive` gives the object of a fetched archive
the same key `archive.zip`: `AckUpdate` may follow the worker's own upload as well as a
client's, while the chain that stored the object goes on. Then, and after a second
event or a forced analysis, several chains of one archive run against each other;
`restarted` remembers these archives, and `ArchiveLifecycle` has them in `again`: their status
may move between the statuses of a submitted archive. An event whose request
fails is one that was not delivered. A failing `UpdateFBArchiveStatus` of
`uploadArchiveByURL` (fault `update`) leaves the row in `created` with no task.

Abstractions: statistics are the set of rows they count, so an overwrite by an
older count is visible and the arithmetic is not. A parse inserts any part of the
archive's content that is not in the database yet (`ON CONFLICT DO NOTHING`): posts
inside the activity range are skipped and a failed insert is only reported, so
the model leaves open which. A panic of a task is recovered by machinery into an error that is not a
`jobError` and is covered by the fault `errorhandler`. The broker is external:
first in, first out, at most once, unregistered tasks are put back.

### DataExport

`CreateRow` is the insert that the partial unique index
`archive_account_unique_if_not_done` may refuse; `SendTask` stores the task state
and pushes the task; `Start`, `Build`, `Upload`, `Name`, `Report`, `JobProcessed`
are a worker's calls, in machinery or in `prepareUserExportData`, and
`jobProcessedHandler`. `err != fs.Mkdir(...)` in `export.go` returns the outer
nil error, so a failed Mkdir is a task that succeeded; a state that cannot be
read makes `jobProcessedHandler` dereference nil, which ends the process.

`ExportLifecycle` is the account's side: the status that `accountExportStatus` shows and
the file that `accountDownloadExport` leads to, which are the row's status and the objects
whose key is in a row. Where the code breaks the promise an account would expect, the
abstract specification says so by a constant: `Hollow`, a success without a file, if
Mkdir can fail; `Lossy`, a row that stays at STARTED, if a worker cannot set or read a state.

### AnalysisJobs and Calendar

`ArchivePipeline` knows which rows the statistics count; `AnalysisJobs` takes one
account, whose jobs it runs one after the other, and asks whether the count is
right.

| variable | code |
|---|---|
| `postRows`, `reactionRows`, `todo` | the rows of the account, and those the query of the running job still has to give |
| `phase` | where the jobs are: rows of posts, their statistics, rows of reactions, their statistics |
| `lastAt` | `lastPostTimestamp`, `lastTimestamp` |
| `posts` | `postStatisticCounter`: current and last period, last total, current rows and finished items of each kind of period |
| `reactions` | `reactionStatCounter`: the same for reactions, with sub-periods as a sequence, as the code keeps them |
| `pending`, `batch` | items between the counter and `statSaver`, and its queue |
| `table` | the account's items in DynamoDB |
| `ignored`, `unprocessed` | items whose failed write the job did not notice; items that `BatchWriteItem` left out and nobody asked about |

`CountPost` and `CountReaction` are one turn of each loop, `Save` is `statSaver.save`,
`EndPosts`, `PutPostStat`, `EndReactions` and `FlushReactions` what follows the loops.
The two jobs count in different ways, and the module follows each: the one for
posts keeps all finished periods until the end and compares with the period
directly before; the one for reactions gives a period away when a row of
another one comes and compares with the last that had reactions.

`Calendar` is modelled by what Go's `time` computes in UTC: the start of the
day, of the week from Sunday, of the month, year and decade.

Abstractions: a row is its timestamp, which the database keeps unique for an
account and a table, and a count is the set of rows counted, so that a row
counted twice, in the wrong period or not at all shows. Posts of a type the code
does not know are skipped by it and are no rows of the model; the types of posts,
and the friends and places they are also counted under, are not distinguished.
`extractReaction` drops the error of its query and goes on without reactions
(`MissReactions`, fault `query`); the phase `unread` then ends the analysis. The jobs of one account do not overlap here; what overlapping does is the
subject of `stale_statistics`.

The properties name their exceptions, each of which is something the code does:
a post in a period that starts at 0 (1970, the 70s) is lost to the counter's "no
current period"; a reaction at 0 is passed over if it is the first, since `lastTimestamp`
begins at 0; an item is missing if its write failed in a place that drops the error, or
was left out by `BatchWriteItem`; the statistics of reactions are those of an earlier
analysis if the query failed. An analysis that finds no post still flushes its counters
(`post.go:132-160`) and writes a statistic with quantity 0 of each kind at time 0 (`EmptyStat`),
and no later one replaces it: `PostStatsExact` demands it after an analysis without posts
and allows it after one with posts. The rows of an account are finitely many, as those of
a table are: the first and the last of them exist.

### AccountData

One account number, from its registration to its deletion and the next
registration. `ArchivePipeline` has the chain and the archive's row; here a job
is what it does with the account.

| variable | code |
|---|---|
| `account` | the row of `fbm.account`: whether it is there, `deleting`, the metadata document `doc` |
| `posts`, `reactions`, `archives` | the rows that refer to the account with `ON DELETE CASCADE` |
| `table`, `objects` | its items in DynamoDB, its objects in the bucket |
| `registering`, `editing`, `flagging` | handlers between their two calls |
| `queue`, `job`, `pc`, `local` | as in `ArchivePipeline`; `local` has the range, the document and the rows a job has read |

`UpdateAccountMetadata` is a SELECT and an UPDATE of the whole document, and so
two actions in each of its users: `EditRead` and `EditWrite` of the client, `ReadDoc` and
`WriteLocation` of `extractPost`, `ReadTimeDoc` and `WriteRange` of `extractTimeMetadata`.
`InsertPosts` and `InsertComplex` leave out what `Fresh` says lies in the activity
range, as `RawPosts.ORM` does. `RemoveStat`, `RemoveObjects` and `RemoveAccount` are
`deleteUserData`; the statistics of sentiment are not among the keys it removes, which
matters as little as the job that nothing sends.

`gen`, `saved`, `parsed` and `happened` are of the model, not of the code.
`gen` counts registrations, and a task or handler remembers the one it began in.
`happened` collects what the properties make exceptions for: the five faults, and

| exception | what has happened |
|---|---|
| `mixed` | a job or handler of a deleted account wrote to its successor |
| `overlap` | two updates of the metadata document ran at once |
| `late` | something was stored during or after a removal |
| `empty` | an analysis without posts stored its empty statistics (`EmptyStats`) during or after a removal |
| `page` | a key had more items than the page `RemoveFBStat` deletes |
| `dark` | the activity range began at 0, for want of reactions |

After `empty` alone the table may have these three items and nothing else. Each exception
is reachable, each breaks a promise, and each property says which
of them it excepts: between them the exceptions are the list of what the code
does not guarantee.

`Whole` is a condition on the archives, not a promise of the code: an archive is the
history of the account up to some day, so that what any archive has between an activity
of one and an activity of another, one of the two has. `RawPosts.ORM`
(`schema/facebook/post.go:105`) relies on it when it leaves out a post inside the
activity range. Of archives that are pieces of a history the parser would drop
posts; `MCAccountData` assumes `Whole`, and `PostsKept` is proved under it.

### ArchiveImport, ExportContent, ReadHandlers, SentimentJob, FacebookIncome

`ArchiveImport` has two parsers of one account, a statement at a time: friends,
then complex posts and comments with their tags, media and places, then
`UploadDir`. A file is validated when it comes up (`Validate`), a medium is looked for
and then saved (`LookMedia`, `SaveMedia`), a friend looked for and then made. The index of
friends is owner and timestamp, not the name: a row is a name and the timestamp it
is listed under, or, if a parser made it under the time of day in nanoseconds, that
parser. Of friends with one timestamp only one gets a row (`NewFriends`), and a name listed
under two has two. Each parser finds some activity range in the account (`Ranges`: which one is
`AccountData`'s subject), and `Omit` leaves out the posts in it; a medium's key is post, time and index, and its
row keeps the uri of one file. Reported errors are the fault `call`. The parser takes
the uri from the entry and does not ask whether the archive has such a file; that
it has is `FilesThere`.

`ExportContent` has the job from the query of the processed archives to the
upload. Each collection it reads is one action, since parser (`ParseOrder`) and
analysis (`AnalysisOrder`) go on between them; `data` is the collections and
`written` the files. An entry stands for a post with all that belongs to it.
The collections are empty at first: items that an earlier deletion
left in DynamoDB without their rows are not modelled, so `ItemsHaveRows` is about an account
that was not deleted before. `DataExport` has the row, the task and the file around this, and of the job three steps:
`ImplementsJob` says that the query, the directories, the copies, the files and the zip are
its `Build`, and the upload and the end its `Upload` and `Name`, with the same failures.

`ReadHandlers`: `startKey` is `ExclusiveStartKey`; a page has at most `pageLimit` items
and at most what a megabyte holds, and may be cut anywhere below (`PageSizes`); there may be
a key behind a page that has items, even if none follow. `throughout` and
`everThere` record which items were there during a request, to say what its
answer may be. Lists of media and events are one statement over rows of which several
may have one time, as the media of a post have (`api/post.go:167`): their order is then open,
and the limit may cut between them (`FirstRows`). The counts are two statements.

`SentimentJob` is a week per turn (`AskWeek`, `Flush`, `Save`) with the counter's current and last
statistic of each kind of period and the saver's queue. `AddFBStats` may leave items
unprocessed, which its answer names and the code does not read; `unprocessed` has those of
the run. A score is a natural number
and `averageSentiment` rounds to the nearest one; in the code it is a float.

`FacebookIncome`: the loop of `getTotalFBIncomeForDataPeriod` with its index; the
income is the days counted in each quarter, which the amounts only weigh.

In `MCParts` the variable `running` chooses which of these takes the steps. They
share no state in their models, so a behaviour of one is a behaviour of its own
module, and a property of one is checked in exactly its own states.

## 3. Runs

`MCArchivePipeline`: one account, two archives (`a1` uploaded, `a2` fetched from a
link), two workers unless said otherwise. Two archives of one account and two
workers are the least at which statistics overwrite each other and jobs of one
archive meet jobs of another; all properties relate at most two archives, and
archives of different accounts share nothing but the queue.

| run | properties | what it shows |
|---|---|---|
| `lifecycle` | `TypeOK`, `OneChain`, `ErrorIffInvalid`, `FailedDownloadIsInvalid`, `ImplementsLifecycle` | with one event per object, the worker's uploads included, and failing links, updates and jobs: an archive has one handler or chain task at most, and carries an error exactly when it is invalid, until its work is started again; a download that fails with an error leaves it invalid; the pipeline implements `ArchiveLifecycle`, fairness included |
| `redelivery` | `WorkInFlight`, `ObjectBeforeWork`, `HashPending`, `ArchivesFinish` | one fetched archive whose object is announced twice, failing jobs, and one administrator request of any kind at any point, a task nobody registered among them: the archive does not hang, no job looks for a missing object, it does not stay without a hash, and once submitted it gets finished |
| `one_worker` | `StatsConverge` | with one worker the statistics count every row when the work is done |
| `one_worker_single` | `StatsAvailable`, `NotifiedWhenDone` | with one worker, two archives that share a post and an event for every object: a row that is not counted belongs to an archive that is not processed or was started again, and a notification follows work that is over, although jobs and downloads fail, tasks, updates and results get lost and workers die |
| `failed_download` | `FailedDownloadIsInvalid` | violated, see below |
| `stale_statistics` | `StatsAvailable` | violated with two workers, see below |

`MCDataExport`: `u1` asks for `e1` and `e2`, `u2` for `e3`, two workers.

| run | properties | what it shows |
|---|---|---|
| `export_faults` | `TypeOK`, `OneExport`, `SuccessIsDownloadable` | under every fault but `mkdir`, two exports of an account are never on their way together, and SUCCESS means a named file in the bucket |
| `export_live` | `BlockedOnlyWhileExporting`, `ImplementsExportLifecycle` | with failing jobs but no lost task, state or update nobody is blocked, and the export implements `ExportLifecycle` with its fairness: each ends, with one outcome |
| `export_blocked` | `BlockedOnlyWhileExporting` | violated when `SendTask` fails, see below |

`MCAnalysisJobs`: posts in January 1970, on Thursday 2009-12-31 and on Sunday 2010-01-03,
which are two weeks, two years and two decades; reactions at 0, on that Thursday
and on the Friday after, which is the same week of another year.

| run | properties | what it shows |
|---|---|---|
| `analysis` | `TypeOK`, `PostStatsExact`, `ReactionStatsExact`, `RowsStored`, `RequestAccepted` | two analyses, the first of any subset of the rows and the second of any larger one, with failing and partial writes and a failing query: the table holds the statistics of a direct definition and all rows, each but for the exceptions below, and of the first analysis nothing that the second would not write but empty statistics at 0; no request is too large or has an item twice |

`MCAccountData`: two archives of one account, the second of which brings a post
older and one newer than those of the first; two registrations, an edit and a
deletion by the client or the administrator; two workers.

| run | properties | what it shows |
|---|---|---|
| `account` | `TypeOK`, `PostsKept`, `MetadataExact`, `DeletedLeavesNothing`, `DeletionInFlight` | in every interleaving of these: the posts of a parsed archive are in the database; the document has the edit, the location and the range of the rows; nothing of a deleted account is left but, at most, empty statistics; a flagged account has its deletion on the way; each but for its exceptions |

`MCParts`: see its constants for the instances.

| run | properties | what it shows |
|---|---|---|
| `parts` | `PartsTypeOK` and: | the types of the five modules |
| | `QuarterInTable`, `DaysExact` | for all periods of six moments, before, in and after tables of three quarters with a gap, of one and of none: no index leaves the table, each day is charged once, to the right quarter, but for one day of a period that ends before the table begins |
| | `ListExact`, `CountsCover` | lists over up to four items with full, cut and empty pages and limits below, at and above the bounds, beside two writes, and lists of rows of which some have the same time: in order, within their bounds, nothing twice, nothing that was never there, all that was there throughout up to the limit; nobody has more posts or reactions than all have, but what came between the two counts |
| | `SentimentExact` | two runs over weeks around the end of a year and a decade, with failures and an item left unprocessed: when `analyze_reactions` is sent, the statistics are those of the run, and what is missing is what DynamoDB gave back |
| | `ExportComplete`, `ItemsHaveRows` | an export has all that was in the database when it began and the archives processed then, one per second; what it has from DynamoDB it has from the database |
| | `ImplementsJob` | each step of an export is one of the job in `DataExport`, or within one, with the same failures and the same end |
| | `TagsExact`, `MediaKept`, `MediaHasObject` | two archives parsed at once or in turn, with failures: every tag of a post outside the activity range is there, and once if all archives list the friend under one timestamp of its own, or none lists it and the parsers do not overlap; every such medium has its row; every row of an archive that is in has its object |

Bounds. `MaxAcks` bounds the S3 events per object (1 or 2) and `MaxAdmin` the
administrator's requests (0 or 1); both only limit the environment. Two deliveries make
two chains of one archive run against each other, the case all the properties are about;
a third repeats it. `acksLeft` may stay above zero for ever: no event need be delivered.
`MaxRounds` bounds the analyses of an account to 2: the state one leaves for the next is
the table, which two show. `MaxLost`, at 1, bounds the writes lost unnoticed in one analysis
and the items that one `BatchWriteItem` leaves out: the exception is made item by item.
The last flush of posts still loses its whole batch at once. `BatchSize` is 25 in the code, and 6 or 3
here, so that a handful of rows fills several batches. `Budget` bounds the client's
requests. With `MaxTrouble` at 1 an edit or a failure comes first, before anything else
`AccountData` makes an exception for: the exceptions after it are still met, and a
failure after one of them would only except more. `PageSize` is 2 there, so that three
posts are more than a page. In `MCParts`, `MaxWrites` and `MaxRuns` are 2, `MaxLeft`, the items
that one run of the sentiment job loses, is 1, a page of DynamoDB has at most 2 items, a day 2 units;
of the two activity ranges one has no post and the other the one that both archives bring; an export meets either archives that get processed
or an entry that is parsed, since it reads them from different stores. No other counter
is bounded: the chains are finite, and an unregistered task keeps its one place in the
queue. The system stops when nobody asks for anything, so deadlock is not checked.

Fairness. `HandlerStep(a)` (a handler that has started continues), `WorkerStep(w)`
(a worker that is not dead continues, or takes the next task) and `SendTask(e)`
are weakly fair: goroutines are scheduled and the broker answers. Clients, S3,
administrators and failures have no fairness. Fairness of a `WorkerStep` does
not say which worker takes a task, and an unregistered task is taken and put
back again and again; `redelivery` shows that this starves nothing, because
the queue is first in, first out.

### What the violated runs found

* `failed_download`: for an HTTP status above 300 `downloadArchive`
  (`background/download.go:140`) returns nil; the archive, which was submitted, shows `submitted` for ever,
  while `store/store.go:95` calls an archive that failed to download invalid.
* `stale_statistics`: with two workers `extractPost` (`background/post.go:31`)
  overwrites newer statistics with older ones; an archive is `processed` and not
  counted, while `store/store.go:91` promises its statistics.
* `export_blocked`: a failed `SendTask` (`api/account.go:166`) leaves a PENDING
  row that the index holds against every later request, which is answered with
  "multiple exporting is not allowed" (`api/errorcode.go:22`) though none is
  under way.

## 4. Proofs

For all values of the constants; the only assumptions are those the modules
declare (`Owner` maps into `Account`, fault names are known, times are finitely many
integers; in `ReadAssumption` they are after 0, since a list has no last item before that,
and the limits of the server are not 0) and the conditions in the statements. A condition excludes what
another run or a comment shows to break the property, and is met by the
constants of the run that checks it.

| condition | what it says | why it is needed, and when the code meets it |
|---|---|---|
| `OneWorker` | the process has one worker | `worker.concurrency` (`main.go:257`) is a configuration value that nothing in the repository sets, so this is a condition on the deployment, not a fact about the code; with two workers statistics overwrite each other (`stale_statistics`). Only `EverythingCounted`, `PushAfterWork` and `ProcessedIsCounted` need it |
| `NoLoss`, `NoHashLoss`, `NoCountLoss` | none of the failures that lose a task, a result, a row or a write | the code has no retry: what is lost stays lost (`failed_download`, `export_blocked`) |
| `Whole` | archives are whole histories | see `AccountData` |
| `EntriesAssumption` | entries and files come in sequences, and a complex entry has a tag, a medium or a place | `facebook.go` takes an entry without any of them as a simple one, inserted with the others |
| `FilesThere` | the files that entries name are in the archive | see `ArchiveImport`; a row whose file is not there names none that could be uploaded |
| `Ordered` | the first quarter of a table begins before it ends, and no quarter ends before the one before it | true of every table in `src/assets/area-fbincome-map.json`; the loop moves on by the ends alone |

### The archive pipeline

* `ArchivePipelineProofs!TypeCorrect`, `Spec => []TypeOK`. `TypeOK` alone is not
  inductive: a step like `MarkStored` uses `job[w].on`, which a `NoTask` does not
  have. The invariant is `Typed == TypeOK /\ JobAtStep`: a worker is idle without a
  task, or at a step of the job of its task.
* `ArchivePipelineProofs!NoHanging`, `NoLoss => (Spec => []WorkInFlight)`. The
  argument: the queue only ever grows at its end or loses its head to a worker
  that then runs that task (`QueueGrows`, `TaskKept`), and a job gives up its
  task only after it enqueued a chain successor or finished the archive
  (`HandedOn`). An action that puts an archive in `submitted` or `processing` is by
  a handler or a job that is itself in flight.
* `ArchivePipelineProofs!EverythingCounted`, with `NoCountLoss` and `OneWorker`
  `[]StatsConverge`. `Counted` says what is true while work is in flight: rows that are
  not counted have an analysis ahead that will read all of them (`Due`), and a
  worker that is about to save has read what the database holds now (`UpToDate`).
  The latter is what a second worker breaks.
* `ArchivePipelineProofs!ObjectFound`, `Spec => []ObjectBeforeWork`, under every fault.
  `Sourced` follows the object: a row that names a key has its object
  (`HandlersFit`), a job between its calls has stored what the next call relies on
  (`JobsFit`), and a task about the object was sent for such a row (`TasksFit`).
  Nothing takes an object or a key away (`Grows`), so a task stays good while it waits.
* `ArchivePipelineProofs!HashFollows`: a repeated event blanks the hash, but brings a hash
  task of its own. While the hash is missing a handler is about to send one, or one is
  queued or running (`HashDue`).
* `ArchivePipelineProofs!DownloadsReported`, with `NoLoss` and no forced analysis: an archive
  that is analysed was stored (`AnalysedStored`), and so was one whose work is started again
  (`RestartedStored`), so nothing makes an archive without an object valid again. It is about
  archives that were submitted (`Begun`): a handler that cannot update the row leaves it
  in `created`.
* `ArchivePipelineProofs!SoleResponsible`, `Spec => [](Typed /\ AllAlone)`, under every fault, any
  number of events and requests and any number of workers. As long as the work on an archive
  is not started again, a handler that creates it, one that acknowledges it, a task in
  the queue and a worker exclude each other (`TasksAlone`, `HandlersAlone`), and each of them finds
  the status it expects (`StatusBefore`, `StatusesAt`): that is the "check of the status a write
  replaces" which the code does not have. It is inductive only with where an
  object can come from: before the archive is submitted only the client's link has put
  one there, so that its first event finds nobody at work (`ObjectAlone`).
  From it follow `OneAtWork` (`OneChain`) and `ErrorsStay` (`ErrorIffInvalid`), and
  `LifecycleKept`: `Spec => Lifecycle!Spec`, every step of the pipeline is one of
  `ArchiveLifecycle` or leaves what the client sees; of an archive that was started again it
  is a `Restart` or a `Rework`, and what stays is that it was submitted, and its error.
* `ArchivePipelineProofs!PushAfterWork`, with `OneWorker`: the notification is behind the job
  that sent it, which has only the status to write (`Finishing`); until then, and when it
  runs, the account has an archive that is finished or at rest, or whose work was started
  again (`Announces`, `Settled`). An archive at rest is woken by nobody else (`RestsOn`).
* `ArchivePipelineProofs!ProcessedIsCounted`, with `OneWorker` and neither of the faults `query`
  and `dynamo` (`extractReaction` drops the error of its query and `extractPost` that
  of an item, and the archive is processed all the same): a row that is not counted is an item of
  an archive whose chain has still to count it (`Available`, `Pending`), and a later analysis counts all
  that is there (`CountKept`). Archives may share rows: an item that a failed parse has brought is
  counted at the latest with the last archive that has it.

### The analysis of an account

All in `AnalysisJobsProofs`, for all rows, times, batch sizes, numbers of analyses and
failures. `AnalysisInv` is `Typed /\ CountsInv /\ TableInv`; the proof goes up in three parts,
from the calendar (below).

* The batches. `RequestsFit`, `[]RequestFits`: between two steps the batch is not full
  unless the job failed (`Collecting`), and the next job begins with an empty one.
* The counters, `CountsInv`: rows come in the order of time (`PostOrder`, `ReactionOrder`), and
  the counters have counted exactly the rows before the next one, no matter which:
  `PostsCounted` (the finished items are the statistics of all periods but the current
  one, and the last total is that of the period before it) and `ReactionsCounted` (with
  the sub-periods as the sequence in which the code appends them, `SubsKept`). That a
  new row starts a new period or belongs to the current one is the calendar's order, and
  `SubPeriodNames` has the same of the days and months within it.
* The table, `TableInv`. `AllKept`: what the analysis has produced is in the table, was
  lost in one of the two ways the properties except, or is on its way, and the
  table has nothing else in its slot but what will be replaced. `TableKnown`: all else in
  the table is about a row or a period of rows, or an empty statistic at 0. `Channels` keeps the two ways apart:
  statistics of posts are written one by one, everything else in batches. `Lines`:
  slots in batch and line are distinct.

A query that fails leaves all of this to the posts (phase `unread`): the statistics and rows of
reactions are then out of what the properties say.

At the end of an analysis what it has produced is the reference definition
(`ProducedAtEnd`), and `AtTheEnd` nothing is on its way: that is `StatsOfPosts`
(`PostStatsExact`), `StatsOfReactions` (`ReactionStatsExact`) and `AllRowsStored`
(`RowsStored`). `DistinctRequests` (`RequestDistinct`) is `Lines`, and
`RequestsAccepted` (`RequestAccepted`) puts it beside `RequestsFit`. `TypeCorrect` is
part of the same induction, because an index into `subs` is in range only while
the counters are as `CountsInv` says.

### The sentiment job

All in `StatisticsProofs`, for all posts, scores, batch sizes, numbers of runs and failures.
`SentimentInv` (`SentimentInvariant`) ties the job to the scores
it was given in this run:

* The weeks that were asked are those up to the next one, without a gap at the end
  (`WeeksTo`). This is what the counter needs: the period before the current one is the one
  that left the counter last, or has no week at all (`PeriodFollows`, from `PeriodBefore`: no
  period is shorter than a week).
* `CounterFor`: the counter of a kind has the scores of the current period in the order of the
  weeks (`ScoresOf`) and the mean of the period before it; `CounterGoesOn` counts one more week.
  That the n-th score is that of the n-th week is about the ranks of a finite set (`RankTaken`).
* `WaitingExact`: what waits in the batch or on the way to it is what the reference says of a
  period that is over, which the next week does not change (`ItemStays`). `DueKept`: each such
  period has its item there, or among those DynamoDB gave back, or in the table with no other
  beside it (`SettledIn`), whatever earlier runs left; a batch that is written, in whole or
  in part, keeps that (`PutSettles`, `AddGives`).

When the next task is sent nothing waits but what was given back: `SentimentStored`,
`SentimentSpec => []SentimentExact`. The code never writes that again, so it is missing.

### The calendar

`CalendarProofs` has what the jobs need of time. `PeriodNames`: weeks, years and decades are
intervals of times that start at their names. A year is a `CHOOSE` near a quotient of the
average year; `LeapDaysNear` bounds the error of the quotient, so that the year is one of three
(`YearGuessed`), and months follow from the number of leap days. `WeekContains` and `WeekBefore`:
a time lies in the week `AbsWeek` names, and the test `lastWeek = AbsWeek(currentWeek - 1)` of
`flushWeekData` is true of the week directly before and of no other. And what they need of
`ORDER BY timestamp`: a finite set of integers has a least and a greatest one, by an induction
that is put as one about the least counterexample.

### The data export

* `DataExportProofs!ExportsExclude`, `Spec => []OneExport`, under every fault. The
  index guards the status, not the work, so the invariant ties the two:
  an export is in at most one of handler, queue and worker (`OnePlace`), what is
  in flight is unfinished in the row (`Guarded`), and of those there is one
  per account (`OneUnfinished`).
* `DataExportProofs!SuccessHasFile`: unless Mkdir fails SUCCESS has a file.
  `FileInPlace` follows the file through bucket, key, result, task state and
  status, in the order in which the code writes them.
* `DataExportProofs!BlockedMeansBusy`: if only `mkdir` and `job` may fail, an
  unfinished row has an export in flight (`Busy`).
* `DataExportProofs!ExportLifecycleKept`, `Spec => Lifecycle!Spec`, under every fault: each step
  is one of `ExportLifecycle` or a stutter. The outcome of `Finish` is the state of the task,
  which must be an end by then and a success only with a file (`FileInPlace`); and a row that a
  worker writes must still be PENDING. That is `Flight`: an export in flight has the row
  as it was inserted, and the state its worker left it with. That naming a file is what makes
  it downloadable is `Stored`: what a row names, or is about to name, is in the bucket.
* `ImportExportProofs!ExportsComplete` (`[]ExportComplete`) and `ExportedItemsHaveRows`
  (`[]ItemsHaveRows`), for all archives, entries and failures. Collections only grow, and
  DynamoDB never has what the database has not (`Grown`): an analysis replaces a collection
  by the rows it was made from. So each file lies between its collection at the start of the job
  and now (`Between`), and as the files of the database come last (`RowsLast`, by counting the
  files that are there, `NextFile`), each of them has all of its items (`RowsCover`). The
  archives are copied one at a time, and only one of the same second takes a copy's name
  (`Copied`).
* `ImportExportProofs!JobImplemented`, `ExportSpec => ImplementsJob`: every step of the job is a
  step of the worker in `DataExport`, or leaves what that sees (`CoarseStutters`). The coarse
  worker fails in `Build` with the error of any call, or succeeds there without a file if a
  directory cannot be made (`CoarseBuildEnds`), and the fine one must have nothing in the bucket
  and no outcome until its upload (`NotOver`). So the theorems about `DataExport`
  rest on the job as `ExportContent` has it, and not on a guess of its ends.

### The import

All in `ImportExportProofs`, for any number of parsers at once and every failing call. The
invariant (`ImportInv`) says of each parser where it may be (`Position`), that the row of its
entry is there unless its statement failed (`HasEntry`), which friends it knows
(`HasFriends`), and that everything behind it that the activity range does not leave out is stored
(`HasStored`); no parser takes away what another relies on (`Waits`).

* `TagsImported`, `ImportSpec => []TagsExact`. The tags are there because they are behind. Once:
  a friend whom all archives list under one timestamp, and nobody else under it, has the one row
  of the list (`AlikeRow`), so that it is never made (`FriendsFrom`: who is made is not listed alike);
  and with one parser at a time a name that nobody lists has one row (`FriendsApart`), as it
  is looked for directly before it is made.
* `MediaImported`, `ImportSpec => []MediaKept`: the row a parser has passed stays, and whoever
  overwrites its file has one for the same entry, time and index (`MediaFrom`).
* `ObjectsImported`, `FilesThere => (ImportSpec => []MediaHasObject)`: an archive that is in has
  passed all of its files. `ImportTyped` is `[]ImportTypeOK`: no row refers to one that is not there.

### Lists, counts and the income

* `StatisticsProofs!ListsExact`, `ReadSpec => []ListExact`. Between two pages the
  list is in order and has everything that was there throughout and is not older than its last
  item (`SoFar`), whatever is stored and removed meanwhile; `ReadMore` adds a page that may
  be full, short or empty with more to come, and `Sortable` says that there is such a page, a
  finite set in descending order. A list of rows is a prefix of one of their orders
  (`RowsGiven`), so whatever it leaves out is not newer than anything it has.
* `StatisticsProofs!CountsCovered`, `ReadSpec => []CountsCover`: the rows of the
  account that were there when all accounts were counted are no more than that count
  (`CountWalk`), and those that came since are remembered.
* `StatisticsProofs!IndexInTable`, `IncomeSpec => []QuarterInTable`, for every table, period
  and length of a day, with `IncomeTypeOK` as the strengthening: the index grows only
  after the turn that found it below the last one.
* `StatisticsProofs!DaysCharged`, `Ordered => (IncomeSpec => []DaysExact)`: each quarter has been
  charged with those of its days that the loop has passed (`WalkInv`), and the next day, the
  next multiple of the day's length (`NextDay`), belongs to the current quarter only.

### The account

All in `AccountDataProofs`, for all workers, archives, rows, requests and faults; what a
property excepts it names itself.

* `TypeCorrect`, `[]TypeOK`.
* `DeletionOnTheWay`, `[]DeletionInFlight`. Only `accountDelete` sets the flag, and is then
  in `flagging` until it has sent the task; the queue loses a task only to a
  worker, which then has it. Of the steps that end a job only `RemoveAccount` and a
  crash end a deletion, because a worker is always at a step of the job of its
  task (`Control`).
* `DeletionComplete`, `[]DeletedLeavesNothing`: a worker in `delete_user_data` has emptied
  the keys and stores it has passed (`Emptied`), and whoever fills one of them again
  is the exception `late`, or `empty`, after which only the three empty statistics may be
  there; the rows go with the account (`RowsOfAccount`). `RemovedKeys`
  has all the keys an item can have (`AllKeys`), which is where the list in the code has to
  be complete.
* `MetadataKept`, `[]MetadataExact`. Between the SELECT and the UPDATE of the document there
  is one updater (`SoleUpdater`), whose copy is still the document (`FreshDoc`), so that the
  client's key, the location and the range change one at a time; a place or a row
  the document does not know has a job on its way to it (`LocationDue`, `RangeDue`).
* `NoPostMissed`, `Whole => (Spec => []PostsKept)`. Every row has come from an archive that
  has contributed (`RowsContributed`), all of whose posts are in the database or about to be
  (`ContributedKnown`). So whatever lies between two rows is known, and a range is made
  of two rows: in the document, in the client's copy and in every worker's
  (`RangesCovered`). That is why what the parser leaves out is never missed.

### The components side by side

`PartsProofs!PartsCompose`: `MCSpec => IncomeSpec /\ ReadSpec /\ SentimentSpec /\ ExportSpec /\
ImportSpec`. A step of `MCParts` is a step of the component that runs, also where the run
bounds it, and a stutter of the others. So the theorems about each hold of the run `parts`, and
`PartsTyped` (`MCSpec => []PartsTypeOK`) is drawn from `IncomeTyped`, `ReadTyped`,
`SentimentTyped`, `ExportTyped` and `ImportTyped` in that way.

### Only model-checked

* Liveness: `ArchivesFinish` and the fair parts of `ImplementsLifecycle` and
  `ImplementsExportLifecycle`. `ENABLED` is beyond this prover. The safety parts of both
  refinements are proved (`LifecycleKept`, `ExportLifecycleKept`).

## 5. Plan

Done: the archive pipeline with its refinement, the export with its own and its content, the
analysis jobs and their calendar, the account with its metadata, activity range and
deletion, the import of an archive, the lists and counts, the sentiment job, the
income, and the theorems of section 4: all safety properties of `ArchivePipeline`,
`DataExport`, `ExportContent`, `ArchiveImport`, `AnalysisJobs`, `AccountData`, `ReadHandlers`,
`SentimentJob` and `FacebookIncome`.

Left, in this order:

1. Composition of `ArchiveImport` with `AccountData`: two parsers beside a deletion,
   which now meet in the rows of posts and reactions only.
2. The counters of `AnalysisJobs` by type, friend and place of a post.

### Not modelled

* Authentication and routing: a check of a token and a table of routes; no request
  leaves anything for another.
* The conversion of fields in `src/schema/facebook` (dates, mojibake, the JSON schemas):
  it maps one value to another. What it decides about rows and keys is in
  `AccountData` and `ArchiveImport`.
* Reads of one item or one statement (`getPostStats`, `getPostMediaURI`, the metrics,
  the status of an export): nothing can come between.
* Wrappers of AWS, zip and HTTP clients: one call each, whose failure is that of
  the action that makes it.
* Generated messages, logging and metrics: no effect on the state.
