--------------------------- MODULE ArchivePipeline ---------------------------
(***************************************************************************)
(* The archive pipeline: the HTTP handlers that take an archive in          *)
(* (api/archives.go), the background jobs that work on it (background/),    *)
(* the row both share (fbm.fbarchive) and the queue between them.           *)
(*                                                                         *)
(*   client --> uploadArchive ......> S3 ..event..> adminAckArchiveUploaded  *)
(*   client --> uploadArchiveByURL --> download_archive                     *)
(*                                          |              |                *)
(*                                          +--> parse_archive <-- ack      *)
(*             parse_archive --> analyze_posts --> analyze_reactions        *)
(*             analyze_reactions --> extract_time_metadata, notification    *)
(*                                                                         *)
(* A handler or a job is split where it calls the database, the object      *)
(* store or the queue, because the other handlers and workers run between   *)
(* two such calls.  Nothing in the code locks a row or checks the status it *)
(* overwrites.                                                             *)
(***************************************************************************)
EXTENDS Naturals, Sequences, FiniteSets

CONSTANTS
    Account,    \* account numbers
    Archive,    \* ids of fbm.fbarchive rows
    Worker,     \* goroutines of the worker process (worker.concurrency)
    Post,       \* posts that archives may contain
    Reaction,   \* reactions that archives may contain
    Owner,      \* [Archive -> Account]
    Content,    \* [Archive -> SUBSET (Post \cup Reaction)]
    FlowOf,     \* [Archive -> {"direct", "url"}], the endpoint that creates it
    TypeOf,     \* [Archive -> {"facebook", "other"}], its archive type
    MaxAcks,    \* [Archive -> Nat], S3 events delivered for its object at most
    MaxAdmin,   \* bound on the administrator's requests
    AdminOps,   \* the requests the administrator makes
    Faults      \* the failures that may happen

AllAdminOps == {"submit", "force", "hash"}

(***************************************************************************)
(* presign      no upload link can be made                                  *)
(* update       the row of an archive fetched from a link cannot be updated  *)
(* http         the second request of a download answers a status > 300     *)
(* job          a call of an archive job fails and the job returns jobError *)
(* plain        a job outside the chain fails: its error is not a jobError   *)
(* query        the query for the reactions fails                           *)
(* dynamo       a statistics item of the posts is not written               *)
(* enqueue      SendTask fails                                              *)
(* errorhandler the row cannot be marked invalid                            *)
(* crash        the API server or the worker process dies                   *)
(***************************************************************************)
AllFaults == {"presign", "update", "http", "job", "plain", "query", "dynamo",
              "enqueue", "errorhandler", "crash"}

ASSUME OwnerAssumption   == Owner \in [Archive -> Account]
ASSUME ContentAssumption == Content \in [Archive -> SUBSET (Post \cup Reaction)]
ASSUME FlowAssumption    == FlowOf \in [Archive -> {"direct", "url"}]
ASSUME TypeAssumption    == TypeOf \in [Archive -> {"facebook", "other"}]
ASSUME AckAssumption     == MaxAcks \in [Archive -> Nat]
ASSUME AdminAssumption   == MaxAdmin \in Nat /\ AdminOps \subseteq AllAdminOps
ASSUME FaultAssumption   == Faults \subseteq AllFaults

VARIABLES
    status,      \* fbarchive.processing_status, "none" while there is no row
    fileKey,     \* fbarchive.file_key is not empty
    contentHash, \* fbarchive.content_hash is not empty
    procError,   \* fbarchive.processing_error has been written
    s3,          \* archives whose archive.zip is in the bucket
    links,       \* archives for which a client holds a presigned upload link
    creating,    \* the next call of the handler that creates the archive
    acking,      \* ack handlers between the row update and the first SendTask
    acksLeft,    \* S3 events that may still be delivered
    adminLeft,   \* administrator requests that may still be made
    restarted,   \* history: archives whose work was started again (see Begun)
    queue,       \* the redis list of the broker
    job,         \* the task each worker executes
    pc,          \* the step the worker's job is at
    snap,        \* the rows the worker's job has read and not yet counted
    rows,        \* posts and reactions of the account in the database
    stat,        \* posts and reactions the account's statistics count
    notified     \* accounts told that their archive is available

rowVars    == <<status, fileKey, contentHash, procError>>
cloudVars  == <<s3, links>>
apiVars    == <<creating, acking, acksLeft, adminLeft, restarted>>
workerVars == <<job, pc, snap>>
dataVars   == <<rows, stat, notified>>
vars == <<rowVars, cloudVars, apiVars, queue, workerVars, dataVars>>

-----------------------------------------------------------------------------
(* Tasks and steps of jobs. *)

\* A chain task is one that ends in a status of the archive it is about.
ChainNames == {"download_archive", "parse_archive",
               "analyze_posts", "analyze_reactions"}
ArchiveNames == ChainNames \cup {"generate_hash_content", "upload_archive"}
AccountNames == {"extract_time_metadata", "notification_finish_parsing"}
Task == [name : ArchiveNames, on : Archive] \cup [name : AccountNames, on : Account]
NoTask == [name |-> "none"]

\* upload_archive is sent by adminSubmitArchives and registered by no worker.
Registered == (ArchiveNames \cup AccountNames) \ {"upload_archive"}

FirstStep(name) ==
    CASE name = "download_archive"            -> "fetch"
      [] name = "parse_archive"               -> "mark_processing"
      [] name = "analyze_posts"               -> "read_posts"
      [] name = "analyze_reactions"           -> "read_reactions"
      [] name = "generate_hash_content"       -> "hash"
      [] name = "extract_time_metadata"       -> "time"
      [] name = "notification_finish_parsing" -> "notify"

\* Steps at which a failing call makes the job return jobError(err); for
\* extractReaction also after a first batch of its items is written.
FailingSteps == {"fetch", "mark_stored", "mark_processing", "parse_posts",
                 "parse_reactions", "send_posts", "read_posts", "save_posts",
                 "send_reactions", "save_reactions", "send_tail", "mark_processed"}
Steps == FailingSteps \cup {"idle", "send_parse", "read_reactions",
                            "hash", "time", "notify", "error"}

\* The steps of the job that executes a task of that name.
StepsOf(name) ==
    CASE name = "download_archive"  -> {"fetch", "mark_stored", "send_parse", "error"}
      [] name = "parse_archive"     -> {"mark_processing", "parse_posts",
                                        "parse_reactions", "send_posts", "error"}
      [] name = "analyze_posts"     -> {"read_posts", "save_posts",
                                        "send_reactions", "error"}
      [] name = "analyze_reactions" -> {"read_reactions", "save_reactions",
                                        "send_tail", "mark_processed", "error"}
      [] name = "generate_hash_content"       -> {"hash"}
      [] name = "extract_time_metadata"       -> {"time"}
      [] name = "notification_finish_parsing" -> {"notify"}
      [] OTHER -> {}

Statuses == {"created", "submitted", "processing", "processed", "invalid"}
Unfinished == {"submitted", "processing"}
Finished == {"processed", "invalid"}

TypeOK ==
    /\ status \in [Archive -> Statuses \cup {"none"}]
    /\ fileKey \in [Archive -> BOOLEAN]
    /\ contentHash \in [Archive -> BOOLEAN]
    /\ procError \in [Archive -> BOOLEAN]
    /\ s3 \subseteq Archive
    /\ links \subseteq Archive
    /\ creating \in [Archive -> {"no", "link", "submit", "enqueue"}]
    /\ acking \in [Archive -> Nat]
    /\ acksLeft \in [Archive -> Nat]
    /\ adminLeft \in Nat
    /\ restarted \subseteq Archive
    /\ queue \in Seq(Task)
    /\ job \in [Worker -> Task \cup {NoTask}]
    /\ pc \in [Worker -> Steps]
    /\ snap \in [Worker -> SUBSET (Post \cup Reaction)]
    /\ rows \in [Account -> SUBSET (Post \cup Reaction)]
    /\ stat \in [Account -> SUBSET (Post \cup Reaction)]
    /\ notified \subseteq Account

Init ==
    /\ status = [a \in Archive |-> "none"]
    /\ fileKey = [a \in Archive |-> FALSE]
    /\ contentHash = [a \in Archive |-> FALSE]
    /\ procError = [a \in Archive |-> FALSE]
    /\ s3 = {}
    /\ links = {}
    /\ creating = [a \in Archive |-> "no"]
    /\ acking = [a \in Archive |-> 0]
    /\ acksLeft = MaxAcks
    /\ adminLeft = MaxAdmin
    /\ restarted = {}
    /\ queue = <<>>
    /\ job = [w \in Worker |-> NoTask]
    /\ pc = [w \in Worker |-> "idle"]
    /\ snap = [w \in Worker |-> {}]
    /\ rows = [u \in Account |-> {}]
    /\ stat = [u \in Account |-> {}]
    /\ notified = {}

-----------------------------------------------------------------------------
(* The store: an UPDATE whose WHERE matches no row is not an error. *)

Exists(a) == status[a] # "none"

UpdateStatus(a, new) == status' = [status EXCEPT ![a] = IF @ = "none" THEN @ ELSE new]

UpdateKey(a) == fileKey' = [fileKey EXCEPT ![a] = @ \/ Exists(a)]

UpdateHash(a, known) ==
    contentHash' = [contentHash EXCEPT ![a] = IF Exists(a) THEN known ELSE @]

InvalidFBArchive(a) ==
    /\ UpdateStatus(a, "invalid")
    /\ procError' = [procError EXCEPT ![a] = @ \/ Exists(a)]

(* The queue. *)

ArchiveTask(name, a) == [name |-> name, on |-> a]
AccountTask(name, u) == [name |-> name, on |-> u]

-----------------------------------------------------------------------------
(* The handlers of the API server. *)

\* AddFBArchive, the first call of uploadArchive and of uploadArchiveByURL.
AddFBArchive(a) ==
    /\ status[a] = "none"
    /\ status' = [status EXCEPT ![a] = "created"]
    /\ creating' = [creating EXCEPT ![a] = IF FlowOf[a] = "direct" THEN "link" ELSE "submit"]
    /\ UNCHANGED <<fileKey, contentHash, procError, cloudVars, acking, acksLeft,
                   adminLeft, restarted, queue, workerVars, dataVars>>

\* uploadArchive, NewArchiveUpload; without a link the archive is invalid.
MakeLink(a) ==
    /\ creating[a] = "link"
    /\ creating' = [creating EXCEPT ![a] = "no"]
    /\ \/ links' = links \cup {a} /\ UNCHANGED <<status, procError>>
       \/ "presign" \in Faults /\ InvalidFBArchive(a) /\ UNCHANGED links
       \/ {"presign", "errorhandler"} \subseteq Faults /\ UNCHANGED <<status, procError, links>>
    /\ UNCHANGED <<fileKey, contentHash, s3, acking, acksLeft, adminLeft, restarted, queue,
                   workerVars, dataVars>>

\* The client puts the file (again, if it likes) while it holds the link.
ClientPut(a) ==
    /\ a \in links
    /\ s3' = s3 \cup {a}
    /\ UNCHANGED <<rowVars, links, apiVars, queue, workerVars, dataVars>>

\* uploadArchiveByURL, UpdateFBArchiveStatus; if it fails the handler answers
\* and returns, and the row stays "created" with nobody to work on it.
UrlSubmit(a) ==
    /\ creating[a] = "submit"
    /\ \/ UpdateStatus(a, "submitted") /\ creating' = [creating EXCEPT ![a] = "enqueue"]
       \/ /\ "update" \in Faults
          /\ creating' = [creating EXCEPT ![a] = "no"] /\ UNCHANGED status
    /\ UNCHANGED <<fileKey, contentHash, procError, cloudVars, acking, acksLeft,
                   adminLeft, restarted, queue, workerVars, dataVars>>

\* uploadArchiveByURL, SendTask; if it fails the handler only answers 400.
UrlEnqueue(a) ==
    /\ creating[a] = "enqueue"
    /\ creating' = [creating EXCEPT ![a] = "no"]
    /\ \/ queue' = Append(queue, ArchiveTask("download_archive", a))
       \/ "enqueue" \in Faults /\ UNCHANGED queue
    /\ UNCHANGED <<rowVars, cloudVars, acking, acksLeft, adminLeft, restarted, workerVars,
                   dataVars>>

\* The archive has been submitted: a chain of tasks was started for it.
Begun(a) == status[a] \in Unfinished \cup Finished

Restart(a) == restarted' = restarted \cup {a}

\* adminAckArchiveUploaded, UpdateFBArchiveStatus.  The lambda calls it for every
\* object that is put into the bucket, a client's and, as it looks at no key, the
\* one of downloadArchive as well, and sends no file_hash: the hash is
\* overwritten by "".  An event whose call fails here changes nothing.
AckUpdate(a) ==
    /\ a \in s3 /\ acksLeft[a] > 0
    /\ acksLeft' = [acksLeft EXCEPT ![a] = @ - 1]
    /\ acking' = [acking EXCEPT ![a] = @ + 1]
    /\ UpdateStatus(a, "submitted") /\ UpdateKey(a) /\ UpdateHash(a, FALSE)
    /\ IF Begun(a) THEN Restart(a) ELSE UNCHANGED restarted
    /\ UNCHANGED <<procError, cloudVars, creating, adminLeft, queue, workerVars, dataVars>>

\* Mutant: the hash task is dropped ("this cause additional download").
AckEnqueue_ParseOnly(a) ==
    /\ acking[a] > 0
    /\ acking' = [acking EXCEPT ![a] = @ - 1]
    /\ queue' = Append(queue, ArchiveTask("parse_archive", a))
    /\ UNCHANGED <<rowVars, cloudVars, creating, acksLeft, adminLeft, restarted, workerVars,
                   dataVars>>

\* adminAckArchiveUploaded, the two SendTask: a failure of the first panics, a
\* failure of the second answers 400 and leaves the first task in the queue.
AckEnqueue(a) ==
    /\ acking[a] > 0
    /\ acking' = [acking EXCEPT ![a] = @ - 1]
    /\ LET hashed == Append(queue, ArchiveTask("generate_hash_content", a))
       IN \/ queue' = Append(hashed, ArchiveTask("parse_archive", a))
          \/ "enqueue" \in Faults /\ queue' \in {queue, hashed}
    /\ UNCHANGED <<rowVars, cloudVars, creating, acksLeft, adminLeft, restarted, workerVars,
                   dataVars>>

AdminRequest(op) ==
    /\ op \in AdminOps /\ adminLeft > 0
    /\ adminLeft' = adminLeft - 1
    /\ UNCHANGED <<rowVars, cloudVars, creating, acking, acksLeft, workerVars, dataVars>>

\* adminSubmitArchives, one id.
AdminSubmit(a) ==
    /\ AdminRequest("submit") /\ Exists(a) /\ UNCHANGED restarted
    /\ queue' = Append(queue, ArchiveTask("upload_archive", a))

\* Mutant: the check of an empty file key is dropped.
AdminGenerateHash_AnyKey(a) ==
    /\ AdminRequest("hash") /\ Exists(a) /\ UNCHANGED restarted
    /\ queue' = Append(queue, ArchiveTask("generate_hash_content", a))

\* adminGenerateHashContent, one id.
AdminGenerateHash(a) ==
    /\ AdminRequest("hash") /\ Exists(a) /\ fileKey[a] /\ UNCHANGED restarted
    /\ queue' = Append(queue, ArchiveTask("generate_hash_content", a))

\* adminForceParseArchive, one account: archives[0] of a SELECT without ORDER
\* BY is any archive of the account, whatever its status.
AdminForceParse(a) ==
    /\ AdminRequest("force") /\ Exists(a) /\ Restart(a)
    /\ LET forced == Append(queue, ArchiveTask("analyze_posts", a))
       IN \/ queue' = Append(forced, AccountTask("extract_time_metadata", Owner[a]))
          \/ "enqueue" \in Faults /\ queue' = forced

-----------------------------------------------------------------------------
(* The worker process. *)

Goto(w, step) == pc' = [pc EXCEPT ![w] = step] /\ UNCHANGED job
Finish(w) ==
    /\ pc' = [pc EXCEPT ![w] = "idle"]
    /\ job' = [job EXCEPT ![w] = NoTask]

\* Mutant: a task nobody registered is put back at the head.
Start_RequeueAtHead(w) ==
    /\ pc[w] = "idle" /\ queue # <<>>
    /\ Head(queue).name \in Registered
    /\ job' = [job EXCEPT ![w] = Head(queue)]
    /\ pc' = [pc EXCEPT ![w] = FirstStep(Head(queue).name)]
    /\ queue' = Tail(queue)
    /\ UNCHANGED <<rowVars, cloudVars, apiVars, snap, dataVars>>

\* A free worker pops the head of the list; the broker pushes a task nobody
\* registered back to the tail.
Start(w) ==
    /\ pc[w] = "idle" /\ queue # <<>>
    /\ IF Head(queue).name \in Registered
       THEN /\ job' = [job EXCEPT ![w] = Head(queue)]
            /\ pc' = [pc EXCEPT ![w] = FirstStep(Head(queue).name)]
            /\ queue' = Tail(queue)
       ELSE queue' = Append(Tail(queue), Head(queue)) /\ UNCHANGED <<job, pc>>
    /\ UNCHANGED <<rowVars, cloudVars, apiVars, snap, dataVars>>

\* Mutant: the archive is sent to the parser before the row is updated.
Fetch_SendsParse(w) ==
    /\ pc[w] = "fetch"
    /\ s3' = s3 \cup {job[w].on}
    /\ queue' = Append(queue, ArchiveTask("parse_archive", job[w].on))
    /\ Goto(w, "mark_stored")
    /\ UNCHANGED <<rowVars, links, apiVars, snap, dataVars>>

\* downloadArchive up to s3util.UploadArchive; a status > 300 is reported and
\* the job returns nil.
Fetch(w) ==
    /\ pc[w] = "fetch"
    /\ \/ s3' = s3 \cup {job[w].on} /\ Goto(w, "mark_stored")
       \/ "http" \in Faults /\ UNCHANGED s3 /\ Finish(w)
    /\ UNCHANGED <<rowVars, links, apiVars, queue, snap, dataVars>>

\* Mutant: the status "stored" that store.go declares is used.
MarkStored_AsStored(w) ==
    /\ pc[w] = "mark_stored"
    /\ UpdateStatus(job[w].on, "stored")
    /\ UpdateKey(job[w].on)
    /\ UpdateHash(job[w].on, TRUE)
    /\ Goto(w, "send_parse")
    /\ UNCHANGED <<procError, cloudVars, apiVars, queue, snap, dataVars>>

\* downloadArchive, UpdateFBArchiveStatus.
MarkStored(w) ==
    /\ pc[w] = "mark_stored"
    /\ UpdateStatus(job[w].on, "submitted")
    /\ UpdateKey(job[w].on)
    /\ UpdateHash(job[w].on, TRUE)
    /\ Goto(w, "send_parse")
    /\ UNCHANGED <<procError, cloudVars, apiVars, queue, snap, dataVars>>

\* downloadArchive, SendTask: its error is dropped.
SendParse(w) ==
    /\ pc[w] = "send_parse"
    /\ \/ queue' = Append(queue, ArchiveTask("parse_archive", job[w].on))
       \/ "enqueue" \in Faults /\ UNCHANGED queue
    /\ Finish(w)
    /\ UNCHANGED <<rowVars, cloudVars, apiVars, snap, dataVars>>

\* parseArchive, UpdateFBArchiveStatus; only a facebook archive is parsed.
MarkProcessing(w) ==
    /\ pc[w] = "mark_processing"
    /\ UpdateStatus(job[w].on, "processing")
    /\ Goto(w, IF TypeOf[job[w].on] = "facebook" THEN "parse_posts" ELSE "send_posts")
    /\ UNCHANGED <<fileKey, contentHash, procError, cloudVars, apiVars, queue, snap, dataVars>>

\* ParseFacebookArchive inserts pattern after pattern, the posts before the
\* reactions.  A row that is there stays (ON CONFLICT DO NOTHING); a post inside
\* the known activity range is skipped and a failed insert is only reported, so
\* any part of the file may reach the database.
InsertRows(w, items) ==
    LET u == Owner[job[w].on]
    IN \E inserted \in SUBSET (Content[job[w].on] \cap items) :
           rows' = [rows EXCEPT ![u] = @ \cup inserted]

ParsePosts(w) ==
    /\ pc[w] = "parse_posts"
    /\ InsertRows(w, Post)
    /\ Goto(w, "parse_reactions")
    /\ UNCHANGED <<rowVars, cloudVars, apiVars, queue, snap, stat, notified>>

ParseReactions(w) ==
    /\ pc[w] = "parse_reactions"
    /\ InsertRows(w, Reaction)
    /\ Goto(w, "send_posts")
    /\ UNCHANGED <<rowVars, cloudVars, apiVars, queue, snap, stat, notified>>

\* Mutant: posts and reactions are analysed in parallel.
SendPosts_Parallel(w) ==
    /\ pc[w] = "send_posts"
    /\ queue' = queue \o <<ArchiveTask("analyze_posts", job[w].on),
                           ArchiveTask("analyze_reactions", job[w].on)>>
    /\ Finish(w)
    /\ UNCHANGED <<rowVars, cloudVars, apiVars, snap, dataVars>>

\* Mutant: an account that has statistics is not analysed again.
SendPosts_OnlyOnce(w) ==
    /\ pc[w] = "send_posts"
    /\ IF stat[Owner[job[w].on]] = {}
       THEN queue' = Append(queue, ArchiveTask("analyze_posts", job[w].on))
       ELSE UNCHANGED queue
    /\ Finish(w)
    /\ UNCHANGED <<rowVars, cloudVars, apiVars, snap, dataVars>>

\* parseArchive, SendTask.
SendPosts(w) ==
    /\ pc[w] = "send_posts"
    /\ queue' = Append(queue, ArchiveTask("analyze_posts", job[w].on))
    /\ Finish(w)
    /\ UNCHANGED <<rowVars, cloudVars, apiVars, snap, dataVars>>

\* Mutant: the analysis of the reactions is enqueued first.
ReadPosts_SendsEarly(w) ==
    /\ pc[w] = "read_posts"
    /\ snap' = [snap EXCEPT ![w] = rows[Owner[job[w].on]] \cap Post]
    /\ queue' = Append(queue, ArchiveTask("analyze_reactions", job[w].on))
    /\ Goto(w, "save_posts")
    /\ UNCHANGED <<rowVars, cloudVars, apiVars, dataVars>>

\* extractPost reads all posts of the account ...
ReadPosts(w) ==
    /\ pc[w] = "read_posts"
    /\ snap' = [snap EXCEPT ![w] = rows[Owner[job[w].on]] \cap Post]
    /\ Goto(w, "save_posts")
    /\ UNCHANGED <<rowVars, cloudVars, apiVars, queue, dataVars>>

\* Mutant: posts and reactions share their keys in the table.
CountInto_SharedKey(u, kind, counted) ==
    stat' = [stat EXCEPT ![u] = IF counted = {} THEN @ ELSE counted]

\* ... and puts the statistics counted from them over the stored ones, unless
\* it counted none; an item that cannot be written is only reported.
CountInto(u, kind, counted) ==
    stat' = [stat EXCEPT ![u] = IF counted = {} THEN @ ELSE (@ \ kind) \cup counted]

SavePosts(w) ==
    /\ pc[w] = "save_posts"
    /\ \/ CountInto(Owner[job[w].on], Post, snap[w])
       \/ "dynamo" \in Faults /\ UNCHANGED stat
    /\ snap' = [snap EXCEPT ![w] = {}]
    /\ Goto(w, "send_reactions")
    /\ UNCHANGED <<rowVars, cloudVars, apiVars, queue, rows, notified>>

\* Mutant: the notification is sent along with the last analysis.
SendReactions_Notifies(w) ==
    /\ pc[w] = "send_reactions"
    /\ queue' = queue \o <<AccountTask("notification_finish_parsing", Owner[job[w].on]),
                           ArchiveTask("analyze_reactions", job[w].on)>>
    /\ Finish(w)
    /\ UNCHANGED <<rowVars, cloudVars, apiVars, snap, dataVars>>

\* extractPost, SendTask (after the account's metadata is updated).
SendReactions(w) ==
    /\ pc[w] = "send_reactions"
    /\ queue' = Append(queue, ArchiveTask("analyze_reactions", job[w].on))
    /\ Finish(w)
    /\ UNCHANGED <<rowVars, cloudVars, apiVars, snap, dataVars>>

\* Mutant: without reactions the job returns early.
ReadReactions_EarlyReturn(w) ==
    /\ pc[w] = "read_reactions"
    /\ LET found == rows[Owner[job[w].on]] \cap Reaction
       IN /\ snap' = [snap EXCEPT ![w] = found]
          /\ IF found = {} THEN Finish(w) ELSE Goto(w, "save_reactions")
    /\ UNCHANGED <<rowVars, cloudVars, apiVars, queue, dataVars>>

\* extractReaction reads the reactions; the error of the query is dropped.
ReadReactions(w) ==
    /\ pc[w] = "read_reactions"
    /\ \/ snap' = [snap EXCEPT ![w] = rows[Owner[job[w].on]] \cap Reaction]
       \/ "query" \in Faults /\ snap' = [snap EXCEPT ![w] = {}]
    /\ Goto(w, "save_reactions")
    /\ UNCHANGED <<rowVars, cloudVars, apiVars, queue, dataVars>>

SaveReactions(w) ==
    /\ pc[w] = "save_reactions"
    /\ CountInto(Owner[job[w].on], Reaction, snap[w])
    /\ snap' = [snap EXCEPT ![w] = {}]
    /\ Goto(w, "send_tail")
    /\ UNCHANGED <<rowVars, cloudVars, apiVars, queue, rows, notified>>

\* extractReaction, the two SendTask, whose errors are dropped.
SendTail(w) ==
    /\ pc[w] = "send_tail"
    /\ LET time   == AccountTask("extract_time_metadata", Owner[job[w].on])
           notify == AccountTask("notification_finish_parsing", Owner[job[w].on])
       IN \/ queue' = Append(Append(queue, time), notify)
          \/ /\ "enqueue" \in Faults
             /\ queue' \in {queue, Append(queue, time), Append(queue, notify)}
    /\ Goto(w, "mark_processed")
    /\ UNCHANGED <<rowVars, cloudVars, apiVars, snap, dataVars>>

\* extractReaction, UpdateFBArchiveStatus.
MarkProcessed(w) ==
    /\ pc[w] = "mark_processed"
    /\ UpdateStatus(job[w].on, "processed")
    /\ Finish(w)
    /\ UNCHANGED <<fileKey, contentHash, procError, cloudVars, apiVars, queue, snap, dataVars>>

\* generateHashContent: an error is returned as it is, not as a jobError.
GenerateHash(w) ==
    /\ pc[w] = "hash"
    /\ \/ UpdateHash(job[w].on, TRUE)
       \/ "plain" \in Faults /\ UNCHANGED contentHash
    /\ Finish(w)
    /\ UNCHANGED <<status, fileKey, procError, cloudVars, apiVars, queue, snap, dataVars>>

\* extractTimeMetadata changes the account's metadata only.
TimeMetadata(w) ==
    /\ pc[w] = "time"
    /\ Finish(w)
    /\ UNCHANGED <<rowVars, cloudVars, apiVars, queue, snap, dataVars>>

\* notifyAnalyzingDone.
Notify(w) ==
    /\ pc[w] = "notify"
    /\ \/ notified' = notified \cup {job[w].on}
       \/ "plain" \in Faults /\ UNCHANGED notified
    /\ Finish(w)
    /\ UNCHANGED <<rowVars, cloudVars, apiVars, queue, snap, rows, stat>>

\* Mutant: a failed download returns the plain error.
JobFails_PlainFetch(w) ==
    /\ "job" \in Faults /\ pc[w] \in FailingSteps
    /\ snap' = [snap EXCEPT ![w] = {}]
    /\ IF pc[w] = "fetch" THEN Finish(w) ELSE Goto(w, "error")
    /\ UNCHANGED <<rowVars, cloudVars, apiVars, queue, dataVars>>

\* A call of the job fails and the job returns jobError(err) ...
JobFails(w) ==
    /\ "job" \in Faults /\ pc[w] \in FailingSteps
    /\ snap' = [snap EXCEPT ![w] = {}]
    /\ Goto(w, "error")
    /\ UNCHANGED <<rowVars, cloudVars, apiVars, queue, dataVars>>

\* ... for which jobErrorHandler marks the archive invalid.  If that fails, or
\* the handler is not reached, nothing else is done about the archive.
JobErrorHandler(w) ==
    /\ pc[w] = "error"
    /\ \/ InvalidFBArchive(job[w].on)
       \/ "errorhandler" \in Faults /\ UNCHANGED <<status, procError>>
    /\ Finish(w)
    /\ UNCHANGED <<fileKey, contentHash, cloudVars, apiVars, queue, snap, dataVars>>

\* A task is off the list from the moment it is popped: a crash loses it.
WorkerCrash ==
    /\ "crash" \in Faults
    /\ job' = [w \in Worker |-> NoTask]
    /\ pc' = [w \in Worker |-> "idle"]
    /\ snap' = [w \in Worker |-> {}]
    /\ UNCHANGED <<rowVars, cloudVars, apiVars, queue, dataVars>>

ApiCrash ==
    /\ "crash" \in Faults
    /\ creating' = [a \in Archive |-> "no"]
    /\ acking' = [a \in Archive |-> 0]
    /\ UNCHANGED <<rowVars, cloudVars, acksLeft, adminLeft, restarted, queue, workerVars, dataVars>>

-----------------------------------------------------------------------------
ClientStep(a) == AddFBArchive(a) \/ ClientPut(a) \/ AckUpdate(a)
AdminStep(a) == AdminSubmit(a) \/ AdminGenerateHash(a) \/ AdminForceParse(a)
HandlerStep(a) == MakeLink(a) \/ UrlSubmit(a) \/ UrlEnqueue(a) \/ AckEnqueue(a)

DownloadStep(w) == Fetch(w) \/ MarkStored(w) \/ SendParse(w)
ParseStep(w) == MarkProcessing(w) \/ ParsePosts(w) \/ ParseReactions(w) \/ SendPosts(w)
PostStep(w) == ReadPosts(w) \/ SavePosts(w) \/ SendReactions(w)
ReactionStep(w) ==
    ReadReactions(w) \/ SaveReactions(w) \/ SendTail(w) \/ MarkProcessed(w)
TailStep(w) == GenerateHash(w) \/ TimeMetadata(w) \/ Notify(w)
WorkerStep(w) ==
    \/ Start(w) \/ DownloadStep(w) \/ ParseStep(w) \/ PostStep(w)
    \/ ReactionStep(w) \/ TailStep(w) \/ JobErrorHandler(w)

Next ==
    \/ \E a \in Archive : ClientStep(a) \/ AdminStep(a) \/ HandlerStep(a)
    \/ \E w \in Worker : WorkerStep(w) \/ JobFails(w)
    \/ WorkerCrash
    \/ ApiCrash

Spec == Init /\ [][Next]_vars

\* A handler that has started runs on, and so does a worker; nothing makes a
\* client put its file, S3 deliver its event or an administrator act.
Fairness ==
    /\ \A a \in Archive : WF_vars(HandlerStep(a))
    /\ \A w \in Worker : WF_vars(WorkerStep(w))

FairSpec == Spec /\ Fairness

-----------------------------------------------------------------------------
(* Properties. *)

\* The tasks a name of NS is on for the archive or account x: queued or running.
QueuedFor(NS, x) == {i \in DOMAIN queue : queue[i].name \in NS /\ queue[i].on = x}
RunningFor(NS, x) == {w \in Worker : job[w].name \in NS /\ job[w].on = x}
TaskFor(NS, x) == QueuedFor(NS, x) # {} \/ RunningFor(NS, x) # {}

\* A worker is idle and holds no task, or it is at a step of its task's job.
JobAtStep ==
    \A w \in Worker :
        \/ pc[w] = "idle" /\ job[w] = NoTask
        \/ job[w] \in Task /\ pc[w] \in StepsOf(job[w].name)

InFlight(a) ==
    \/ creating[a] = "enqueue"
    \/ acking[a] > 0
    \/ TaskFor(ChainNames, a)

(***************************************************************************)
(* An archive that shows "submitted" or "processing" has a handler or a     *)
(* task of the chain download, parse, analyze_posts, analyze_reactions on   *)
(* its way, so it never hangs in that status.  It holds under redelivered    *)
(* events, forced analyses and failing jobs, as long as no task is lost      *)
(* (Faults without http, enqueue, errorhandler and crash).                   *)
(***************************************************************************)
WorkInFlight == \A a \in Archive : status[a] \in Unfinished => InFlight(a)

(***************************************************************************)
(* A job that downloads archive.zip (parseArchive, generateHashContent) is  *)
(* only ever queued or run for an archive whose object is in the bucket and *)
(* whose row names it, so its download cannot fail on a missing key.        *)
(***************************************************************************)
ObjectBeforeWork ==
    \A a \in Archive :
        TaskFor({"parse_archive", "generate_hash_content"}, a) => a \in s3 /\ fileKey[a]

(***************************************************************************)
(* adminAckArchiveUploaded blanks the content hash ("FIXME: calculate       *)
(* later"): a row that names a file and has no hash has a                   *)
(* generate_hash_content on its way, so that no order of events, downloads  *)
(* and hash jobs leaves an archive without a hash for good.                 *)
(***************************************************************************)
HashPending ==
    \A a \in Archive :
        fileKey[a] /\ ~contentHash[a] =>
            acking[a] > 0 \/ TaskFor({"generate_hash_content"}, a)

(***************************************************************************)
(* "FBArchiveStatusInvalid when an archive is either failed to download or  *)
(* there are errors while processing" (store/store.go): an archive that was   *)
(* submitted for download, whose download is over and left no file in the    *)
(* bucket, is invalid.  (One that could not be submitted stays "created".)   *)
(***************************************************************************)
FailedDownloadIsInvalid ==
    \A a \in Archive :
        /\ FlowOf[a] = "url" /\ Begun(a) /\ a \notin s3
        /\ creating[a] = "no" /\ ~TaskFor({"download_archive"}, a)
        => status[a] = "invalid"

(***************************************************************************)
(* At most one handler or chain task is ever responsible for an archive:     *)
(* each job hands the archive on to exactly one successor.  That ends when    *)
(* the work is started again for an archive that had been submitted: by a    *)
(* second event, by the event of the object that downloadArchive itself puts  *)
(* into the bucket, or by a forced analysis.                                *)
(***************************************************************************)
OneChain ==
    \A a \in Archive \ restarted :
        Cardinality(QueuedFor(ChainNames, a)) + Cardinality(RunningFor(ChainNames, a))
            + acking[a] + (IF creating[a] = "no" THEN 0 ELSE 1) <= 1

(***************************************************************************)
(* An invalid row carries a processing error.  As long as its work is not     *)
(* started again, a row with an error is invalid, too: no later job moves an  *)
(* archive out of the status jobErrorHandler gave it, although              *)
(* UpdateFBArchiveStatus never looks at the status it overwrites nor clears   *)
(* the error.                                                              *)
(***************************************************************************)
ErrorIffInvalid ==
    /\ \A a \in Archive : status[a] = "invalid" => procError[a]
    /\ \A a \in Archive \ restarted : procError[a] => status[a] = "invalid"

(***************************************************************************)
(* "FBArchiveStatusProcessed when an archive is processed and its stats is  *)
(* avaialbe to query via API" (store/store.go): a row that the statistics of *)
(* its account do not count belongs to an archive that is not processed, or  *)
(* whose work was started again.  An item that several archives bring is     *)
(* counted at the latest when all of them are processed.  It needs a single   *)
(* worker.                                                                 *)
(***************************************************************************)
StatsAvailable ==
    \A u \in Account : \A item \in rows[u] \ stat[u] :
        \E a \in Archive :
            /\ Owner[a] = u /\ item \in Content[a]
            /\ status[a] # "processed" \/ a \in restarted

(***************************************************************************)
(* Once no archive has work in flight, the statistics of every account      *)
(* count every row of it, however the analyses of its archives, redelivered *)
(* or forced, were interleaved.  It needs a single worker: two of them       *)
(* overwrite each other's statistics.                                       *)
(***************************************************************************)
StatsConverge ==
    (\A a \in Archive : ~InFlight(a)) => \A u \in Account : rows[u] \subseteq stat[u]

(***************************************************************************)
(* The push "your archive is available" (notifyAnalyzingDone) reaches an    *)
(* account only when the work on an archive of it is over, although          *)
(* extractReaction enqueues the notification before it marks the archive     *)
(* processed: the archive is finished, or a crash or a failing error handler *)
(* has left it behind, or its work was started again since.  It needs a      *)
(* single worker, for which the notification waits in the queue.             *)
(***************************************************************************)
NotifiedWhenDone ==
    \A u \in notified : \E a \in Archive :
        /\ Owner[a] = u
        /\ \/ status[a] \in Finished
           \/ status[a] \in Unfinished /\ ~InFlight(a)
           \/ a \in restarted

(***************************************************************************)
(* An archive that was submitted gets to processed or invalid: the chain is *)
(* neither cut nor starved by the tasks no worker has registered.           *)
(***************************************************************************)
ArchivesFinish ==
    \A a \in Archive : status[a] \in Unfinished ~> status[a] \in Finished

(***************************************************************************)
(* The pipeline implements the lifecycle a client may rely on: an archive    *)
(* only moves forward, and never out of processed or invalid, until its work *)
(* is started again; even then it keeps its error, and it gets to the end of *)
(* its work, as long as no task is lost.                                    *)
(***************************************************************************)
Lifecycle == INSTANCE ArchiveLifecycle
                 WITH Archive <- Archive, status <- status, procError <- procError,
                      again <- restarted
ImplementsLifecycle == Lifecycle!FairSpec

=============================================================================
