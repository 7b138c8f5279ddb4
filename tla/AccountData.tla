----------------------------- MODULE AccountData -----------------------------
(***************************************************************************)
(* What belongs to one account number, from registration to deletion: the    *)
(* row of fbm.account with its metadata document, the rows the archive jobs  *)
(* insert, the items they put into DynamoDB, the objects in the bucket.       *)
(*                                                                         *)
(*   accountRegister --> accountUpdateMetadata --> accountDelete             *)
(*   parse_archive --> analyze_posts --> analyze_reactions                   *)
(*                                   --> extract_time_metadata               *)
(*   accountDelete, adminAccountDelete --> delete_user_data                  *)
(*                                                                         *)
(* ArchivePipeline models the chain of jobs itself, the row of an archive and *)
(* what fails on the way; here a job is reduced to what it does with the      *)
(* account.  The metadata document is read by one statement and written back *)
(* as a whole by another.  The activity range in it decides which posts of    *)
(* the next archive are left out.  Deletion removes from four stores in       *)
(* eleven steps, beside whatever else the workers do.                         *)
(***************************************************************************)
EXTENDS Naturals, Sequences, FiniteSets

CONSTANTS
    Worker,     \* goroutines of the worker process
    Uploads,    \* archives the client uploads at most; their ids are 1..Uploads
    Time,       \* timestamps, which identify a row in its table
    Posts,      \* [Archive -> SUBSET Time]
    Reactions,  \* [Archive -> SUBSET Time]
    Complex,    \* times of posts with media, places or tags
    Placed,     \* times of posts with a location
    PageSize,   \* items in a page of a DynamoDB query
    Budget,     \* requests of each kind at most: register, edit, delete
    MaxTrouble, \* a failure or an edit comes while less than this has happened
    Faults      \* the failures that may happen

(***************************************************************************)
(* job      a call of a chain job fails and ends its chain, or the worker      *)
(*          process dies with a task                                        *)
(* insert   an INSERT of posts or reactions fails, which is only reported    *)
(* remove   delete_user_data fails to remove items or objects                *)
(* database delete_user_data fails to remove the account                     *)
(* enqueue  SendTask of accountDelete fails                                  *)
(***************************************************************************)
AllFaults == {"job", "insert", "remove", "database", "enqueue"}
Requests == {"register", "edit", "delete"}

Archive == 1..Uploads

ASSUME UploadAssumption == Uploads \in Nat
ASSUME TimeAssumption   == Time \subseteq Nat \ {0} /\ IsFiniteSet(Time)
ASSUME PostsAssumption  == Posts \in [Archive -> SUBSET Time]
ASSUME ReactionsAssumption == Reactions \in [Archive -> SUBSET Time]
ASSUME PageAssumption   == PageSize \in Nat \ {0}
ASSUME BudgetAssumption == Budget \in [Requests -> Nat] /\ MaxTrouble \in Nat
ASSUME FaultAssumption  == Faults \subseteq AllFaults

VARIABLES
    account,     \* the row of fbm.account: exists, deleting, doc; gen counts registrations
    posts,       \* timestamps of the account's rows in facebook_post
    reactions,   \* timestamps of its rows in facebook_reaction
    archives,    \* archives with a row in fbm.fbarchive
    table,       \* items of the account in DynamoDB
    objects,     \* objects in the bucket below the account number
    uploaded,    \* archives uploaded so far
    left,        \* requests the clients may still make
    registering, \* accountRegister handlers that found no account
    editing,     \* the document accountUpdateMetadata has read
    flagging,    \* accountDelete handlers between the flag and SendTask
    queue,       \* the redis list of the broker
    job,         \* the task each worker executes
    pc,          \* the call the worker's job is at
    local,       \* variables of the worker's job
    saved,       \* last edit of the profile that was answered with success
    parsed,      \* archives of this registration whose parse returned nil
    happened     \* what the exceptions of the properties are about

pgVars   == <<account, posts, reactions, archives>>
apiVars  == <<uploaded, left, registering, editing, flagging>>
jobVars  == <<queue, job, pc, local>>
auxVars  == <<saved, parsed>>
vars == <<pgVars, table, objects, apiVars, jobVars, auxVars, happened>>

-----------------------------------------------------------------------------
(* The metadata document. *)

\* The keys of fbm.account.metadata that somebody updates: one key of the client's, the
\* location, the activity range.  A missing key reads as 0 or FALSE.
Doc == [profile : 0..Budget["edit"], location : BOOLEAN,
        first : Time \cup {0}, last : Time \cup {0}]
NewDoc == [profile |-> 0, location |-> FALSE, first |-> 0, last |-> 0]

\* Mutant: the update replaces the document.
Merge_Replaces(doc, update) ==
    [k \in DOMAIN doc |-> IF k \in DOMAIN update THEN update[k] ELSE NewDoc[k]]

\* UpdateAccountMetadata: the given keys over the document as it was read.
Merge(doc, update) ==
    [k \in DOMAIN doc |-> IF k \in DOMAIN update THEN update[k] ELSE doc[k]]

Earliest(times) == IF times = {} THEN 0 ELSE CHOOSE t \in times : \A s \in times : t <= s
Latest(times) == IF times = {} THEN 0 ELSE CHOOSE t \in times : \A s \in times : s <= t

\* extractTimeMetadata, from the posts and the reactions it found: no reactions mean a first
\* reaction at 0, which is the smaller.
Range(found, reacted) ==
    LET smaller(a, b) == IF b < a THEN b ELSE a
        larger(a, b) == IF a < b THEN b ELSE a
    IN [first |-> smaller(Earliest(found), Earliest(reacted)),
        last  |-> larger(Latest(found), Latest(reacted))]

\* Mutant: everything up to the last activity is known.
Fresh_AfterLast(t, range) == t > range.last

\* RawPosts.ORM: posts within the current activity range are omitted.
Fresh(t, range) == t < range.first \/ t > range.last

-----------------------------------------------------------------------------
(* DynamoDB. *)

PostKeys == {"post", "post-week-stat", "post-year-stat", "post-decade-stat"}
ReactionKeys == {"reaction", "reaction-week-stat", "reaction-year-stat",
                 "reaction-decade-stat"}
Item == [key : PostKeys \cup ReactionKeys, at : Time \cup {0}]
Items(keys, times) == [key : keys, at : times]

\* The statistics extractPost writes when it finds no posts, one of each kind, at 0.
EmptyStats == Items(PostKeys \ {"post"}, {0})

\* Mutant: the keys of the reactions' statistics only.
RemovedKeys_NoRows == <<"post-week-stat", "post-year-stat", "post-decade-stat",
    "reaction-week-stat", "reaction-year-stat", "reaction-decade-stat", "post">>

\* The keys deleteUserData removes, in its order.
RemovedKeys == <<"post-week-stat", "post-year-stat", "post-decade-stat",
    "reaction-week-stat", "reaction-year-stat", "reaction-decade-stat",
    "post", "reaction">>

KeyItems(key) == {i \in table : i.key = key}

\* RemoveFBStat: the items of the first page of the query, by ascending timestamp.
FirstPage(key) ==
    {i \in KeyItems(key) :
        Cardinality({j \in KeyItems(key) : j.at < i.at}) < PageSize}

-----------------------------------------------------------------------------
(* Jobs. *)

TaskNames == {"parse_archive", "analyze_posts", "analyze_reactions",
              "extract_time_metadata", "delete_user_data"}
NoArchive == 0

\* A task remembers the registration it was sent in, which the code does not know.
Task == [name : TaskNames, on : Archive \cup {NoArchive}, gen : Nat]
NoTask == [name |-> "none", on |-> NoArchive, gen |-> 0]

StepsOf(name) ==
    CASE name = "parse_archive" -> {"read_range", "posts", "complex", "reactions", "media"}
      [] name = "analyze_posts" -> {"save_posts", "read_doc", "write_location"}
      [] name = "analyze_reactions" -> {"save_reactions"}
      [] name = "extract_time_metadata" -> {"read_posts", "read_reactions",
                                            "read_time_doc", "write_range"}
      [] name = "delete_user_data" -> {"remove", "remove_objects", "remove_account"}
      [] OTHER -> {"idle"}
FirstStep(name) ==
    CASE name = "parse_archive" -> "read_range"
      [] name = "analyze_posts" -> "save_posts"
      [] name = "analyze_reactions" -> "save_reactions"
      [] name = "extract_time_metadata" -> "read_posts"
      [] name = "delete_user_data" -> "remove"

\* range: the activity range a parse has read, or the bounds a time job has found so far;
\* placed: extractPost saw a location; doc: the document read; step: the next key to remove.
NoLocal == [range |-> [first |-> 0, last |-> 0], found |-> {}, placed |-> FALSE,
            doc |-> NewDoc, step |-> 1]
Local == [range : [first : Time \cup {0}, last : Time \cup {0}], found : SUBSET Time,
          placed : BOOLEAN, doc : Doc, step : 1..Len(RemovedKeys)]

NoEdit == [open |-> FALSE, gen |-> 0, doc |-> NewDoc]

TypeOK ==
    /\ account \in [exists : BOOLEAN, deleting : BOOLEAN, gen : Nat, doc : Doc]
    /\ posts \subseteq Time /\ reactions \subseteq Time
    /\ archives \subseteq Archive /\ parsed \subseteq Archive
    /\ table \subseteq Item
    /\ objects \subseteq (Archive \X {"archive", "media"})
    /\ left \in [Requests -> Nat] /\ uploaded \in 0..Uploads
    /\ registering \in Nat /\ flagging \in Nat
    /\ editing \in [open : BOOLEAN, gen : Nat, doc : Doc]
    /\ queue \in Seq(Task)
    /\ job \in [Worker -> Task \cup {NoTask}]
    /\ \A w \in Worker : pc[w] \in StepsOf(job[w].name)
    /\ local \in [Worker -> Local]
    /\ saved \in 0..Budget["edit"]
    /\ happened \subseteq AllFaults \cup {"mixed", "overlap", "late", "empty", "page", "dark"}

Init ==
    /\ account = [exists |-> FALSE, deleting |-> FALSE, gen |-> 0, doc |-> NewDoc]
    /\ posts = {} /\ reactions = {} /\ archives = {} /\ table = {} /\ objects = {}
    /\ left = Budget /\ uploaded = 0
    /\ registering = 0 /\ flagging = 0 /\ editing = NoEdit
    /\ queue = <<>>
    /\ job = [w \in Worker |-> NoTask]
    /\ pc = [w \in Worker |-> "idle"]
    /\ local = [w \in Worker |-> NoLocal]
    /\ saved = 0 /\ parsed = {} /\ happened = {}

-----------------------------------------------------------------------------
(* What the exceptions are about: bookkeeping of the model, not of the code. *)

Deleting == \E w \in Worker : job[w].name = "delete_user_data"

\* A job or handler of an earlier registration writes to this one.
Mixed(gen) == IF account.exists /\ account.gen # gen THEN {"mixed"} ELSE {}

\* Something is stored while the account is removed, or after.
Late == IF Deleting \/ ~account.exists THEN {"late"} ELSE {}

\* Somebody works on the metadata document.
Updating == editing.open \/ \E w \in Worker :
                pc[w] \in {"write_location", "read_reactions", "read_time_doc", "write_range"}
Overlap == IF Updating THEN {"overlap"} ELSE {}

Calm == Cardinality(happened) + Budget["edit"] - left["edit"] < MaxTrouble
MayFail(fault) == fault \in Faults \ happened /\ Calm

-----------------------------------------------------------------------------
(* Handlers. *)

Send(name, on, gen) == queue' = Append(queue, [name |-> name, on |-> on, gen |-> gen])
Spend(request) == left[request] > 0 /\ left' = [left EXCEPT ![request] = @ - 1]

\* accountRegister, QueryAccount; an account that exists ends the handler with 400 or 403.
RegisterLook ==
    /\ Spend("register") /\ ~account.exists
    /\ registering' = registering + 1
    /\ UNCHANGED <<pgVars, table, objects, uploaded, editing, flagging, jobVars, auxVars, happened>>

\* accountRegister, InsertAccount: the primary key refuses a second row.
RegisterInsert ==
    /\ registering > 0
    /\ registering' = registering - 1
    /\ IF account.exists
       THEN UNCHANGED <<account, auxVars>>
       ELSE /\ account' = [exists |-> TRUE, deleting |-> FALSE, doc |-> NewDoc,
                           gen |-> account.gen + 1]
            /\ saved' = 0 /\ parsed' = {}
    /\ UNCHANGED <<posts, reactions, archives, table, objects, uploaded, left, editing, flagging,
                   jobVars, happened>>

\* recognizeAccountMiddleware and the SELECT of UpdateAccountMetadata.  Nobody checks deleting.
EditRead ==
    /\ Calm /\ Spend("edit") /\ account.exists /\ ~editing.open
    /\ editing' = [open |-> TRUE, gen |-> account.gen, doc |-> account.doc]
    /\ happened' = happened \cup Overlap
    /\ UNCHANGED <<pgVars, table, objects, uploaded, registering, flagging, jobVars, auxVars>>

\* accountUpdateMetadata, the UPDATE: it finds no row if the account is gone.
EditWrite ==
    /\ editing.open
    /\ editing' = NoEdit
    /\ LET version == Budget["edit"] - left["edit"]
       IN IF account.exists
          THEN /\ account' = [account EXCEPT !.doc = Merge(editing.doc, [profile |-> version])]
               /\ saved' = version
          ELSE UNCHANGED <<account, saved>>
    /\ happened' = happened \cup Mixed(editing.gen)
    /\ UNCHANGED <<posts, reactions, archives, table, objects, uploaded, left, registering, flagging,
                   jobVars, parsed>>

\* uploadArchive, the upload and its acknowledgement (ArchivePipeline has the steps).
Upload ==
    /\ uploaded < Uploads /\ account.exists
    /\ uploaded' = uploaded + 1
    /\ archives' = archives \cup {uploaded'}
    /\ objects' = objects \cup {<<uploaded', "archive">>}
    /\ Send("parse_archive", uploaded', account.gen)
    /\ happened' = happened \cup Late
    /\ UNCHANGED <<account, posts, reactions, table, left, registering, editing, flagging,
                   job, pc, local, auxVars>>

\* accountDelete, the flag.
DeleteFlag ==
    /\ Spend("delete") /\ account.exists
    /\ account' = [account EXCEPT !.deleting = TRUE]
    /\ flagging' = flagging + 1
    /\ UNCHANGED <<posts, reactions, archives, table, objects, uploaded, registering, editing,
                   jobVars, auxVars, happened>>

\* accountDelete, SendTask; if it fails the handler answers 500 and the flag stays.
DeleteSend ==
    /\ flagging > 0
    /\ flagging' = flagging - 1
    /\ \/ Send("delete_user_data", NoArchive, account.gen) /\ UNCHANGED happened
       \/ /\ MayFail("enqueue")
          /\ happened' = happened \cup {"enqueue"}
          /\ UNCHANGED queue
    /\ UNCHANGED <<pgVars, table, objects, uploaded, left, registering, editing, job, pc, local, auxVars>>

\* adminAccountDelete, one account number, without the flag.
AdminDelete ==
    /\ Spend("delete") /\ account.exists
    /\ Send("delete_user_data", NoArchive, account.gen)
    /\ UNCHANGED <<pgVars, table, objects, uploaded, registering, editing, flagging, job, pc, local,
                   auxVars, happened>>

-----------------------------------------------------------------------------
(* The worker process. *)

At(w, step) == pc[w] = step
Goto(w, step, locals) ==
    /\ pc' = [pc EXCEPT ![w] = step]
    /\ local' = [local EXCEPT ![w] = locals]
    /\ UNCHANGED job
Finish(w) ==
    /\ pc' = [pc EXCEPT ![w] = "idle"]
    /\ job' = [job EXCEPT ![w] = NoTask]
    /\ local' = [local EXCEPT ![w] = NoLocal]

Start(w) ==
    /\ At(w, "idle") /\ queue # <<>>
    /\ job' = [job EXCEPT ![w] = Head(queue)]
    /\ pc' = [pc EXCEPT ![w] = FirstStep(Head(queue).name)]
    /\ queue' = Tail(queue)
    /\ happened' = happened \cup
           IF Head(queue).name = "extract_time_metadata" THEN Overlap ELSE {}
    /\ UNCHANGED <<pgVars, table, objects, apiVars, local, auxVars>>

\* ParseFacebookArchive, the rows of the archive and of the account and the range in its
\* metadata; both rows have to be there.
ReadRange(w) ==
    /\ At(w, "read_range")
    /\ IF account.exists /\ job[w].on \in archives
       THEN Goto(w, "posts", [local[w] EXCEPT !.range = [first |-> account.doc.first,
                                                         last |-> account.doc.last]])
       ELSE Finish(w)
    /\ UNCHANGED <<pgVars, table, objects, apiVars, queue, auxVars, happened>>

\* Rows of an account that is gone are refused by the foreign key, and a failed INSERT is only
\* reported, after which partial of the rows are there: either way the job goes on.
Insert(w, stored, new, partial, step) ==
    \/ /\ stored' = IF account.exists THEN stored \cup new ELSE stored
       /\ happened' = happened \cup Mixed(job[w].gen)
       /\ Goto(w, step, local[w])
    \/ /\ MayFail("insert") /\ account.exists /\ new # {}
       /\ \E some \in partial : stored' = stored \cup some
       /\ happened' = happened \cup Mixed(job[w].gen) \cup {"insert"}
       /\ Goto(w, step, local[w])

FreshPosts(w) == {t \in Posts[job[w].on] : Fresh(t, local[w].range)}

\* BulkInsert of the posts without attachments, one statement for 500 of them.
InsertPosts(w) ==
    /\ At(w, "posts")
    /\ Insert(w, posts, FreshPosts(w) \ Complex, {{}}, "complex")
    /\ UNCHANGED <<account, reactions, archives, table, objects, apiVars, queue, auxVars>>

\* The other posts, each by a statement of its own.
InsertComplex(w) ==
    /\ At(w, "complex")
    /\ LET new == FreshPosts(w) \cap Complex
       IN Insert(w, posts, new, SUBSET new \ {new}, "reactions")
    /\ UNCHANGED <<account, reactions, archives, table, objects, apiVars, queue, auxVars>>

InsertReactions(w) ==
    /\ At(w, "reactions")
    /\ Insert(w, reactions, Reactions[job[w].on], {{}}, "media")
    /\ UNCHANGED <<account, posts, archives, table, objects, apiVars, queue, auxVars>>

\* UploadDir of the media, and parseArchive's SendTask.  An omitted post that lies before
\* every known one is the exception called dark: the first activity was 0.
UploadMedia(w) ==
    /\ At(w, "media")
    /\ objects' = objects \cup {<<job[w].on, "media">>}
    /\ Send("analyze_posts", job[w].on, job[w].gen)
    /\ parsed' = IF job[w].on \in archives THEN parsed \cup {job[w].on} ELSE parsed
    /\ happened' = happened \cup Late \cup
           IF local[w].range.first = 0 /\ local[w].range.last > 0 THEN {"dark"} ELSE {}
    /\ Finish(w)
    /\ UNCHANGED <<pgVars, table, apiVars, saved>>

\* extractPost, the items and the statistics of all posts, or the empty statistics: those of
\* an account that is gone are the exception called empty.
SavePosts(w) ==
    /\ At(w, "save_posts")
    /\ IF posts = {}
       THEN /\ table' = table \cup EmptyStats
            /\ happened' = happened \cup IF Late = {} THEN {} ELSE {"empty"}
       ELSE /\ table' = table \cup Items(PostKeys, posts)
            /\ happened' = happened \cup Late
    /\ Goto(w, "read_doc", [local[w] EXCEPT !.placed = posts \cap Placed # {}])
    /\ UNCHANGED <<pgVars, objects, apiVars, queue, auxVars>>

\* The SELECT of UpdateAccountMetadata.  Without an account nothing is updated, which is no
\* error: extractPost sends the next task.
ReadDoc(w) ==
    /\ At(w, "read_doc")
    /\ IF account.exists
       THEN /\ Goto(w, "write_location", [local[w] EXCEPT !.doc = account.doc])
            /\ happened' = happened \cup Overlap
            /\ UNCHANGED queue
       ELSE /\ Send("analyze_reactions", job[w].on, job[w].gen)
            /\ Finish(w)
            /\ UNCHANGED happened
    /\ UNCHANGED <<pgVars, table, objects, apiVars, auxVars>>

UpdateDoc(w, update) ==
    account' = IF account.exists
               THEN [account EXCEPT !.doc = Merge(local[w].doc, update)] ELSE account

\* extractPost, the UPDATE, of an empty map too, and SendTask.
WriteLocation(w) ==
    /\ At(w, "write_location")
    /\ UpdateDoc(w, IF local[w].placed THEN [location |-> TRUE] ELSE <<>>)
    /\ Send("analyze_reactions", job[w].on, job[w].gen)
    /\ happened' = happened \cup Mixed(job[w].gen)
    /\ Finish(w)
    /\ UNCHANGED <<posts, reactions, archives, table, objects, apiVars, auxVars>>

\* extractReaction and the task it sends for the activity range.
SaveReactions(w) ==
    /\ At(w, "save_reactions")
    /\ table' = table \cup Items(ReactionKeys, reactions)
    /\ happened' = happened \cup IF reactions = {} THEN {} ELSE Late
    /\ Send("extract_time_metadata", NoArchive, job[w].gen)
    /\ Finish(w)
    /\ UNCHANGED <<pgVars, objects, apiVars, auxVars>>

\* extractTimeMetadata, the queries of the first and the last post, taken together ...
ReadPosts(w) ==
    /\ At(w, "read_posts")
    /\ Goto(w, "read_reactions", [local[w] EXCEPT !.found = posts])
    /\ happened' = happened \cup Overlap
    /\ UNCHANGED <<pgVars, table, objects, apiVars, queue, auxVars>>

\* ... and of the first and the last reaction.
ReadReactions(w) ==
    /\ At(w, "read_reactions")
    /\ Goto(w, "read_time_doc", [local[w] EXCEPT !.range = Range(local[w].found, reactions),
                                                 !.found = {}])
    /\ UNCHANGED <<pgVars, table, objects, apiVars, queue, auxVars, happened>>

ReadTimeDoc(w) ==
    /\ At(w, "read_time_doc")
    /\ IF account.exists
       THEN Goto(w, "write_range", [local[w] EXCEPT !.doc = account.doc])
       ELSE Finish(w)
    /\ UNCHANGED <<pgVars, table, objects, apiVars, queue, auxVars, happened>>

WriteRange(w) ==
    /\ At(w, "write_range")
    /\ UpdateDoc(w, local[w].range)
    /\ happened' = happened \cup Mixed(job[w].gen)
    /\ Finish(w)
    /\ UNCHANGED <<posts, reactions, archives, table, objects, apiVars, queue, auxVars>>

\* Mutant: an error ends the job.
RemoveStat_Stops(w) ==
    /\ At(w, "remove")
    /\ LET key == RemovedKeys[local[w].step]
           short == IF FirstPage(key) # KeyItems(key) THEN {"page"} ELSE {}
       IN \/ /\ table' = table \ FirstPage(key)
             /\ happened' = happened \cup short
             /\ IF local[w].step = Len(RemovedKeys)
                THEN Goto(w, "remove_objects", local[w])
                ELSE Goto(w, "remove", [local[w] EXCEPT !.step = @ + 1])
          \/ /\ MayFail("remove") /\ KeyItems(key) # {}
             /\ happened' = happened \cup short \cup {"remove"}
             /\ Finish(w)
             /\ UNCHANGED table
    /\ UNCHANGED <<pgVars, objects, apiVars, queue, auxVars>>

\* Mutant: the step after the last key is one more of them.
RemoveStat_OneMore(w) ==
    /\ At(w, "remove")
    /\ table' = table \ FirstPage(RemovedKeys[local[w].step])
    /\ IF local[w].step > Len(RemovedKeys)
       THEN Goto(w, "remove_objects", local[w])
       ELSE Goto(w, "remove", [local[w] EXCEPT !.step = @ + 1])
    /\ UNCHANGED <<pgVars, objects, apiVars, queue, auxVars, happened>>

\* deleteUserData, RemoveFBStat of one key after the other: it stops at a failed query or at the
\* first item it cannot delete.  The error is logged and the next key follows.
RemoveStat(w) ==
    /\ At(w, "remove")
    /\ LET key == RemovedKeys[local[w].step]
           short == IF FirstPage(key) # KeyItems(key) THEN {"page"} ELSE {}
       IN \/ /\ table' = table \ FirstPage(key)
             /\ happened' = happened \cup short
          \/ /\ MayFail("remove") /\ KeyItems(key) # {}
             /\ happened' = happened \cup short \cup {"remove"}
             /\ UNCHANGED table
    /\ IF local[w].step = Len(RemovedKeys)
       THEN Goto(w, "remove_objects", local[w])
       ELSE Goto(w, "remove", [local[w] EXCEPT !.step = @ + 1])
    /\ UNCHANGED <<pgVars, objects, apiVars, queue, auxVars>>

\* deleteUserData, the batch delete of what the listing of the prefix gives, or nothing if the
\* listing fails.
RemoveObjects(w) ==
    /\ At(w, "remove_objects")
    /\ \/ objects' = {} /\ UNCHANGED happened
       \/ /\ MayFail("remove") /\ objects # {}
          /\ happened' = happened \cup {"remove"}
          /\ UNCHANGED objects
    /\ Goto(w, "remove_account", local[w])
    /\ UNCHANGED <<pgVars, table, apiVars, queue, auxVars>>

\* deleteUserData, DeleteAccount: every table refers to the account with ON DELETE CASCADE.
\* The task succeeds whatever happened.
RemoveAccount(w) ==
    /\ At(w, "remove_account")
    /\ \/ /\ account' = [account EXCEPT !.exists = FALSE, !.deleting = FALSE, !.doc = NewDoc]
          /\ posts' = {} /\ reactions' = {} /\ archives' = {}
          /\ happened' = happened \cup Mixed(job[w].gen)
       \/ /\ MayFail("database")
          /\ happened' = happened \cup {"database"}
          /\ UNCHANGED pgVars
    /\ Finish(w)
    /\ UNCHANGED <<table, objects, apiVars, queue, auxVars>>

\* A call of a chain job fails and ends the chain, or the process dies with the task, which
\* can be the deletion too.
JobLost(w) ==
    /\ MayFail("job") /\ ~At(w, "idle")
    /\ happened' = happened \cup {"job"}
    /\ Finish(w)
    /\ UNCHANGED <<pgVars, table, objects, apiVars, queue, auxVars>>

JobStep(w) ==
    \/ Start(w)
    \/ ReadRange(w) \/ InsertPosts(w) \/ InsertComplex(w) \/ InsertReactions(w) \/ UploadMedia(w)
    \/ SavePosts(w) \/ ReadDoc(w) \/ WriteLocation(w)
    \/ SaveReactions(w)
    \/ ReadPosts(w) \/ ReadReactions(w) \/ ReadTimeDoc(w) \/ WriteRange(w)
    \/ RemoveStat(w) \/ RemoveObjects(w) \/ RemoveAccount(w)

Next ==
    \/ RegisterLook \/ RegisterInsert
    \/ EditRead \/ EditWrite
    \/ Upload
    \/ DeleteFlag \/ DeleteSend \/ AdminDelete
    \/ \E w \in Worker : JobStep(w) \/ JobLost(w)

Spec == Init /\ [][Next]_vars

-----------------------------------------------------------------------------
(* Properties. *)

\* Nothing is under way.
Quiet ==
    /\ queue = <<>> /\ \A w \in Worker : At(w, "idle")
    /\ registering = 0 /\ flagging = 0 /\ ~editing.open

Without(exceptions) == happened \cap exceptions = {}

AllPosts == UNION {Posts[a] : a \in Archive}

\* An archive is the whole history of the account up to some day, which is what the parser
\* relies on: what any archive has between an activity of one and an activity of another, one
\* of the two has.
Whole ==
    \A a, b \in Archive :
        \A x \in Posts[a] \cup Reactions[a], y \in Posts[b] \cup Reactions[b], t \in AllPosts :
            x <= t /\ t <= y => t \in Posts[a] \cup Posts[b]

\* Every post of an archive whose parse succeeded is in the database in the end, although the
\* parser leaves out what lies in the activity range, if archives are whole: the range was
\* computed from rows, whose archives have brought what lies between them.  Exceptions: a failed job or
\* INSERT leaves holes that the range then covers; a range that begins at 0 for want of
\* reactions covers every older post; a job of a deleted account works for its successor.
PostsKept ==
    Quiet /\ account.exists /\ Without({"job", "insert", "dark", "mixed"})
        => \A a \in parsed : Posts[a] \subseteq posts

\* Unless two updates of the metadata document overlap or a job fails, the document has the
\* client's last edit, the location, and the range of exactly the rows that are there, although
\* everybody writes all of it (UpdateAccountMetadata).
MetadataExact ==
    Quiet /\ account.exists /\ Without({"job", "overlap", "mixed"})
        => /\ account.doc.profile = saved
           /\ account.doc.location = (posts \cap Placed # {})
           /\ [first |-> account.doc.first, last |-> account.doc.last] = Range(posts, reactions)

\* Nothing of a deleted account is left in any of the stores (deleteUserData), unless something
\* was stored while or after it ran, a removal failed, or a key had more than a page of items.
\* An analysis that was queued before the deletion finds no posts, and leaves at most the empty
\* statistics, which say nothing of the account.
DeletedLeavesNothing ==
    Quiet /\ ~account.exists /\ Without({"late", "remove", "page"})
        => /\ IF "empty" \in happened THEN table \subseteq EmptyStats ELSE table = {}
           /\ objects = {} /\ posts = {} /\ reactions = {} /\ archives = {}

\* An account marked as under deletion, which its owner can neither register nor see, has its
\* deletion on the way (accountDelete), unless the task was lost or the row not removed: a
\* removal that fails elsewhere does not leave it like that.
DeletionInFlight ==
    account.exists /\ account.deleting /\ Without({"enqueue", "job", "database"})
        => \/ flagging > 0
           \/ \E i \in 1..Len(queue) : queue[i].name = "delete_user_data"
           \/ Deleting
=============================================================================
