----------------------------- MODULE ArchiveImport -----------------------------
(***************************************************************************)
(* How ParseFacebookArchive brings friends, complex posts and comments with   *)
(* their tags, media and places into the database, and the media into the      *)
(* bucket (background/parser/facebook.go).  There is no transaction: each row  *)
(* is a statement of its own, whose error is reported and passed over, and two  *)
(* archives of one account may be parsed at once.                           *)
(*                                                                         *)
(* A file's path decides its key in the bucket: DirectoryIterator cuts it off   *)
(* where the name of the directory occurs in it again.                       *)
(***************************************************************************)
EXTENDS Naturals, Sequences, FiniteSets

CONSTANTS
    Parse,       \* parse_archive tasks of one account, each of an archive of its own
    FriendTime,  \* [Parse -> timestamp of each name in friends.json, of the first if it is there twice]
    Entries,     \* [Parse -> complex posts and comments, in order, of [kind, at, items]]
    MediaFiles,  \* [Parse -> files of photos_and_videos, in the order of Walk]
    Ranges,      \* activity ranges that a parser may find in the account, of [first, last]
    Nested,      \* files with the directory's name in their path below it
    ImportFaults \* "call", "invalid", "open": a statement or upload, a file's content, opening a file

\* Entries and files are sequences, and a complex entry has tags, media or places.  A friend
\* listed has a timestamp in seconds, one that a parser makes has one in nanoseconds, for which
\* the parser stands.
ASSUME EntriesAssumption ==
    \A p \in Parse :
        /\ Len(Entries[p]) \in Nat /\ DOMAIN Entries[p] = 1..Len(Entries[p])
        /\ \A name \in DOMAIN FriendTime[p] : FriendTime[p][name] \notin Parse
        /\ Len(MediaFiles[p]) \in Nat /\ DOMAIN MediaFiles[p] = 1..Len(MediaFiles[p])
        /\ \A n \in DOMAIN Entries[p] :
               LET entry == Entries[p][n]
               IN /\ entry.kind \in {"post", "comment"}
                  /\ Len(entry.items) \in Nat \ {0} /\ DOMAIN entry.items = 1..Len(entry.items)
                  /\ \A i \in DOMAIN entry.items : entry.items[i].kind \in {"tag", "media", "place"}

VARIABLES
    friends,  \* rows of facebook_friend: name and timestamp, or the parser that has made it
    entries,  \* rows of facebook_post and facebook_comment: kind and at
    tags,     \* rows of facebook_tag: of (the post), friend
    media,    \* uri of each row of facebook_postmedia and _commentmedia: [[of, at, index] -> uri]
    places,   \* rows of facebook_place, by post
    bucket,   \* keys in the bucket: archive and path
    local,    \* each parser's variables
    trouble,  \* parses in which a call failed
    overlap   \* two parses have run at once

importVars == <<friends, entries, tags, media, places, bucket, local, trouble, overlap>>

NoEntry == [kind |-> "none", at |-> 0]
NoRange == [first |-> 0, last |-> 0]
Idle == [step |-> "idle", entry |-> 1, item |-> 1, id |-> NoEntry, known |-> <<>>, found |-> FALSE,
         range |-> NoRange]

ImportInit ==
    /\ friends = {} /\ entries = {} /\ tags = {} /\ media = <<>> /\ places = {} /\ bucket = {}
    /\ local = [p \in Parse |-> Idle]
    /\ trouble = {} /\ overlap = FALSE

-----------------------------------------------------------------------------
Over(p) == local[p].step \in {"done", "failed"}
Running(p) == local[p].step # "idle" /\ ~Over(p)

At(p, step) == local[p].step = step
Goto(p, step) == local' = [local EXCEPT ![p].step = step]

Current(p) == Entries[p][local[p].entry]
Item(p) == Current(p).items[local[p].item]

\* The step that an item begins with.
StepOf(item) == CASE item.kind = "tag" -> "tag" [] item.kind = "media" -> "look_media"
                  [] item.kind = "place" -> "place"

HasTags(entry) == \E i \in DOMAIN entry.items : entry.items[i].kind = "tag"

\* The step after the last entry and before the next: a file of another kind is validated first.
EntryStep(p, n) ==
    IF n > Len(Entries[p]) THEN "upload"
    ELSE IF n > 1 /\ Entries[p][n].kind # Entries[p][n - 1].kind THEN "validate" ELSE "create"

\* An entry is over.
NextEntry(p) ==
    LET n == local[p].entry + 1
    IN local' = [local EXCEPT ![p] = [Idle EXCEPT !.entry = n, !.step = EntryStep(p, n),
                                                  !.range = local[p].range]]

\* An item is over, well or not.
NextItem(p) ==
    LET next == local[p].item + 1
    IN IF next <= Len(Current(p).items)
       THEN local' = [local EXCEPT ![p].item = next, ![p].found = FALSE,
                                   ![p].step = StepOf(Current(p).items[next])]
       ELSE NextEntry(p)

\* A call fails: the error is captured, and the parser goes on with the next item.
Passed(p) == "call" \in ImportFaults /\ trouble' = trouble \cup {p} /\ NextItem(p)

-----------------------------------------------------------------------------
\* The parser reads the account's activity range, whatever it is by then.
BeginParse(p) ==
    /\ At(p, "idle")
    /\ \E range \in Ranges : local' = [local EXCEPT ![p].step = "friends", ![p].range = range]
    /\ overlap' = (overlap \/ \E q \in Parse : Running(q))
    /\ UNCHANGED <<friends, entries, tags, media, places, bucket, trouble>>

\* What the friends of an archive bring: for each timestamp that no row has, one of the friends
\* listed under it, the first in the file.
NewFriends(p) ==
    LET open == {f \in {<<name, FriendTime[p][name]>> : name \in DOMAIN FriendTime[p]} :
                    \A g \in friends : g[2] # f[2]}
    IN {new \in SUBSET open :
           /\ \A f, g \in new : f[2] = g[2] => f = g
           /\ \A f \in open : \E g \in new : g[2] = f[2]}

\* The bulk insert, ON CONFLICT DO NOTHING; when it fails parsing stops.
InsertFriends(p) ==
    /\ At(p, "friends")
    /\ \/ (\E new \in NewFriends(p) : friends' = friends \cup new) /\ Goto(p, "validate")
       \/ "call" \in ImportFaults /\ Goto(p, "failed") /\ UNCHANGED friends
    /\ UNCHANGED <<entries, tags, media, places, bucket, trouble, overlap>>

\* Extract, SelectFiles, Validate and Unmarshal of the next file, and the simple posts or
\* comments in it: when those cannot be inserted, a file of comments is left.
Validate(p) ==
    /\ At(p, "validate")
    /\ LET first == local[p].entry
       IN \/ Goto(p, IF first > Len(Entries[p]) THEN "upload" ELSE "create") /\ UNCHANGED trouble
          \/ "invalid" \in ImportFaults /\ Goto(p, "failed") /\ UNCHANGED trouble
          \/ /\ "call" \in ImportFaults /\ first <= Len(Entries[p]) /\ Current(p).kind = "comment"
             /\ Goto(p, "upload") /\ trouble' = trouble \cup {p}
    /\ UNCHANGED <<friends, entries, tags, media, places, bucket, overlap>>

\* The entry is created with the id it has or gets.
Created(p, id) ==
    LET entry == Current(p)
    IN local' = [local EXCEPT ![p].id = id,
                     ![p].step = IF HasTags(entry) THEN "read_friends" ELSE StepOf(entry.items[1])]

Row(entry) == [kind |-> entry.kind, at |-> entry.at]

\* The posts within the activity range.
Omitted(p, n) ==
    LET entry == Entries[p][n]
    IN entry.kind = "post" /\ local[p].range.first <= entry.at /\ entry.at <= local[p].range.last

\* RawPosts.ORM leaves a post out.
Omit(p) ==
    /\ At(p, "create") /\ Omitted(p, local[p].entry)
    /\ NextEntry(p)
    /\ UNCHANGED <<friends, entries, tags, media, places, bucket, trouble, overlap>>

\* Mutant: an entry that is there stays as it is, and no id is returned.
Create_DoNothing(p) ==
    /\ At(p, "create") /\ ~Omitted(p, local[p].entry)
    /\ entries' = entries \cup {Row(Current(p))}
    /\ Created(p, IF Row(Current(p)) \in entries THEN NoEntry ELSE Row(Current(p)))
    /\ UNCHANGED <<friends, tags, media, places, bucket, trouble, overlap>>

\* ON CONFLICT DO UPDATE, which returns the id of the row that is there.  After an error the id
\* is one without a row.
Create(p) ==
    /\ At(p, "create") /\ ~Omitted(p, local[p].entry)
    /\ \/ entries' = entries \cup {Row(Current(p))} /\ Created(p, Row(Current(p))) /\ UNCHANGED trouble
       \/ "call" \in ImportFaults /\ Created(p, NoEntry) /\ trouble' = trouble \cup {p} /\ UNCHANGED entries
    /\ UNCHANGED <<friends, tags, media, places, bucket, overlap>>

\* The friends by name; of two with a name, either.  After an error there are none.
ReadFriends(p) ==
    /\ At(p, "read_friends")
    /\ \E known \in {k \in [{f[1] : f \in friends} -> friends] : \A name \in DOMAIN k : k[name][1] = name}
              \cup (IF "call" \in ImportFaults THEN {<<>>} ELSE {}) :
           /\ local' = [local EXCEPT ![p].known = known, ![p].step = StepOf(Current(p).items[1])]
           /\ trouble' = IF DOMAIN known = {f[1] : f \in friends} THEN trouble ELSE trouble \cup {p}
    /\ UNCHANGED <<friends, entries, tags, media, places, bucket, overlap>>

\* Mutant: a friend who is not among those read is made.
Tag_Create(p) ==
    /\ At(p, "tag")
    /\ Goto(p, IF Item(p).name \in DOMAIN local[p].known THEN "insert_tag" ELSE "make_friend")
    /\ UNCHANGED <<friends, entries, tags, media, places, bucket, trouble, overlap>>

\* A tag's friend: known, or looked for, which is the SELECT of FirstOrCreate.
Tag(p) ==
    /\ At(p, "tag")
    /\ LET name == Item(p).name
           same == {f \in friends : f[1] = name}
       IN \/ name \in DOMAIN local[p].known /\ Goto(p, "insert_tag") /\ UNCHANGED trouble
          \/ /\ name \notin DOMAIN local[p].known
             /\ IF same = {} THEN Goto(p, "make_friend")
                ELSE \E f \in same :
                        local' = [local EXCEPT ![p].step = "insert_tag",
                                      ![p].known = [n \in DOMAIN @ \cup {name} |->
                                                       IF n = name THEN f ELSE @[n]]]
             /\ UNCHANGED trouble
          \/ name \notin DOMAIN local[p].known /\ Passed(p)
    /\ UNCHANGED <<friends, entries, tags, media, places, bucket, overlap>>

\* The INSERT of FirstOrCreate.  Its timestamp is the time of day in nanoseconds, so nothing conflicts
\* with it.
MakeFriend(p) ==
    /\ At(p, "make_friend")
    /\ LET friend == <<Item(p).name, p>>
       IN \/ /\ friends' = friends \cup {friend}
             /\ local' = [local EXCEPT ![p].step = "insert_tag",
                              ![p].known = [n \in DOMAIN @ \cup {friend[1]} |->
                                               IF n = friend[1] THEN friend ELSE @[n]]]
             /\ UNCHANGED trouble
          \/ Passed(p) /\ UNCHANGED friends
    /\ UNCHANGED <<entries, tags, media, places, bucket, overlap>>

\* Mutant: the table of tags does not refer to that of posts.
InsertTag_NoKey(p) ==
    /\ At(p, "insert_tag")
    /\ tags' = tags \cup {[of |-> local[p].id, friend |-> local[p].known[Item(p).name]]}
    /\ NextItem(p)
    /\ UNCHANGED <<friends, entries, media, places, bucket, trouble, overlap>>

\* A tag of a post that is not there violates the foreign key; one that is there stays.
InsertTag(p) ==
    /\ At(p, "insert_tag")
    /\ \/ /\ tags' = IF local[p].id = NoEntry THEN tags
                     ELSE tags \cup {[of |-> local[p].id, friend |-> local[p].known[Item(p).name]]}
          /\ NextItem(p) /\ UNCHANGED trouble
       \/ Passed(p) /\ UNCHANGED tags
    /\ UNCHANGED <<friends, entries, media, places, bucket, overlap>>

MediaKey(p) == [of |-> local[p].id, at |-> Item(p).at, index |-> Item(p).index]

\* The SELECT by timestamp, index and entry.  After an error the medium has no entry, and is refused.
LookMedia(p) ==
    /\ At(p, "look_media")
    /\ \/ local' = [local EXCEPT ![p].step = "save_media", ![p].found = MediaKey(p) \in DOMAIN media]
          /\ UNCHANGED trouble
       \/ Passed(p)
    /\ UNCHANGED <<friends, entries, tags, media, places, bucket, overlap>>

\* Mutant: the row is looked for in all entries of the account.
SaveMedia_AnyEntry(p) ==
    /\ At(p, "save_media")
    /\ LET key == MediaKey(p)
           others == {k \in DOMAIN media : k.at = key.at /\ k.index = key.index}
           row == IF others # {} THEN CHOOSE k \in others : TRUE ELSE key
       IN media' = [k \in DOMAIN media \cup {row} |-> IF k = row THEN <<p, Item(p).file>> ELSE media[k]]
    /\ NextItem(p)
    /\ UNCHANGED <<friends, entries, tags, places, bucket, trouble, overlap>>

\* Save: an update of the row that was found; otherwise an INSERT, that does nothing if another
\* parser has been faster.
SaveMedia(p) ==
    /\ At(p, "save_media")
    /\ LET key == MediaKey(p)
           uri == <<p, Item(p).file>>
       IN \/ /\ media' = IF key.of = NoEntry \/ (key \in DOMAIN media /\ ~local[p].found) THEN media
                         ELSE [k \in DOMAIN media \cup {key} |-> IF k = key THEN uri ELSE media[k]]
             /\ NextItem(p) /\ UNCHANGED trouble
          \/ Passed(p) /\ UNCHANGED media
    /\ UNCHANGED <<friends, entries, tags, places, bucket, overlap>>

\* One place for a post.
InsertPlace(p) ==
    /\ At(p, "place")
    /\ \/ /\ places' = IF local[p].id = NoEntry THEN places ELSE places \cup {local[p].id}
          /\ NextItem(p) /\ UNCHANGED trouble
       \/ Passed(p) /\ UNCHANGED places
    /\ UNCHANGED <<friends, entries, tags, media, bucket, overlap>>

\* UploadObject: the part of the path up to the directory's name, if it occurs in it again.
KeyOf(file) == IF file \in Nested THEN "stem" ELSE file

\* Mutant: Next takes the file after the one it looks at.
UploadFile_SkipsFirst(p) ==
    /\ At(p, "upload")
    /\ IF local[p].item > Len(MediaFiles[p]) THEN Goto(p, "done") /\ UNCHANGED bucket
       ELSE /\ local' = [local EXCEPT ![p].item = @ + 1]
            /\ bucket' = IF local[p].item = 1 THEN bucket
                         ELSE bucket \cup {<<p, KeyOf(MediaFiles[p][local[p].item])>>}
    /\ UNCHANGED <<friends, entries, tags, media, places, trouble, overlap>>

\* UploadDir, a file at a time.  A file that cannot be uploaded is passed over, one that cannot
\* be opened ends the iteration; the parser has done its task all the same.
UploadFile(p) ==
    /\ At(p, "upload")
    /\ IF local[p].item > Len(MediaFiles[p]) THEN Goto(p, "done") /\ UNCHANGED <<bucket, trouble>>
       ELSE \/ /\ local' = [local EXCEPT ![p].item = @ + 1]
               /\ \/ bucket' = bucket \cup {<<p, KeyOf(MediaFiles[p][local[p].item])>>} /\ UNCHANGED trouble
                  \/ "call" \in ImportFaults /\ trouble' = trouble \cup {p} /\ UNCHANGED bucket
            \/ /\ "open" \in ImportFaults
               /\ Goto(p, "done") /\ trouble' = trouble \cup {p} /\ UNCHANGED bucket
    /\ UNCHANGED <<friends, entries, tags, media, places, overlap>>

ImportNext ==
    \E p \in Parse :
        \/ BeginParse(p) \/ InsertFriends(p) \/ Validate(p) \/ Omit(p) \/ Create(p)
        \/ ReadFriends(p) \/ Tag(p) \/ MakeFriend(p) \/ InsertTag(p)
        \/ LookMedia(p) \/ SaveMedia(p) \/ InsertPlace(p) \/ UploadFile(p)

ImportSpec == ImportInit /\ [][ImportNext]_importVars

-----------------------------------------------------------------------------
(* Properties. *)

ImportTypeOK ==
    /\ \A t \in tags : t.of \in entries /\ t.friend \in friends
    /\ \A k \in DOMAIN media : k.of \in entries
    /\ places \subseteq entries
    /\ trouble \subseteq Parse /\ overlap \in BOOLEAN
    /\ \A p \in Parse : local[p].entry \in 1..(Len(Entries[p]) + 1) /\ local[p].item \in Nat

\* Archives that are in without a failed call, and what they bring.
Imported == {p \in Parse : At(p, "done") /\ p \notin trouble}

ItemsIn(entry, kind) ==
    {[of |-> Row(entry), item |-> entry.items[i]] :
        i \in {j \in DOMAIN entry.items : entry.items[j].kind = kind}}
ItemsOf(p, kind) == UNION {ItemsIn(Entries[p][n], kind) : n \in DOMAIN Entries[p]}

\* Those of entries that the activity range does not leave out.
Brought(p, kind) ==
    UNION {ItemsIn(Entries[p][n], kind) : n \in {m \in DOMAIN Entries[p] : ~Omitted(p, m)}}

\* Of an archive that is in without a failed call, every tag of every post that the activity
\* range does not leave out is in the database, with a friend of its name, whichever archive has
\* brought the post and the friend, and though they are looked for and inserted by two jobs at once.
TagsStored ==
    \A p \in Imported : \A tag \in Brought(p, "tag") :
        \E row \in tags : row.of = tag.of /\ row.friend[1] = tag.item.name

\* All archives list the friend under one timestamp, and nobody else under it.
ListedAlike(name) ==
    \A p, q \in Parse :
        /\ name \in DOMAIN FriendTime[p]
        /\ \A other \in DOMAIN FriendTime[q] : FriendTime[q][other] = FriendTime[p][name] <=> other = name

\* A friend is tagged twice in a post only if the lists differ, so that the name has a row for
\* each of its timestamps, or has lost its own to another name and one had to be made for a tag;
\* a name that is in no list at all gets two rows only when two archives are parsed at once
\* (FriendORM's index, FirstOrCreate).
TagOnce ==
    \A s, t \in tags :
        LET name == s.friend[1]
            listing == {p \in Parse : name \in DOMAIN FriendTime[p]}
        IN s.of = t.of /\ t.friend[1] = name =>
               \/ s = t
               \/ ~ListedAlike(name) /\ (overlap \/ listing # {})

\* Together: the tags are in, and once.
TagsExact == TagsStored /\ TagOnce

\* A medium of an archive that is in without a failed call, of an entry that the activity range
\* does not leave out, has its row under its entry, time and index, and the file in it is one
\* that an archive has for just these.
MediaKept ==
    \A p \in Imported : \A m \in Brought(p, "media") :
        LET key == [of |-> m.of, at |-> m.item.at, index |-> m.item.index]
        IN key \in DOMAIN media /\
           \E q \in Parse : \E n \in ItemsOf(q, "media") :
               /\ [of |-> n.of, at |-> n.item.at, index |-> n.item.index] = key
               /\ media[key] = <<q, n.item.file>>

\* The file that a medium's row names is in the bucket once its archive is in without a failed
\* call, unless its path has the directory's name in it twice; a row whose archive failed
\* afterwards, or was in when its upload failed, names a file that never comes.
MediaHasObject ==
    \A key \in DOMAIN media :
        media[key][1] \in Imported /\ media[key][2] \notin Nested => media[key] \in bucket
=============================================================================
