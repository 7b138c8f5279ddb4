----------------------------- MODULE ReadHandlers -----------------------------
(***************************************************************************)
(* The requests that read what the jobs have stored: lists of posts and       *)
(* reactions out of DynamoDB page by page (api/post.go, reaction.go and        *)
(* GetFBStat), which the export reads, too, lists of media and events and      *)
(* counts of posts and reactions out of the database.  The jobs of the same    *)
(* account go on meanwhile: there is no transaction around two queries.       *)
(*                                                                         *)
(* DynamoDB has one item per timestamp, the database may have several rows.     *)
(* The rows are those of the asking account and of another, posts or           *)
(* reactions where they are counted and media or events where they are listed. *)
(***************************************************************************)
EXTENDS Integers, Sequences, FiniteSets

CONSTANTS
    ReadMoment,   \* timestamps of items, and of the bounds of requests, after 0
    Limits,       \* limits that requests name
    DefaultLimit, \* 100
    MaxLimit,     \* 1000
    PageItems,    \* the most items in the megabyte that a page of DynamoDB holds
    Type,         \* values of a post's type or of a reaction; or what tells rows of one time apart
    CountedTypes, \* postTypes, reactionTypes
    MaxWrites     \* bound on the writes of the jobs

\* Timestamps are after 0 and finitely many; the limits of the server are not 0.
ASSUME ReadAssumption ==
    /\ ReadMoment \subseteq Nat \ {0} /\ IsFiniteSet(ReadMoment)
    /\ Limits \subseteq Int /\ DefaultLimit \in Nat \ {0} /\ MaxLimit \in Nat \ {0}
    /\ PageItems \in Nat \ {0} /\ MaxWrites \in Nat

VARIABLES
    items,      \* the account's items under one key, or its rows with a timestamp
    rows,       \* rows of all accounts: owner, at and type
    asking,     \* the request that is served
    pageLimit,  \* Limit of the query, 0 before there is one
    startKey,   \* ExclusiveStartKey, a timestamp, or NoKey
    list,       \* the items read so far, as they are answered
    found,      \* the rows of a list, as they are answered
    sysCount,   \* sys_avg by type
    ownCount,   \* count by type
    throughout, \* items that were there all through the request
    everThere,  \* items that were there at some time of it
    ownWrites,  \* the account's rows written since the first count
    writes

readVars == <<items, rows, asking, pageLimit, startKey, list, found, sysCount, ownCount,
              throughout, everThere, ownWrites, writes>>

Owner == {"self", "other"}
NoKey == 0
NoRequest == [kind |-> "none", from |-> 0, to |-> 0, limit |-> 0, step |-> "none"]
NoCounts == [t \in CountedTypes |-> 0]

TableKinds == {"posts", "export"}
RowKinds == {"media", "events"}
AnyRow == [owner : Owner, at : ReadMoment, type : Type]

ReadTypeOK ==
    /\ items \subseteq ReadMoment /\ throughout \subseteq items /\ everThere \subseteq ReadMoment
    /\ rows \subseteq AnyRow /\ found \in Seq(AnyRow)
    /\ asking \in [kind : TableKinds \cup RowKinds \cup {"none", "counts"}, from : Nat, to : Nat,
                   limit : Nat, step : {"none", "page", "own", "answered"}]
    /\ pageLimit \in Nat /\ startKey \in ReadMoment \cup {NoKey}
    /\ list \in Seq(ReadMoment)
    /\ sysCount \in [CountedTypes -> Nat] /\ ownCount \in [CountedTypes -> Nat]
    /\ ownWrites \subseteq AnyRow /\ writes \in 0..MaxWrites

ReadInit ==
    /\ items \in SUBSET ReadMoment /\ throughout = items /\ everThere = items
    /\ rows = {}
    /\ asking = NoRequest /\ pageLimit = 0 /\ startKey = NoKey /\ list = <<>> /\ found = <<>>
    /\ sysCount = NoCounts /\ ownCount = NoCounts /\ ownWrites = {} /\ writes = 0

-----------------------------------------------------------------------------
(* Lists. *)

\* The limit of a request, cut down or replaced.
LimitOf(limit) ==
    IF limit > MaxLimit THEN MaxLimit ELSE IF limit < 1 THEN DefaultLimit ELSE limit

\* BETWEEN has both bounds, the media are strictly between, the events have the lower one.
Within(kind, t, from, to) ==
    CASE kind \in TableKinds -> from <= t /\ t <= to
      [] kind = "media" -> from < t /\ t < to
      [] kind = "events" -> from <= t /\ t < to

InRange(t) == Within(asking.kind, t, asking.from, asking.to)

\* Newest first.
NewestFirst(S) ==
    CHOOSE s \in [1..Cardinality(S) -> S] : \A i, j \in DOMAIN s : i < j => s[i] > s[j]
Newest(S, n) ==
    LET sorted == NewestFirst(S)
    IN SubSeq(sorted, 1, IF n < Cardinality(S) THEN n ELSE Cardinality(S))

BeginRequest(request) ==
    /\ asking = NoRequest
    /\ asking' = request
    /\ throughout' = items /\ everThere' = items

\* getAllPosts, getAllReactions up to GetFBStat.
AskList(from, to, limit) ==
    /\ from < to
    /\ BeginRequest([kind |-> "posts", from |-> from, to |-> to, limit |-> LimitOf(limit), step |-> "page"])
    /\ pageLimit' = LimitOf(limit)
    /\ UNCHANGED <<items, rows, startKey, list, found, sysCount, ownCount, ownWrites, writes>>

\* The readers of the export: everything up to now, no limit, pages of 1000.
AskExport(now) ==
    /\ BeginRequest([kind |-> "export", from |-> 0, to |-> now, limit |-> 0, step |-> "page"])
    /\ pageLimit' = MaxLimit
    /\ UNCHANGED <<items, rows, startKey, list, found, sysCount, ownCount, ownWrites, writes>>

\* The sizes that a page of DynamoDB may have if there are enough items: it ends at its Limit, or
\* where a megabyte is full.
PageSizes == 1..(IF pageLimit < PageItems THEN pageLimit ELSE PageItems)

\* Mutant: the page begins with the key it should begin after.
NextPage_Inclusive(size) ==
    Newest({t \in items : InRange(t) /\ (startKey = NoKey \/ t <= startKey)}, size)

\* What a query returns.
NextPage(size) ==
    Newest({t \in items : InRange(t) /\ (startKey = NoKey \/ t < startKey)}, size)

\* LastEvaluatedKey: there is one if there are more items, and there may be one if there are none.
MayHaveMore(page) ==
    LET more == \E t \in items : InRange(t) /\ (page # <<>> => t < page[Len(page)])
                                 /\ (startKey # NoKey => t < startKey)
    IN IF more THEN {TRUE} ELSE IF page = <<>> THEN {FALSE} ELSE BOOLEAN

\* queryFBStatResult, a turn of the loop.
ReadPage ==
    /\ asking.step = "page"
    /\ \E size \in PageSizes : \E more \in MayHaveMore(NextPage(size)) :
           LET page == NextPage(size)
               data == list \o page
               over == asking.limit > 0 /\ Len(data) > asking.limit
               last == over \/ page = <<>> \/ ~more
           IN /\ list' = IF over THEN SubSeq(data, 1, asking.limit) ELSE data
              /\ IF last
                 THEN asking' = [asking EXCEPT !.step = "answered"] /\ UNCHANGED startKey
                 ELSE startKey' = page[Len(page)] /\ UNCHANGED asking
    /\ UNCHANGED <<items, rows, pageLimit, found, sysCount, ownCount, throughout, everThere,
                   ownWrites, writes>>

-----------------------------------------------------------------------------
(* Lists of rows. *)

\* Rows in the order of their time, newest first; those of one time in any order.
InTimeOrder(S) ==
    {s \in [1..Cardinality(S) -> S] :
        \A i, j \in DOMAIN s : i < j => s[i] # s[j] /\ s[i].at >= s[j].at}

\* LIMIT may cut between rows of one time.
FirstRows(S, n) ==
    {SubSeq(s, 1, IF n < Cardinality(S) THEN n ELSE Cardinality(S)) : s \in InTimeOrder(S)}

\* getAllPostMedia, getAllEvents: one statement.
AskRows(kind, from, to, limit) ==
    /\ from < to
    /\ BeginRequest([kind |-> kind, from |-> from, to |-> to, limit |-> LimitOf(limit), step |-> "answered"])
    /\ found' \in FirstRows({r \in rows : r.owner = "self" /\ Within(kind, r.at, from, to)}, LimitOf(limit))
    /\ UNCHANGED <<items, rows, pageLimit, startKey, list, sysCount, ownCount, ownWrites, writes>>

-----------------------------------------------------------------------------
(* Counts. *)

\* GROUP BY the type, of which the handler takes the ones it knows; both bounds are strict.
CountOf(owners, from, to) ==
    [t \in CountedTypes |->
        Cardinality({r \in rows : r.owner \in owners /\ r.type = t /\ from < r.at /\ r.at < to})]

\* postsCountStats, reactionsCountStats: the count over all accounts ...
AskCounts(from, to) ==
    /\ from <= to
    /\ BeginRequest([kind |-> "counts", from |-> from, to |-> to, limit |-> 0, step |-> "own"])
    /\ sysCount' = CountOf(Owner, from, to)
    /\ ownWrites' = {}
    /\ UNCHANGED <<items, rows, pageLimit, startKey, list, found, ownCount, writes>>

\* Mutant: the second count has the lower bound, too.
CountOwn_Inclusive ==
    /\ asking.step = "own"
    /\ asking' = [asking EXCEPT !.step = "answered"]
    /\ ownCount' = [t \in CountedTypes |->
           Cardinality({r \in rows : r.owner = "self" /\ r.type = t
                                     /\ asking.from <= r.at /\ r.at < asking.to})]
    /\ UNCHANGED <<items, rows, pageLimit, startKey, list, found, sysCount, throughout, everThere,
                   ownWrites, writes>>

\* ... and the one over the account.
CountOwn ==
    /\ asking.step = "own"
    /\ asking' = [asking EXCEPT !.step = "answered"]
    /\ ownCount' = CountOf({"self"}, asking.from, asking.to)
    /\ UNCHANGED <<items, rows, pageLimit, startKey, list, found, sysCount, throughout, everThere,
                   ownWrites, writes>>

-----------------------------------------------------------------------------
(* The jobs: items are stored and, when an account is deleted, removed. *)

StoreItem(t) ==
    /\ writes < MaxWrites /\ writes' = writes + 1
    /\ items' = items \cup {t} /\ everThere' = everThere \cup {t}
    /\ UNCHANGED <<rows, asking, pageLimit, startKey, list, found, sysCount, ownCount, throughout,
                   ownWrites>>

RemoveItem(t) ==
    /\ writes < MaxWrites /\ writes' = writes + 1
    /\ items' = items \ {t} /\ throughout' = throughout \ {t}
    /\ UNCHANGED <<rows, asking, pageLimit, startKey, list, found, sysCount, ownCount, everThere,
                   ownWrites>>

InsertRow(row) ==
    /\ writes < MaxWrites /\ writes' = writes + 1
    /\ rows' = rows \cup {row}
    /\ ownWrites' = IF row.owner = "self" /\ row \notin rows THEN ownWrites \cup {row} ELSE ownWrites
    /\ UNCHANGED <<items, asking, pageLimit, startKey, list, found, sysCount, ownCount, throughout,
                   everThere>>

DeleteRows(owner) ==
    /\ writes < MaxWrites /\ writes' = writes + 1
    /\ rows' = {r \in rows : r.owner # owner}
    /\ UNCHANGED <<items, asking, pageLimit, startKey, list, found, sysCount, ownCount, throughout,
                   everThere, ownWrites>>

\* The items are written to while a list is read; before, they are any.
ListNext ==
    \/ \E from, to \in ReadMoment, limit \in Limits : AskList(from, to, limit)
    \/ \E now \in ReadMoment : AskExport(now)
    \/ ReadPage
    \/ asking.step = "page" /\ \E t \in ReadMoment : StoreItem(t) \/ RemoveItem(t)

\* The rows are written to before they are listed, and before and while they are counted.
CountNext ==
    \/ \E kind \in RowKinds, from, to \in ReadMoment, limit \in Limits : AskRows(kind, from, to, limit)
    \/ \E from, to \in ReadMoment : AskCounts(from, to)
    \/ CountOwn
    \/ /\ asking.step \in {"none", "own"}
       /\ \/ \E row \in AnyRow : InsertRow(row)
          \/ \E owner \in Owner : DeleteRows(owner)

ReadNext == ListNext \/ CountNext

ReadSpec == ReadInit /\ [][ReadNext]_readVars

-----------------------------------------------------------------------------
(* Properties. *)

Answered == asking.step = "answered"
Listed == {list[i] : i \in DOMAIN list}

\* A list is in the order of time, newest first, without repetition, within the bounds and the
\* limit, and shows only what was there during the request, although it is put together from
\* pages between which jobs store and remove (queryFBStatResult).
ListOrdered ==
    Answered =>
        /\ \A i, j \in DOMAIN list : i < j => list[i] > list[j]
        /\ \A t \in Listed : InRange(t) /\ t \in everThere
        /\ asking.limit > 0 => Len(list) <= asking.limit

\* What was there all through the request is in the list, unless the list is full of newer
\* items: no page boundary swallows an item, though pages are cut by the limit, by their size
\* and by changes under way.
ListComplete ==
    Answered /\ asking.kind \in TableKinds =>
        \A t \in throughout : InRange(t) =>
            \/ t \in Listed
            \/ /\ asking.limit > 0 /\ Len(list) = asking.limit
               /\ \A i \in DOMAIN list : list[i] > t

\* A list of media or events has rows of the account only, each once, newest first, and what it
\* leaves out of those in its bounds is not newer than anything it has, and only if it is full: of
\* rows of one time it may have some and not others (getAllPostMedia orders by the post's time).
RowsListed ==
    Answered /\ asking.kind \in RowKinds =>
        /\ Len(found) <= asking.limit
        /\ \A i, j \in DOMAIN found : i < j => found[i] # found[j] /\ found[i].at >= found[j].at
        /\ \A i \in DOMAIN found : found[i] \in rows /\ found[i].owner = "self" /\ InRange(found[i].at)
        /\ \A r \in rows : r.owner = "self" /\ InRange(r.at) =>
               \/ \E i \in DOMAIN found : found[i] = r
               \/ Len(found) = asking.limit /\ \A i \in DOMAIN found : found[i].at >= r.at

\* Together: a list is exactly what it should be of what stayed, with nothing that never was.
ListExact == ListOrdered /\ ListComplete /\ RowsListed

\* Nobody has more posts or reactions of a type than all accounts together, unless they came
\* between the two queries, which the handlers put in this order (postsCountStats).
CountsCover ==
    Answered /\ asking.kind = "counts" =>
        \A t \in CountedTypes :
            ownCount[t] <= sysCount[t] + Cardinality({r \in ownWrites : r.type = t})
=============================================================================
