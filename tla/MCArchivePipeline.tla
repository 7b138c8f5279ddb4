------------------------- MODULE MCArchivePipeline -------------------------
(* Small instances of ArchivePipeline: one account, one or two archives. *)
EXTENDS ArchivePipeline, TLC

CONSTANTS user, a1, a2, p1, p2, r1, r2

MCOwner == [a \in Archive |-> user]

\* a1 and a2 bring a post and a reaction each.
MCContent == [a \in Archive |-> IF a = a1 THEN {p1, r1} ELSE {p2, r2}]
\* ... or both the same post, as overlapping archives of one account do.
MCShared == [a \in Archive |-> IF a = a1 THEN {p1, r1} ELSE {p1, r2}]
MCNothing == [a \in Archive |-> {}]
MCPosts == [a \in Archive |-> IF a = a1 THEN {p1} ELSE {p2}]

\* a1 is uploaded by the client, a2 is fetched from a link.
MCMixedFlow == [a \in Archive |-> IF a = a1 THEN "direct" ELSE "url"]
MCUrlFlow == [a \in Archive |-> "url"]

MCFacebook == [a \in Archive |-> "facebook"]
MCMixedType == [a \in Archive |-> IF a = a1 THEN "facebook" ELSE "other"]

\* S3 events per object: an uploaded one is announced once or twice, and one
\* that downloadArchive puts into the bucket is announced as well.
MCOnce == [a \in Archive |-> 1]
MCTwice == [a \in Archive |-> 2]

\* Workers are interchangeable: used by the runs that check safety only.
WorkerSymmetry == Permutations(Worker)
=============================================================================
