--------------------------- MODULE MCAccountData ---------------------------
(***************************************************************************)
(* Two archives of one account number, the second of which brings a post     *)
(* older and one newer than the first, a registration too many, an edit, a    *)
(* deletion.                                                               *)
(***************************************************************************)
EXTENDS AccountData, TLC

CONSTANTS w1, w2

MCTime == 1..3
MCPosts == <<{2}, {1, 2, 3}>>
MCReactions == <<{2}, {2}>>
MCComplex == {3}
MCPlaced == {1}
MCBudget == [register |-> 2, edit |-> 1, delete |-> 1]

ASSUME ArchivesAreWhole == Whole

WorkerSymmetry == Permutations(Worker)
=============================================================================
