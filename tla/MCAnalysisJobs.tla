--------------------------- MODULE MCAnalysisJobs ---------------------------
(* Small instances of AnalysisJobs, with times around the ends of periods. *)
EXTENDS AnalysisJobs

\* 1970-01-11; Thursday 2009-12-31, Friday 2010-01-01 and
\* Sunday 2010-01-03, three days of two weeks, years and decades.
Jan1970 == 864000
Thursday == 1262217600
Friday == 1262304000
Sunday == 1262476800

MCPost == {Jan1970, Thursday, Sunday}
MCReaction == {0, Thursday, Friday}
MCNow == Sunday + 5 * WeekSeconds
=============================================================================
