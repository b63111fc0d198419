--------------------------- MODULE MCContradiction ---------------------------
(* Bounded instances of the contradiction detector.                          *)
EXTENDS Contradiction

Still == [jobs |-> {}, edited |-> {}, statuses |-> {}, removed |-> {}]

\* Both paths of the middle memory while the oldest one is deleted and a user
\* sets a mark; three mutually conflicting memories at once; two detections, a
\* retraction and an edit around one row.
MCWorlds ==
  {[Still EXCEPT !.jobs = {<<"A", 2>>, <<"C", 2>>}, !.statuses = {"conflicted"}, !.removed = {1}],
   [Still EXCEPT !.jobs = {<<"A", 1>>, <<"A", 2>>, <<"A", 3>>}],
   [Still EXCEPT !.jobs = {<<"A", 2>>, <<"A", 3>>, <<"C", 3>>}, !.edited = {3}]}
\* Both paths of the newest memory.
MCTopBoth == {[Still EXCEPT !.jobs = {<<"A", 3>>, <<"C", 3>>}]}
MCJobs == Paths \X Mem
=============================================================================
