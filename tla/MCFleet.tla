------------------------------ MODULE MCFleet ------------------------------
(* Small instances of the fleet and the interviewer, one scene each.        *)
EXTENDS Interview

Scene(ver, orders, faults, time, n) ==
  [ver |-> ver, orders |-> orders, faults |-> faults, time |-> time, cmds |-> n, deletes |-> 0,
   events |-> 0, overlap |-> TRUE, beats |-> 2, interviewer |-> FALSE]

Asked(events, beats, faults) ==
  [Scene(4, <<>>, faults, 1, 2) EXCEPT !.events = events, !.overlap = FALSE, !.beats = beats,
                                    !.interviewer = TRUE]

MCScenes ==
  {\* an outdated node is upgraded, heartbeats overlap, one failure
   Scene(2, <<>>, 1, 3, 2),
   \* two failures over the whole attempt window, one heartbeat at a time
   [Scene(2, <<>>, 2, 4, 3) EXCEPT !.beats = 1],
   \* an operator's deploy against the automatic one
   [Scene(2, <<"deploy">>, 2, 2, 2) EXCEPT !.overlap = FALSE],
   [Scene(4, <<"ping">>, 1, 1, 2) EXCEPT !.deletes = 1],
   Scene(4, <<"source">>, 1, 1, 1),
   Scene(3, <<"restart">>, 1, 2, 1),
   \* the fleet is deleted under a heartbeat that may upgrade
   [Scene(2, <<>>, 0, 1, 2) EXCEPT !.deletes = 1],
   \* interviews
   Asked(3, 1, 1),
   [Asked(2, 2, 0) EXCEPT !.overlap = TRUE]}
============================================================================
