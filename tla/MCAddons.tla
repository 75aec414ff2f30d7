------------------------------ MODULE MCAddons -----------------------------
(* Bounds for Addons: the bundled agent and one addon of the repository.     *)
EXTENDS Addons

Reader == [comment |-> FALSE, risky |-> FALSE, compound |-> FALSE, stages |-> <<"reader", "reader">>,
           writes |-> FALSE]
Slips  == [Reader EXCEPT !.writes = TRUE]    \* writes behind a reader's name: ls & touch f
Writer == [Slips EXCEPT !.stages = <<"reader", "other">>]
Fence(lines) == [shell |-> TRUE, closed |-> TRUE, lines |-> lines]
Listing == [shell |-> FALSE, closed |-> TRUE, lines |-> <<Writer>>]

MCReplies == {<<Listing>>, <<Fence(<<Slips>>)>>,
              <<Fence(<<[Writer EXCEPT !.comment = TRUE], Writer>>), Fence(<<Reader, Writer>>)>>}

MCBudgets == {[user |-> 5, agent |-> 0, faults |-> 2],
              [user |-> 2, agent |-> 7, faults |-> 0],
              [user |-> 1, agent |-> 4, faults |-> 1]}
=============================================================================
