------------------------------ MODULE MCProjects ------------------------------
(* Instances of Projects for TLC: scenes, each with the requests that meet *)
(* on the same rows.                                                       *)
EXTENDS Projects, TLC

CONSTANTS p1, p2, t1, a1

MCScenes ==
    {[asks |-> {"submit", "archive"}, open |-> {p1},
      tasks |-> <<>>, agents |-> a1 :> p1, lost |-> 0],
     [asks |-> {"project", "agent", "archive"}, open |-> {p1},
      tasks |-> <<>>, agents |-> <<>>, lost |-> 1],
     [asks |-> {"submit", "agent"}, open |-> {p1, p2},
      tasks |-> <<>>, agents |-> <<>>, lost |-> 0],
     [asks |-> {"agent", "template"}, open |-> {p1},
      tasks |-> <<>>, agents |-> <<>>, lost |-> 1],
     [asks |-> {"issue"}, open |-> {p1, p2},
      tasks |-> t1 :> p2, agents |-> <<>>, lost |-> 0]}
=============================================================================
