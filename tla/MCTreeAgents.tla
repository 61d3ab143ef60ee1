----------------------------- MODULE MCTreeAgents -----------------------------
(* Small instances of TreeAgents: one container, with a longer conversation; two that   *)
(* share the directory; and processes that are killed.                                   *)
EXTENDS TreeAgents
Team(variant, agents, kinds, r, k) ==
  [variant |-> variant, agents |-> agents, kinds |-> kinds, replies |-> r, kills |-> k]
MCTeams ==
  {Team("tree", {"a"}, {"answer", "command", "bare"}, 3, 0),
   Team("tree", {"a"}, {"command", "nothing"}, 2, 1),
   Team("tree", {"a", "b"}, {"command"}, 2, 0),
   Team("tree", {"a", "b"}, {"command", "wrong"}, 1, 1),
   Team("tag", {"a"}, {"command", "bare"}, 3, 0),
   Team("tag", {"a", "b"}, {"command", "bare"}, 1, 1)}
=============================================================================
