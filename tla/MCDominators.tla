---------------------------- MODULE MCDominators ----------------------------
(* Instances of Dominators for TLC. *)
EXTENDS Dominators

Site(c, f, r) == [call |-> c, fun |-> f, ret |-> r]

\* Two branches call the same function, then an external call.
diamond == [main |-> "main",
  entry |-> [main |-> "in", f |-> "fin"], exit |-> [main |-> "out", f |-> "fout"],
  intra |-> {<<"in", "br">>, <<"br", "x">>, <<"x", "c1">>, <<"br", "c2">>, <<"r1", "join">>, <<"r2", "join">>,
             <<"join", "c3">>, <<"r3", "out">>, <<"fin", "fout">>},
  sites |-> {Site("c1", "f", "r1"), Site("c2", "f", "r2"), Site("c3", External, "r3")},
  nodes |-> {"in", "br", "x", "c1", "r1", "c2", "r2", "join", "c3", "r3", "out", "fin", "fout"}]

\* A loop around a call of a recursive function.
loop == [main |-> "main",
  entry |-> [main |-> "in", f |-> "fin"], exit |-> [main |-> "out", f |-> "fout"],
  intra |-> {<<"in", "head">>, <<"head", "br">>, <<"br", "c1">>, <<"br", "x">>, <<"x", "out">>, <<"r1", "head">>,
             <<"fin", "fbr">>, <<"fbr", "c2">>, <<"fbr", "fjoin">>, <<"r2", "fjoin">>, <<"fjoin", "fout">>},
  sites |-> {Site("c1", "f", "r1"), Site("c2", "f", "r2")},
  nodes |-> {"in", "head", "br", "c1", "r1", "x", "out", "fin", "fbr", "c2", "r2", "fjoin", "fout"}]

\* if (..) x; f(); where the call is the first instruction after the branches join.
joined == [main |-> "main",
  entry |-> [main |-> "in", f |-> "fin"], exit |-> [main |-> "out", f |-> "fout"],
  intra |-> {<<"in", "br">>, <<"br", "c1">>, <<"br", "x">>, <<"x", "c1">>, <<"r1", "out">>, <<"fin", "fout">>},
  sites |-> {Site("c1", "f", "r1")},
  nodes |-> {"in", "br", "x", "c1", "r1", "out", "fin", "fout"}]

\* if (..) abort();
stops == [main |-> "main", entry |-> [main |-> "in"], exit |-> [main |-> "out"],
  intra |-> {<<"in", "br">>, <<"br", "c1">>, <<"br", "x">>, <<"x", "out">>},
  sites |-> {Site("c1", External, "r1")},
  nodes |-> {"in", "br", "c1", "r1", "x", "out"}]

\* A function that never returns, called on one branch, and an entry function that never does.
spins == [main |-> "main",
  entry |-> [main |-> "in", f |-> "fin"], exit |-> [main |-> "out", f |-> "fout"],
  intra |-> {<<"in", "br">>, <<"br", "c1">>, <<"br", "x">>, <<"x", "out">>, <<"r1", "out">>, <<"fin", "s">>, <<"s", "s">>},
  sites |-> {Site("c1", "f", "r1")},
  nodes |-> {"in", "br", "c1", "r1", "x", "out", "fin", "s", "fout"}]
serves == [main |-> "main", entry |-> [main |-> "in"], exit |-> [main |-> "out"],
  intra |-> {<<"in", "s">>, <<"s", "s">>}, sites |-> {}, nodes |-> {"in", "s", "out"}]

\* Two failing branches that end in one unreachable instruction.
fails == [main |-> "main", entry |-> [main |-> "in"], exit |-> [main |-> "out"],
  intra |-> {<<"in", "br">>, <<"br", "c1">>, <<"br", "x">>, <<"x", "c2">>, <<"x", "y">>, <<"y", "out">>,
             <<"r1", "u">>, <<"r2", "u">>},
  sites |-> {Site("c1", External, "r1"), Site("c2", External, "r2")},
  nodes |-> {"in", "br", "c1", "r1", "x", "c2", "r2", "u", "y", "out"}]

MCIcfgs == {diamond, loop, joined, stops, spins, serves, fails}
=============================================================================
