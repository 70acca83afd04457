------------------------- MODULE MCAccessSummaries -------------------------
(* Programs for AccessSummaries. *)
EXTENDS AccessSummaries, TLC

Edge(a, b) == [from |-> a, to |-> b, via |-> None]
EdgeVia(a, b, v) == [from |-> a, to |-> b, via |-> v]
Call(args, targets, ret) == [args |-> args, targets |-> targets, indirect |-> FALSE, ret |-> ret]
CallPtr(args, targets, ret) == [Call(args, targets, ret) EXCEPT !.indirect = TRUE]
At(s, v) == [site |-> s, value |-> v]
Handler(k, kind, whole) == [pos |-> k, kind |-> kind, whole |-> whole]
Nothing == [x \in {} |-> x]

\* A program from the nodes of its functions, and what is particular to it.
Program(parts, more) ==
  LET fs == DOMAIN parts
      ns == UNION {DOMAIN parts[f] : f \in fs}
      fun == [n \in ns |-> CHOOSE f \in fs : n \in DOMAIN parts[f]]
  IN [op |-> [n \in ns |-> parts[fun[n]][n]], fun |-> fun] @@ more @@
     [field |-> Nothing, alias |-> {}, mallocs |-> Nothing, actual |-> Nothing, sites |-> Nothing, def |-> Nothing,
      handlers |-> Nothing, returns |-> {}, ret |-> Nothing, recursive |-> {}, consider_indirect_calls |-> TRUE]

\* A field is passed to a function that writes a field of it; the identity is called twice.
passes == Program(
  [init |-> [o |-> "formal", ox |-> "gep", st |-> "store"],
   id |-> [p |-> "formal", pr |-> "formalret"],
   main |-> [m |-> "formal", g |-> "gep", a1 |-> "actual", a2 |-> "actual", a3 |-> "actual", r2 |-> "actualret",
             r3 |-> "actualret", ry |-> "gep", ld |-> "load", l3 |-> "load", mr |-> "formalret"]],
  [sccs |-> <<{"init"}, {"id"}, {"main"}>>,
   formals |-> [init |-> <<"o">>, id |-> <<"p">>, main |-> <<"m">>],
   field |-> [ox |-> "x", g |-> "in", ry |-> "y"],
   edges |-> {Edge("o", "ox"), EdgeVia("ox", "st", "pointer"), Edge("p", "pr"), Edge("m", "g"), Edge("g", "a1"),
              Edge("m", "a2"), Edge("g", "a3"), Edge("pr", "r2"), Edge("pr", "r3"), Edge("r2", "ry"),
              Edge("ry", "ld"), Edge("r3", "l3"), Edge("r2", "mr")},
   actual |-> [a1 |-> At("s1", "vg"), a2 |-> At("s2", "vm"), a3 |-> At("s3", "vg")],
   sites |-> [s1 |-> Call(<<"vg">>, {"init"}, None), s2 |-> Call(<<"vm">>, {"id"}, "r2"),
              s3 |-> Call(<<"vg">>, {"id"}, "r3")],
   def |-> [vm |-> "m", vg |-> "g"],
   returns |-> {"id", "main"}, ret |-> [id |-> "pr", main |-> "mr"]])

\* even(p) = odd(p->next), odd(q) reads q->data and calls even(q); both return what they get from the other.
list == Program(
  [even |-> [p |-> "formal", pn |-> "gep", pl |-> "load", a1 |-> "actual", r1 |-> "actualret", er |-> "formalret"],
   odd |-> [q |-> "formal", qd |-> "gep", ql |-> "load", a2 |-> "actual", r2 |-> "actualret", phi |-> "phi",
            or |-> "formalret"]],
  [sccs |-> <<{"even", "odd"}>>, formals |-> [even |-> <<"p">>, odd |-> <<"q">>],
   field |-> [pn |-> "next", qd |-> "data"],
   edges |-> {Edge("p", "pn"), Edge("pn", "pl"), Edge("pl", "a1"), Edge("r1", "er"), Edge("or", "r1"),
              Edge("q", "qd"), Edge("qd", "ql"), Edge("q", "a2"), Edge("r2", "phi"), Edge("q", "phi"),
              Edge("phi", "or"), Edge("er", "r2")},
   actual |-> [a1 |-> At("s1", "vl"), a2 |-> At("s2", "vq")],
   sites |-> [s1 |-> Call(<<"vl">>, {"odd"}, "r1"), s2 |-> Call(<<"vq">>, {"even"}, "r2")],
   def |-> [vl |-> "pl", vq |-> "q"],
   returns |-> {"even", "odd"}, ret |-> [even |-> "er", odd |-> "or"]])

\* Three functions that call each other: too few rounds, if they are taken in the wrong order.
ring == Program(
  [f |-> [p |-> "formal", a1 |-> "actual"],
   g |-> [q |-> "formal", a2 |-> "actual"],
   h |-> [r |-> "formal", a3 |-> "actual", rx |-> "gep", ld |-> "load"]],
  [sccs |-> <<{"f", "g", "h"}>>, formals |-> [f |-> <<"p">>, g |-> <<"q">>, h |-> <<"r">>],
   field |-> [rx |-> "x"],
   edges |-> {Edge("p", "a1"), Edge("q", "a2"), Edge("r", "a3"), Edge("r", "rx"), Edge("rx", "ld")},
   actual |-> [a1 |-> At("s1", "vp"), a2 |-> At("s2", "vq"), a3 |-> At("s3", "vr")],
   sites |-> [s1 |-> Call(<<"vp">>, {"g"}, None), s2 |-> Call(<<"vq">>, {"h"}, None),
              s3 |-> Call(<<"vr">>, {"f"}, None)]])

\* f(p) returns p, g(q) returns f(q), and f reads what g(p) returns: the first round only finds where they return.
exits == Program(
  [f |-> [p |-> "formal", a1 |-> "actual", r1 |-> "actualret", ld |-> "load", fr |-> "formalret"],
   g |-> [q |-> "formal", a2 |-> "actual", r2 |-> "actualret", gr |-> "formalret"]],
  [sccs |-> <<{"f", "g"}>>, formals |-> [f |-> <<"p">>, g |-> <<"q">>],
   edges |-> {Edge("p", "fr"), Edge("p", "a1"), Edge("r1", "ld"), Edge("q", "a2"), Edge("r2", "gr"),
              Edge("fr", "r2"), Edge("gr", "r1")},
   actual |-> [a1 |-> At("s1", "vp"), a2 |-> At("s2", "vq")],
   sites |-> [s1 |-> Call(<<"vp">>, {"g"}, "r1"), s2 |-> Call(<<"vq">>, {"f"}, "r2")]])

\* A call through a pointer with two targets, one of which returns the value.
pointer == Program(
  [cb |-> [x |-> "formal", xa |-> "gep", st |-> "store", xi |-> "index", xr |-> "formalret"],
   cb2 |-> [y |-> "formal", ld |-> "load"],
   main |-> [m |-> "formal", mf |-> "gep", a1 |-> "actual", r1 |-> "actualret", l1 |-> "cmp"]],
  [sccs |-> <<{"cb"}, {"cb2"}, {"main"}>>, formals |-> [cb |-> <<"x">>, cb2 |-> <<"y">>, main |-> <<"m">>],
   field |-> [xa |-> "a", mf |-> "f"],
   edges |-> {Edge("x", "xa"), EdgeVia("xa", "st", "pointer"), Edge("x", "xi"), Edge("x", "xr"), Edge("xa", "xr"),
              Edge("y", "ld"), Edge("m", "mf"), Edge("m", "a1"), Edge("xr", "r1"), Edge("r1", "l1")},
   actual |-> [a1 |-> At("s1", "vm")],
   sites |-> [s1 |-> CallPtr(<<"vm">>, {"cb", "cb2"}, "r1")],
   def |-> [vm |-> "m"], returns |-> {"cb"}, ret |-> [cb |-> "xr"]])

\* With one target it is like a direct call; without consider_indirect_calls it is not followed.
onetarget == [pointer EXCEPT !.sites.s1.targets = {"cb"}]
ignored == [pointer EXCEPT !.consider_indirect_calls = FALSE]

\* make() fills a field of what new() allocates; done(n) frees it, or a field of it.
makes == Program(
  [new |-> [ad |-> "addr", nr |-> "formalret"],
   make |-> [r1 |-> "actualret", ra |-> "gep", st |-> "store", ms |-> "formalret"],
   done |-> [n |-> "formal", nf |-> "gep", a1 |-> "actual", a2 |-> "actual"]],
  [sccs |-> <<{"new"}, {"make"}, {"done"}>>, formals |-> [new |-> <<>>, make |-> <<>>, done |-> <<"n">>],
   field |-> [ra |-> "a", nf |-> "f"],
   edges |-> {Edge("ad", "nr"), Edge("nr", "r1"), Edge("r1", "ra"), EdgeVia("ra", "st", "pointer"), Edge("r1", "ms"),
              Edge("n", "nf"), Edge("n", "a1"), Edge("nf", "a2")},
   mallocs |-> [ad |-> "malloc"],
   handlers |-> [malloc |-> {Handler(0, "create", TRUE)}, free |-> {Handler(1, "delete", FALSE)},
                 memset |-> {Handler(1, "write", TRUE)}],
   actual |-> [a1 |-> At("s2", "vn"), a2 |-> At("s3", "vf")],
   sites |-> [s1 |-> Call(<<>>, {"new"}, "r1"), s2 |-> Call(<<"vn">>, {"free"}, None),
              s3 |-> Call(<<"vf">>, {"memset"}, None)],
   returns |-> {"new", "make"}, ret |-> [new |-> "nr", make |-> "ms"]])

\* A value is stored, and read back from where it was stored but not from elsewhere; *p = p; a malloc is stored.
stores == Program(
  [put |-> [p |-> "formal", st |-> "store", l1 |-> "load", l2 |-> "load", g1 |-> "gep", g2 |-> "gep", s1 |-> "store",
            ad |-> "addr", l3 |-> "load"]],
  [sccs |-> <<{"put"}>>, formals |-> [put |-> <<"p">>],
   field |-> [g1 |-> "a", g2 |-> "b"],
   edges |-> {EdgeVia("p", "st", "value"), EdgeVia("st", "l1", "memory"), EdgeVia("st", "l2", "memory"),
              Edge("l1", "g1"), Edge("l2", "g2"), EdgeVia("g1", "s1", "pointer"), Edge("ad", "s1"), Edge("g2", "l3")},
   alias |-> {<<"st", "l1">>}, mallocs |-> [ad |-> "malloc"]])
selfstore == [stores EXCEPT !.edges = (@ \ {Edge("l2", "g2"), Edge("l1", "g1")}) \cup {EdgeVia("p", "st", "pointer")}]

\* A loop over a list and over an array, and an array inside a field.
loops == Program(
  [each |-> [p |-> "formal", phi |-> "phi", gn |-> "gep", ld |-> "load", ix |-> "index", lx |-> "load"]],
  [sccs |-> <<{"each"}>>, formals |-> [each |-> <<"p">>],
   field |-> [gn |-> "next"],
   edges |-> {Edge("p", "phi"), Edge("phi", "gn"), Edge("gn", "ld"), Edge("ld", "phi"), Edge("phi", "ix"),
              Edge("ix", "phi"), Edge("ix", "lx")}])

\* both(p, p) writes to the first and reads the second; rec(q) goes down its own field.
twice == Program(
  [both |-> [x |-> "formal", y |-> "formal", st |-> "store", ly |-> "load"],
   rec |-> [q |-> "formal", a1 |-> "actual", qn |-> "gep", a2 |-> "actual"]],
  [sccs |-> <<{"both"}, {"rec"}>>, formals |-> [both |-> <<"x", "y">>, rec |-> <<"q">>],
   field |-> [qn |-> "next"], recursive |-> {"rec"},
   edges |-> {EdgeVia("x", "st", "pointer"), Edge("y", "ly"), Edge("q", "a1"), Edge("q", "qn"), Edge("qn", "a2")},
   actual |-> [a1 |-> At("s1", "vq"), a2 |-> At("s2", "vn")],
   sites |-> [s1 |-> Call(<<"vq", "vq">>, {"both"}, None), s2 |-> Call(<<"vn">>, {"rec"}, None)]])

MCPrograms == {passes, list, ring, exits, pointer, onetarget, ignored, makes, stores, selfstore, loops, twice}
=============================================================================
