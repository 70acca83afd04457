-------------------------- MODULE MCDriverContext ---------------------------
(* Instances of DriverContext for TLC. *)
EXTENDS DriverContext

Arg(t, file, len, setby, delete) ==
  [type |-> t, file |-> file, len |-> len, setby |-> setby, create |-> FALSE, delete |-> delete]
Plain(t) == Arg(t, FALSE, 0, {}, FALSE)
Ret(t, create) == [type |-> t, file |-> FALSE, len |-> 0, setby |-> {}, create |-> create, delete |-> FALSE]

\* A library with a handle, a structure that the handle initialises, strings and arrays.
open == [args |-> <<Arg("char*", TRUE, 0, {}, FALSE)>>, ret |-> Ret("handle*", TRUE)]
close == [args |-> <<Arg("handle*", FALSE, 0, {}, TRUE)>>, ret |-> Ret("int", FALSE)]
setup == [args |-> <<Arg("state*", FALSE, 0, {2}, FALSE), Plain("handle*")>>, ret |-> Ret("void", FALSE)]
write == [args |-> <<Plain("state*"), Arg("char*", FALSE, 3, {}, FALSE), Plain("size_t")>>, ret |-> Ret("size_t", FALSE)]
copy == [args |-> <<Arg("char*", FALSE, 3, {}, FALSE), Arg("void*", FALSE, 3, {}, FALSE), Plain("size_t")>>, ret |-> Ret("char*", TRUE)]
release == [args |-> <<Arg("char*", FALSE, 0, {}, TRUE)>>, ret |-> Ret("void", FALSE)]
config == [args |-> <<Arg("config*", FALSE, 0, {2}, FALSE), Plain("int")>>, ret |-> Ret("void", FALSE)]
attach == [args |-> <<Plain("handle*"), Plain("config*")>>, ret |-> Ret("config*", FALSE)]
puts == [args |-> <<Plain("state*"), Plain("char*")>>, ret |-> Ret("int", FALSE)]
logto == [args |-> <<Plain("handle*"), Arg("char*", TRUE, 0, {}, FALSE)>>, ret |-> Ret("int", FALSE)]

MCTypes == {"int", "size_t", "char*", "void*", "handle*", "state*", "config*"}
MCPointer == {"char*", "void*", "handle*", "state*", "config*"}
MCStruct == {"handle*", "state*", "config*"}
MCFriendly == {"state*", "config*"}
MCApis == {open, close, setup, write, copy, release, config, attach, puts, logto}
=============================================================================
