----------------------------- MODULE MCCampaign -----------------------------
(* Instances of Campaign: a library of two sources and two other APIs.  The    *)
(* letters of the names are chosen so that one name is a prefix of another and *)
(* two sequences have the same key: f;gh and fg;h.                             *)
EXTENDS Campaign, SequencesExt

CONSTANTS f, fg, gh, h

Letters == (f :> <<"f">>) @@ (fg :> <<"f", "g">>) @@ (gh :> <<"g", "h">>) @@ (h :> <<"h">>)

MCApis == {f, fg, gh, h}
MCSourceApi == {f, fg}
MCDepGraph == (f :> {gh, h, fg}) @@ (fg :> {h}) @@ (gh :> {gh, h}) @@ (h :> {h, gh})
MCNAst == (f :> 2) @@ (fg :> 1) @@ (gh :> 0) @@ (h :> 3)
MCNamePrefix == {p \in MCApis \X MCApis : IsPrefix(Letters[p[1]], Letters[p[2]])}
MCKey(s) == FlattenSeq([i \in 1..Len(s) |-> Letters[s[i]]])

FiveMinutes == [value |-> 5, unit |-> "m"]
=============================================================================
