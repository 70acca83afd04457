----------------------------- MODULE MCDomCache -----------------------------
(* Instances of DomCache for TLC.  Block 1 branches to block 2 and to block 25, the exit; 2 goes on to 25.
   With indirect jumps 2 calls block 3 instead, which ends the program. *)
EXTENDS DomCache

Reflexive(s) == {<<n, n>> : n \in s}

MCBlocks == [direct |-> {1, 2, 25}, indirect |-> {1, 2, 3, 25}]
MCOptions == DOMAIN MCBlocks

MCDoms ==
  [direct |-> [dom |-> Reflexive(MCBlocks.direct) \cup {<<2, 1>>, <<25, 1>>},
               post |-> Reflexive(MCBlocks.direct) \cup {<<1, 25>>, <<2, 25>>}],
   indirect |-> [dom |-> Reflexive(MCBlocks.indirect) \cup {<<2, 1>>, <<3, 1>>, <<3, 2>>, <<25, 1>>},
                 post |-> Reflexive(MCBlocks.indirect) \cup {<<2, 3>>}]]

MCMisread == [n \in UNION {MCBlocks[o] : o \in MCOptions} |-> {n \div 10} \ {0}]

Access(kind, fields, type, nodes) == [kind |-> kind, fields |-> fields, type |-> type, nodes |-> nodes]
At(b, p) == [block |-> b, pos |-> p]

Everywhere ==
  {Access("create", "f", "t", {At(2, 1)}), Access("del", "f", "t", {At(25, 1)}),
   Access("create", "h", "t", {At(1, 1)}), Access("del", "h", "t", {At(2, 2)}),
   Access("write", "g", "t", {At(1, 2)}), Access("read", "g", "t", {At(2, 1), At(25, 2)}),
   Access("write", "g", "u", {At(25, 3)}),
   Access("write", "i", "t", {At(2, 3)}), Access("read", "i", "t", {At(25, 3)})}

MCAccesses == [direct |-> Everywhere,
               indirect |-> Everywhere \cup {Access("create", "j", "t", {At(2, 4)}), Access("del", "j", "t", {At(3, 1)})}]
=============================================================================
