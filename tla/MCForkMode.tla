----------------------------- MODULE MCForkMode -----------------------------
(* Instances of ForkMode for TLC. *)
EXTENDS ForkMode

\* Two jobs without plateau or ignore flags: the queues, and the stop after a failure, a used-up budget
\* or an interruption.
queues == [jobs |-> 2, measure |-> FALSE, plateau |-> 1, budget |-> TRUE, ignore |-> FALSE, timeout |-> 1,
           gains |-> 1, failures |-> {"C"}]

\* The flags of a campaign, one job at a time; the limit interrupts the plateau or is out of reach.
campaign == [jobs |-> 1, measure |-> TRUE, plateau |-> 2, budget |-> FALSE, ignore |-> TRUE, timeout |-> 4,
             gains |-> 2, failures |-> {"C", "O"}]

MCCommandLines == {queues, campaign, [campaign EXCEPT !.timeout = 12]}
=============================================================================
