-------------------------- MODULE MCDatagramReceive -------------------------
(***************************************************************************)
(* The applications whose datagram receives are checked.                   *)
(***************************************************************************)
EXTENDS DatagramReceive

\* Two members of a group compete for one buffer; two endpoints of their own
\* have a buffer each and a budget that nobody else uses.
GroupOrSingles == {[buffers |-> 1, grouped |-> TRUE, shared |-> TRUE],
                   [buffers |-> 2, grouped |-> FALSE, shared |-> FALSE]}

\* The same for one socket, with a spare buffer in the group.
GroupOrSingle == {[buffers |-> 2, grouped |-> TRUE, shared |-> TRUE],
                  [buffers |-> 1, grouped |-> FALSE, shared |-> FALSE]}

\* One endpoint of its own that shares the budget with siblings.
SharedSingle == {[buffers |-> 1, grouped |-> FALSE, shared |-> TRUE]}
=============================================================================
