------------------------------- MODULE MCFireSim -------------------------------
(* Two builds and five kinds of users: a suite of two runs, one at a time; a  *)
(* run of two slots whose results_dir has been used before and whose instance *)
(* is to be kept if it fails; a run that begins while the other build, of the *)
(* same id or another, is about to be published; a build from its beginning;  *)
(* and one that is built again if it is lost.                                 *)
EXTENDS FireSim, TLC

CONSTANTS r1, r2

Plan(queue, size, made, ready, spent) ==
  [queue |-> queue, size |-> [r \in Runs |-> size], keep |-> FALSE,
   shared |-> FALSE, made |-> made, latest |-> 1, ids |-> <<1, 2>>, ref |-> 1,
   ready |-> ready, spare |-> {}, spent |-> spent]

Suites == {Plan(<<r1, r2>>, 1, <<<<1>>, <<2>>>>, {}, 1)}

Pairs == {[Plan(<<r1>>, 2, <<<<1>>, <<2>>>>, {}, 0)
            EXCEPT !.shared = TRUE, !.keep = TRUE]}

Races == {[Plan(<<r1>>, 1, <<<<1>>, << >>>>, {2}, 1) EXCEPT !.ref = x[1], !.ids = <<1, x[2]>>] :
            x \in {<<1, 1>>, <<0, 2>>}}

Makers == {Plan(<< >>, 1, <<<<1>>, << >>>>, {}, 0)}

Reruns == {[Plan(<< >>, 1, <<<< >>, << >>>>, {1}, 1)
              EXCEPT !.latest = 0, !.ids = <<1, 1>>, !.spare = {2}]}

MCPlans == Suites \cup Pairs \cup Races \cup Makers \cup Reruns

=============================================================================
