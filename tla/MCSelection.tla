---------------------------- MODULE MCSelection ----------------------------
(* Two packet backends, two worker threads, and two failover candidates     *)
(* under the names "a", "b" and the untrimmed " b".  The coordinator, the   *)
(* registry and the balancer share no state, so a behaviour exercises one   *)
(* of them; what the manager's selectors say depends on the control calls   *)
(* alone, so they are compared where nobody works.                          *)
EXTENDS LoadBalancer, Failover

VARIABLE scenario

vars == <<lbVars, foVars, scenario>>

Init == LbInit /\ FoInit /\ scenario \in {"work", "selectors", "failover", "registry"}

Next ==
    /\ \/ scenario = "work" /\ LbNext /\ UNCHANGED foVars
       \/ scenario = "selectors" /\ Control /\ TrackSteady /\ UNCHANGED foVars
       \/ scenario = "failover" /\ CoordinatorNext /\ UNCHANGED lbVars
       \/ scenario = "registry" /\ RegistryNext /\ UNCHANGED lbVars
    /\ UNCHANGED scenario

Spec == Init /\ [][Next]_vars

MCNames == <<"npcap", "windivert">>

\* In the order of the strings: "", " b", "a", "b".
MCSpellings == 0 .. 3
MCTrimmed == [n \in MCSpellings |-> IF n = 1 THEN 3 ELSE n]

\* After any sequence of control calls the requirement selector (selection.rs),
\* the coverage report (complementarity.rs) and the Load Balancer agree on who
\* can serve a capability.
SelectorsInv == scenario = "selectors" => SelectorsAgree

ThreadSymmetry == Permutations(Threads)
=============================================================================
