------------------------------ MODULE MCNative ------------------------------
(* The native backends' own tables.  They share no state, so a behaviour    *)
(* exercises one of them: the scenario is chosen at the start.  WFP's       *)
(* filters are changed in every way with the engine closed, and one at a    *)
(* time, unrevised, beside every use of the engine.                         *)
EXTENDS Npcap, Wfp, Etw, WinDivert

VARIABLE scenario

vars == <<npVars, wfpVars, wfpFlows, etwVars, wdVars, scenario>>

Init ==
    /\ NpInit /\ WfpInit /\ FlowInit /\ EtwInit /\ WdInit
    /\ scenario \in {"captures", "devices", "filters", "sessions", "flows", "etw", "divert", "queue"}
    /\ scenario # "etw" => named
    /\ scenario # "divert" => wdConfig = [filter |-> "true", layer |-> "network"]

Next ==
    /\ \/ scenario = "captures" /\ CaptureNext /\ UNCHANGED <<wfpVars, wfpFlows, etwVars, wdVars>>
       \/ scenario = "devices" /\ DeviceNext /\ UNCHANGED <<wfpVars, wfpFlows, etwVars, wdVars>>
       \/ /\ scenario = "filters" /\ TableNext
          /\ UNCHANGED <<npVars, wfpFlows, etwVars, wdVars>>
       \/ /\ scenario = "sessions" /\ FilterNext /\ installed' < 2 /\ ~revised'
          /\ UNCHANGED <<npVars, wfpFlows, etwVars, wdVars>>
       \/ scenario = "flows" /\ FlowsNext /\ UNCHANGED <<npVars, wfpVars, etwVars, wdVars>>
       \/ scenario = "etw" /\ EtwNext /\ UNCHANGED <<npVars, wfpVars, wfpFlows, wdVars>>
       \/ scenario = "divert" /\ DivertNext /\ UNCHANGED <<npVars, wfpVars, wfpFlows, etwVars>>
       \/ scenario = "queue" /\ DivertQueueNext /\ UNCHANGED <<npVars, wfpVars, wfpFlows, etwVars>>
    /\ UNCHANGED scenario

Spec == Init /\ [][Next]_vars

\* Filters of one id or two that differ in weight, in action, in layer or in being
\* enabled, and one on a layer that does not exist; a condition that can be
\* installed and an IPv6 address whose mask is no prefix.
Shape(w, on, a, l) == [weight |-> w, enabled |-> on, action |-> a, layer |-> <<"stream", l>>]
MCShapes == {Shape(0, TRUE, "Block", "v4"), Shape(1, TRUE, "Block", "v4"), Shape(1, FALSE, "Block", "v4"),
             Shape(1, TRUE, "Continue", "v4"), Shape(0, TRUE, "Block", "v6")}
WithId(s, i) == [id |-> i, weight |-> s.weight, enabled |-> s.enabled, action |-> s.action, layer |-> s.layer]
MCFilters == {WithId(s, i) : s \in MCShapes, i \in {1, 2}} \cup {WithId(Shape(0, TRUE, "Permit", "v5"), 1)}
MCConditions == {[field |-> "remote_port", length |-> 2, masked |-> 0, mask |-> <<>>],
                 [field |-> "remote_address", length |-> 16, masked |-> 16, mask |-> <<0, 1>>]}

MCAddresses == {[outbound |-> TRUE, interface |-> 1], [outbound |-> FALSE, interface |-> 1]}

\* Through failed starts, broken captures, failed closes and drops, every native
\* resource the backends opened has one owner that can still release it, or lost it
\* in a step that is on record: WinDivertClose refused (WinDivert), a session's
\* close refused, mark_failed or a drop of the engine or the filter table (WFP), a
\* clone of a registered provider (ETW).  Npcap has no such step.
NativeHandlesOwned ==
    PcapHandlesOwned /\ SessionsOwned /\ RegistrationOwned /\ DivertHandlesOwned

\* What the tables say is what runs: a stopped Npcap backend captures nothing and
\* counts what it delivered; WFP enforces the filters that are listed, and those
\* whose deletion was refused, that were replaced in place or dropped with the
\* table, and while there are none of these the table stops at a filter that the
\* kernel, which knows the weights only, may stop at; WinDivert uses the context of
\* a packet once, with that packet's address, and its queue counts what it holds.
TablesMatchNative ==
    /\ StoppedIsQuiet /\ CountersAgree
    /\ KernelHoldsListed /\ TableDecidesAsKernel
    /\ ContextsMatchPackets /\ QueueCountsBytes
=============================================================================
