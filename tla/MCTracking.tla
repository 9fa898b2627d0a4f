----------------------------- MODULE MCTracking -----------------------------
(* What becomes of a packet and the Host's say in it: flows (two endpoints, a *)
(* window of two hashes, frames around every boundary), the engine state and  *)
(* the packet policy, the metadata cache, the counters; and the parsers, one   *)
(* input each.                                                                *)
(* They share no state, so a behaviour exercises one of them.                 *)
EXTENDS Tracking, HostPolicy, MetadataCache, Statistics

VARIABLES
    scenario,
    input   \* the frame or segment a parser is given, one for each behaviour

vars == <<trackingVars, policyVars, cacheVars, statisticsVars, scenario, input>>

Frame(len, types, version, ihl, total, offset, chain, words, ulen, arp) ==
    [len |-> len, types |-> types, version |-> version, ihl |-> ihl, total |-> total,
     offset |-> offset, chain |-> chain, words |-> words, ulen |-> ulen, arp |-> arp]

Header(type, size, first) == [type |-> type, size |-> size, first |-> first]

Plain(type) == Header(type, 0, TRUE)

UdpFrame == Frame(42, <<"ip4">>, 4, 5, 28, 0, <<Plain("udp")>>, 5, 8, TRUE)

ShortFrame == [UdpFrame EXCEPT !.len = 41]

MCObservations ==
    {[frame |-> UdpFrame, key |-> <<"a", "b">>, direction |-> "Outbound", hash |-> 1],
     [frame |-> UdpFrame, key |-> <<"b", "a">>, direction |-> "Inbound", hash |-> 2],
     [frame |-> UdpFrame, key |-> <<"a", "a">>, direction |-> "Unknown", hash |-> 3],
     [frame |-> ShortFrame, key |-> <<"a", "b">>, direction |-> "Outbound", hash |-> 4]}

\* IPv4, padded and truncated, with headers one short, exact and too long.
Ipv4Frames ==
    {Frame(len, types, 4, ihl, total, offset, <<Plain(type)>>, 5 + fit, 8 + fit, TRUE) :
        len \in {13, 14, 34, 42, 54, 58, 80},
        types \in {<<"ip4">>, <<"vlan", "ip4">>, <<"vlan", "vlan", "vlan", "vlan", "vlan", "ip4">>},
        ihl \in {4, 5, 6}, total \in {19, 20, 28, 40, 44}, offset \in {0, 1},
        type \in {"tcp", "udp", "icmp", "other"}, fit \in {-1, 0, 1}}

ArpFrames ==
    {Frame(len, <<"arp">>, 0, 0, 0, 0, <<Plain("other")>>, 0, 0, arp) :
        len \in {14, 41, 42, 60}, arp \in BOOLEAN}

\* IPv6 with up to two extension headers, ...
Extensions ==
    {<<>>, <<Header("options", 8, TRUE)>>, <<Header("options", 24, TRUE)>>, <<Header("auth", 12, TRUE)>>,
     <<Header("fragment", 8, TRUE)>>, <<Header("fragment", 8, FALSE)>>, <<Header("esp", 8, TRUE)>>}

Ipv6Frames ==
    {Frame(len, <<"ip6">>, 6, 0, total, 0, outer \o inner \o <<Plain(type)>>, 5, 8, TRUE) :
        len \in {53, 62, 90, 120}, total \in {1, 8, 16, 28, 66},
        outer \in Extensions, inner \in Extensions, type \in {"tcp", "udp", "icmp"}}

\* ... and with about as many as the parser follows.
LongChain ==
    {Frame(54 + 8 * n, <<"ip6">>, 6, 0, 8 * n, 0,
           [i \in 1 .. n |-> IF i = n THEN Plain("udp") ELSE Header("options", 8, TRUE)], 5, 8, TRUE) :
        n \in 15 .. 19}

\* A version that contradicts the Ethernet type, and a type that is not parsed.
OddFrames == {[UdpFrame EXCEPT !.version = 6], [UdpFrame EXCEPT !.types = <<"other">>],
              [UdpFrame EXCEPT !.len = 0], [UdpFrame EXCEPT !.types = <<"ip6">>, !.len = 90]}

\* A rule for UDP to one port, one against an unrecognised protocol, one for
\* everything that comes in, and arguments the API refuses.
Address(family, bytes) == [family |-> family, bytes |-> bytes]
Arguments(priority, direction, protocol, src, dport, action) ==
    [priority |-> priority, direction |-> direction, protocol |-> protocol, src |-> src,
     dst |-> Address(0, Open), sport |-> 0, dport |-> dport, action |-> action]
MCRuleArguments ==
    {Arguments(1, -1, 17, Address(0, Open), 53, 0), Arguments(1, 0, -1, Address(0, Open), 0, 1),
     Arguments(0, -1, 47, Address(4, "a"), 0, 2), Arguments(0, -1, 17, Address(5, "a"), 53, 2),
     Arguments(0, 3, -1, Address(0, Open), 0, 3), Arguments(0, 0, 256, Address(6, Open), 0, 0)}
MCPackets ==
    {[transport |-> "Udp", src |-> "a", dst |-> "b", sport |-> 1, dport |-> 53],
     [transport |-> "Udp", src |-> "a", dst |-> "b", sport |-> 1, dport |-> Open],
     [transport |-> "Unknown", src |-> "a", dst |-> "b", sport |-> Open, dport |-> Open]}

\* Bytes of four values: segments of even and of odd length.
MCHosts == {<<0, 1>>, <<3, 3>>}
MCSegments == [1 .. 4 -> 0 .. 3] \cup [1 .. 5 -> {0, 1, 3}]

\* Bounds out of order and one twice.
MCBounds == <<2, 1, 2>>
MCBuckets == <<"to1", "to2", "above">>

MCFrames ==
    {o.frame : o \in Observations} \cup OddFrames \cup Ipv4Frames \cup ArpFrames \cup Ipv6Frames \cup LongChain

Init ==
    /\ TrackingInit /\ PolicyInit /\ CacheInit /\ StatisticsInit
    /\ scenario \in {"flows", "policy", "cache", "statistics", "metrics", "frames", "segments"}
    /\ scenario # "cache" => seconds = 0
    /\ input \in CASE scenario = "frames" -> MCFrames
                   [] scenario = "segments" -> Segments
                   [] OTHER -> {Nothing}

Next ==
    /\ \/ scenario = "flows" /\ TrackingNext /\ UNCHANGED <<policyVars, cacheVars, statisticsVars>>
       \/ scenario = "policy" /\ PolicyNext /\ UNCHANGED <<trackingVars, cacheVars, statisticsVars>>
       \/ scenario = "cache" /\ CacheNext /\ UNCHANGED <<trackingVars, policyVars, statisticsVars>>
       \/ scenario = "statistics" /\ StatisticsNext /\ UNCHANGED <<trackingVars, policyVars, cacheVars>>
       \/ scenario = "metrics" /\ MetricsNext /\ UNCHANGED <<trackingVars, policyVars, cacheVars>>
    /\ UNCHANGED <<scenario, input>>

Spec == Init /\ [][Next]_vars

\* No input makes a parser read past it, report what is not in it or refuse what
\* is well-formed, and checksums are accepted as the arithmetic says.
ParserSafe ==
    /\ scenario = "frames" => ParsedSafely(input)
    /\ scenario = "segments" => ChecksumsHold(input)

\* What is kept while packets are processed stays consistent: the flows and the
\* window of recent hashes; the Host's policy, of which no update is lost and by
\* which every packet is decided; the engine's flags; the metadata cache; the
\* counters.
ProcessingInv == TrackingInv /\ PolicyInv /\ FlagsFollowLifecycle /\ CacheInv /\ StatisticsInv
=============================================================================
