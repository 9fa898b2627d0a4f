-------------------------- MODULE MCPacketHandles --------------------------
(* PacketHandles on a small instance: a queue that fills up, two Host        *)
(* threads, ids that come back after a restart of the capture.             *)
EXTENDS PacketHandles

MCIds     == 1..MaxId
HostPerms == Permutations(Hosts)
MCThreads == Hosts \cup {Capturer, Processor}
=============================================================================
