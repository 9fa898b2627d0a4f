---------------------------- MODULE PacketParser ----------------------------
(***************************************************************************)
(* The packet parser (packet-parser/src): Ethernet with stacked VLAN tags, *)
(* ARP, IPv4, IPv6 with its chain of extension headers, TCP, UDP and ICMP. *)
(*                                                                         *)
(* A frame is the number of captured bytes and the values its header       *)
(* fields would have; which of them the parser looks at, and in which      *)
(* order, is the parser's business.  A parse is a cursor moved by one      *)
(* operator per layer; `reach` is one past the last byte any layer has     *)
(* read so far, so that reading before checking shows.                     *)
(*                                                                         *)
(* frame.len      captured bytes                                           *)
(* frame.types    the Ethernet type, then the type inside each VLAN tag    *)
(* frame.version, frame.ihl, frame.total, frame.offset                     *)
(*                the IP version nibble, IHL, total (IPv6: payload) length *)
(*                and fragment offset                                      *)
(* frame.chain    the protocol field and the headers it leads to:          *)
(*                [type, size, first] each                                 *)
(* frame.words, frame.ulen      TCP data offset, UDP length                *)
(* frame.arp      the four ARP type and length fields are the usual ones   *)
(***************************************************************************)
EXTENDS Lists, Integers, SequencesExt

\* What a type or protocol field announces; "other" is any value the parser
\* does not know, "none" no field at all.
Types ==
    {"vlan", "arp", "ip4", "ip6", "options", "auth", "fragment", "esp", "tcp", "udp", "icmp", "other", "none"}

\* Whatever was captured: only the shape of the header fields is given.
Frames ==
    {frame \in [len : Nat, types : Seq(Types), version : Nat, ihl : Nat, total : Nat, offset : Nat,
                chain : Seq([type : Types, size : Nat, first : BOOLEAN]),
                words : Nat, ulen : Nat, arp : BOOLEAN] :
        /\ frame.types # <<>> /\ frame.chain # <<>>
        /\ \A i \in 1 .. Len(frame.types) - 1 : frame.types[i] = "vlan"}

\* A cursor: status, next byte, end of what the enclosing header declares,
\* what has been read, the protocol the next header has, and counts.
Cursor(status, off, end, reach, type) ==
    [status |-> status, off |-> off, end |-> end, reach |-> reach, type |-> type,
     count |-> 0, first |-> TRUE]

Fail(c, error) == [c EXCEPT !.status = error]

Read(c, bytes) == [c EXCEPT !.reach = IF c.off + bytes > @ THEN c.off + bytes ELSE @]

Skip(c, bytes, type) == [c EXCEPT !.off = @ + bytes, !.type = type, !.count = @ + 1]

-----------------------------------------------------------------------------
(* ethernet.rs *)

MaxTags == 4

\* One turn of the VLAN loop.
VlanTag(frame, c, inner) ==
    IF c.status # "go" \/ c.type # "vlan" THEN c
    ELSE IF c.count >= MaxTags THEN Fail(c, "malformed")
    ELSE IF frame.len < c.off + 4 THEN Fail(c, "short")
    ELSE Skip(Read(c, 4), 4, inner)

Ethernet(frame) ==
    IF frame.len < 14
    THEN Cursor("short", 0, frame.len, 0, "none")
    ELSE LET tags == Len(frame.types) - 1
             after[k \in 0 .. tags] ==
                 IF k = 0 THEN Cursor("go", 14, frame.len, 14, frame.types[1])
                 ELSE VlanTag(frame, after[k - 1], frame.types[k + 1])
         IN  after[tags]

-----------------------------------------------------------------------------
(* arp.rs, icmp.rs, udp.rs, tcp.rs *)

Arp(frame, c) ==
    IF frame.len - c.off < 28 THEN Fail(c, "short")
    ELSE IF ~frame.arp THEN Fail(Read(c, 8), "unsupported")
    ELSE [Read(c, 28) EXCEPT !.status = "arp"]

\* Fewer bytes than the header: accepted without ports.
Tcp(frame, c) ==
    LET length == c.end - c.off
    IN  IF length < 20 THEN [c EXCEPT !.status = "portless"]
        ELSE IF frame.len < c.off + length THEN Fail(c, "short")
        ELSE IF frame.words < 5 \/ frame.words * 4 > length THEN Fail(Read(c, 13), "malformed")
        ELSE [Read(c, 20) EXCEPT !.status = "ports"]

Udp(frame, c) ==
    LET length == c.end - c.off
    IN  IF length < 8 THEN [c EXCEPT !.status = "portless"]
        ELSE IF c.off + length > frame.len THEN Fail(c, "short")
        ELSE IF frame.ulen < 8 \/ frame.ulen > length THEN Fail(Read(c, 8), "malformed")
        ELSE [Read(c, 8) EXCEPT !.status = "ports"]

\* The whole payload is sliced out before its header is looked at.
Icmp(frame, c) ==
    IF c.end - c.off < 8
    THEN [c EXCEPT !.status = "portless"]
    ELSE [Read(c, c.end - c.off) EXCEPT !.status = "portless"]

\* The transport step of parse_ipv4 and parse_ipv6: a later fragment holds
\* no transport header.
Transport(frame, c) ==
    CASE c.status = "go" /\ c.first /\ c.type = "tcp" -> Tcp(frame, c)
      [] c.status = "go" /\ c.first /\ c.type = "udp" -> Udp(frame, c)
      [] c.status = "go" /\ c.first /\ c.type = "icmp" -> Icmp(frame, c)
      [] c.status # "go" -> c
      [] OTHER -> [c EXCEPT !.status = "portless"]

-----------------------------------------------------------------------------
(* ipv4.rs *)

\* Bug: the declared length is not compared with the captured one.
Ipv4_NoTotal(frame, c) ==
    IF frame.len < c.off + 20 THEN Fail(c, "short")
    ELSE IF frame.version # 4 \/ frame.ihl < 5 THEN Fail(Read(c, 1), "malformed")
    ELSE IF frame.len < c.off + frame.ihl * 4 THEN Fail(Read(c, 1), "short")
    ELSE IF frame.total < frame.ihl * 4 THEN Fail(Read(c, 4), "malformed")
    ELSE [Skip(Read(c, 20), frame.ihl * 4, frame.chain[1].type)
             EXCEPT !.end = c.off + frame.total, !.first = frame.offset = 0]

Ipv4(frame, c) ==
    IF frame.len < c.off + 20 THEN Fail(c, "short")
    ELSE IF frame.version # 4 \/ frame.ihl < 5 THEN Fail(Read(c, 1), "malformed")
    ELSE IF frame.len < c.off + frame.ihl * 4 THEN Fail(Read(c, 1), "short")
    ELSE IF frame.total < frame.ihl * 4 THEN Fail(Read(c, 4), "malformed")
    ELSE IF frame.len < c.off + frame.total THEN Fail(Read(c, 4), "short")
    ELSE [Skip(Read(c, 20), frame.ihl * 4, frame.chain[1].type)
             EXCEPT !.end = c.off + frame.total, !.first = frame.offset = 0]

-----------------------------------------------------------------------------
(* ipv6.rs *)

MaxExtensions == 16

\* One turn of the extension loop.  The header at the cursor has the type
\* the one before it announced; it announces the type of the next.  A later
\* fragment ends the loop, and so do ESP and No Next Header.
Extension(frame, c, header, next) ==
    IF c.status # "go" \/ ~c.first \/ c.count >= MaxExtensions THEN c
    ELSE CASE c.type \in {"options", "auth"} ->
                IF c.off + 2 > c.end THEN Fail(c, "short")
                ELSE IF c.off + header.size > c.end THEN Fail(Read(c, 2), "short")
                ELSE Skip(Read(c, 2), header.size, next)
           [] c.type = "fragment" ->
                IF c.off + 8 > c.end THEN Fail(c, "short")
                ELSE [Skip(Read(c, 8), 8, next) EXCEPT !.first = header.first]
           [] OTHER -> c

Ipv6(frame, c) ==
    IF frame.len < c.off + 40 THEN Fail(c, "short")
    ELSE IF frame.version # 6 THEN Fail(Read(c, 1), "malformed")
    ELSE IF frame.len < c.off + 40 + frame.total THEN Fail(Read(c, 40), "short")
    ELSE LET headers == Len(frame.chain) - 1
             after[k \in 0 .. headers] ==
                 IF k = 0
                 THEN Cursor("go", c.off + 40, c.off + 40 + frame.total, c.off + 40, frame.chain[1].type)
                 ELSE Extension(frame, after[k - 1], frame.chain[k], frame.chain[k + 1].type)
         IN  after[headers]

-----------------------------------------------------------------------------
(* lib.rs *)

\* parse: every observation is taken to start with an Ethernet header.
Parse(frame) ==
    LET c == Ethernet(frame)
    IN  IF frame.len = 0 THEN Fail(c, "short")
        ELSE IF c.status # "go" THEN c
        ELSE CASE c.type = "ip4" -> Transport(frame, Ipv4(frame, c))
               [] c.type = "ip6" -> Transport(frame, Ipv6(frame, c))
               [] c.type = "arp" -> Arp(frame, c)
               [] OTHER -> Fail(c, "unsupported")

Accepted(c) == c.status \in {"arp", "ports", "portless"}

\* correlation/matcher.rs: TCP and UDP need ports, ICMP has none.
Trackable(c) ==
    \/ c.status = "ports"
    \/ c.status = "portless" /\ c.type = "icmp"

-----------------------------------------------------------------------------
(* Properties of the parser over a set of frames *)

\* The parser indexes the packet without a bounds check of its own that
\* could be skipped: it never reads a byte that was not captured, and what it
\* reports as the payload of an accepted packet lies inside it.
ParseStaysInside(frame) ==
    LET c == Parse(frame)
    IN  /\ c.reach <= frame.len
        /\ Accepted(c) => c.off <= c.end /\ c.end <= frame.len

\* Ports never come from Ethernet padding or from a fragment's payload: they
\* are read only from a first fragment whose declared length holds the whole
\* transport header.
PortsAreReal(frame) ==
    LET c == Parse(frame)
    IN  c.status = "ports" => c.first /\ c.reach <= c.end

\* A packet whose headers all fit and say the usual things is not refused.
WellFormed(frame) ==
    LET base == 14 + 4 * (Len(frame.types) - 1)
    IN  /\ Len(frame.types) <= MaxTags + 1
        /\ Last(frame.types) = "ip4" /\ frame.version = 4
        /\ frame.ihl >= 5 /\ frame.ihl * 4 <= frame.total
        /\ base + frame.total <= frame.len
        /\ frame.chain[1].type = "udp" /\ frame.offset = 0
        /\ frame.ulen >= 8 /\ frame.ihl * 4 + frame.ulen <= frame.total

WellFormedIsAccepted(frame) == WellFormed(frame) => Parse(frame).status = "ports"

-----------------------------------------------------------------------------
(* The checksum validation (ipv4.rs, tcp.rs, udp.rs): each parser adds up    *)
(* 16-bit words in a u32 and folds the carries, but lays the pseudo header   *)
(* and the odd last byte out in its own way.  Bytes have Radix values here.  *)
(* A packet is at most 65,535 bytes long, so the u32 cannot overflow and     *)
(* sums are plain naturals.                                                  *)

CONSTANTS
    Radix,       \* values of a byte: 256
    Hosts,       \* addresses, as sequences of an even number of bytes
    Segments,    \* transport segments, as sequences of bytes
    CheckAt      \* the checksum field is the word at this byte of a segment

ASSUME ChecksumAssumption ==
    /\ Radix \in Nat \ {0, 1} /\ CheckAt \in Nat \ {0}
    /\ CheckAt % 2 = 1   \* the field starts a word
    /\ \A s \in Segments : s \in Seq(0 .. Radix - 1) /\ Len(s) > CheckAt /\ Len(s) < Radix * Radix
    /\ \A h \in Hosts : h \in Seq(0 .. Radix - 1) /\ Len(h) % 2 = 0

MaxWord == Radix * Radix - 1

Word(hi, lo) == Radix * hi + lo

\* to_be_bytes of a u16
BigEndian(word) == <<word \div Radix, word % Radix>>

\* The words of a sequence of bytes added up; a last byte without a partner is
\* the high half of a word, so every odd position counts Radix times.
WordSum(bytes) ==
    Total([i \in DOMAIN bytes |-> IF i % 2 = 1 THEN Word(bytes[i], 0) ELSE bytes[i]])

\* while (sum >> 16) != 0 { sum = (sum & 0xffff) + (sum >> 16) }
Folded[sum \in Nat] ==
    IF sum <= MaxWord THEN sum ELSE Folded[(sum % (MaxWord + 1)) + (sum \div (MaxWord + 1))]

\* ipv4::validate_checksum, of the header alone.
Ipv4Valid(header) == Folded[WordSum(header)] = MaxWord

\* tcp::validate_checksum: pseudo header and segment in one buffer, padded.
TcpBuffer(source, destination, segment) ==
    LET pseudo == source \o destination \o <<0, 6 % Radix>> \o BigEndian(Len(segment)) \o segment
    IN  IF Len(pseudo) % 2 # 0 THEN Append(pseudo, 0) ELSE pseudo

TcpValid(source, destination, segment) ==
    Folded[WordSum(TcpBuffer(source, destination, segment))] = MaxWord

\* udp::validate_checksum_ipv4: the parts are added one by one, and a checksum
\* field of zero means that there is none.
UdpSum(source, destination, segment) ==
    WordSum(source) + WordSum(destination) + (17 % Radix) + Len(segment) + WordSum(segment)

UdpValid(source, destination, segment) ==
    \/ Word(segment[CheckAt], segment[CheckAt + 1]) = 0
    \/ Folded[UdpSum(source, destination, segment)] = MaxWord

-----------------------------------------------------------------------------
\* The Internet checksum as arithmetic: the words add up to a multiple of the
\* greatest word, and not to nothing.
ChecksTo(sum) == sum # 0 /\ sum % MaxWord = 0

\* The checksum a sender computes over a segment with an empty field, and the
\* segment with it.
WithField(segment, word) ==
    [segment EXCEPT ![CheckAt] = BigEndian(word)[1], ![CheckAt + 1] = BigEndian(word)[2]]
Complement(sum) == MaxWord - Folded[sum]

\* The three validations accept exactly what the checksum's arithmetic accepts,
\* segments of odd length included; each accepts what a sender fills in and no
\* other field value but the second form of zero; TCP's buffer and UDP's parts
\* make the same sum but for the protocol number.
ChecksumsHold(segment) ==
    \A s, d \in Hosts :
        LET empty == WithField(segment, 0)
            tcp == Complement(WordSum(TcpBuffer(s, d, empty)))
            udp == Complement(UdpSum(s, d, empty))
        IN  /\ Ipv4Valid(segment) <=> ChecksTo(WordSum(segment))
            /\ TcpValid(s, d, segment) <=> ChecksTo(WordSum(TcpBuffer(s, d, segment)))
            /\ WordSum(TcpBuffer(s, d, segment)) + (17 % Radix) = UdpSum(s, d, segment) + (6 % Radix)
            /\ UdpValid(s, d, WithField(segment, IF udp = 0 THEN MaxWord ELSE udp))
            /\ \A word \in 0 .. MaxWord : TcpValid(s, d, WithField(segment, word)) <=>
                  word = tcp \/ {word, tcp} = {0, MaxWord}
=============================================================================
