------------------------------ MODULE PacketDump ------------------------------
(***************************************************************************)
(* The packet printers of src/RawSocket: Printing/packet_printer.cpp reads a  *)
(* raw TCP socket, libpcap/filename.cpp and libpcap/ScreenPrint.cpp a capture  *)
(* with Ethernet headers.  They count packets by protocol and print three      *)
(* dumps of every TCP, UDP and ICMP packet: "IP Header", "TCP Header" (or      *)
(* "UDP", "ICMP") and "Data Payload".                                         *)
(*                                                                          *)
(* What is modelled is which bytes of the buffer are dumped, and where on the   *)
(* page.  A byte is its offset; the fields printed by name, the dot for bytes   *)
(* that are not printable and the columns' blanks are left out.                *)
(***************************************************************************)
EXTENDS Integers, Sequences, FiniteSets

CONSTANTS
    Sizes,        \* bytes in a packet
    Words,        \* header lengths the packet claims, in words of 4 bytes
    MaxPackets    \* bound on the packets received

ASSUME SizesAssumption == Sizes \subseteq Nat
ASSUME WordsAssumption == Words \subseteq 0..15
ASSUME MaxPacketsAssumption == MaxPackets \in Nat

VARIABLES
    program,      \* "packet_printer" or "filename"
    pkt,          \* the packet in the buffer
    total, count, \* of all packets, and by protocol
    dumps,        \* calls of PrintData still to be made: from which byte, how many
    i,            \* the loop variable of the first of them
    rows,         \* what it has printed: offsets in the hex and the text column
    shown,        \* bytes of the packet dumped so far
    printed       \* number of bytes dumped so far

dumpvars == <<program, pkt, total, count, dumps, i, rows, shown, printed>>

ICMP == 1
IGMP == 2
TCP == 6
UDP == 17
Others == 0
Protocols == {ICMP, IGMP, TCP, UDP, Others}

ethhdr == 14                    \* sizeof(struct ethhdr)
pointer == 8                    \* sizeof udph, sizeof icmph: pointers both
PerRow == 16

Packets == [protocol : Protocols, size : Sizes, ihl : Words, doff : Words]

DumpInit ==
    /\ program \in {"packet_printer", "filename"}
    /\ pkt = [protocol |-> Others, size |-> 0, ihl |-> 0, doff |-> 0]
    /\ total = 0 /\ count = [p \in Protocols |-> 0]
    /\ dumps = <<>> /\ i = 0 /\ rows = <<>> /\ shown = {} /\ printed = 0

-----------------------------------------------------------------------------
(* The dumps of a packet.  ihl and doff are what is found behind the length of  *)
(* an Ethernet header, whether the buffer begins with one or not.               *)

Dump(from, len) == [from |-> from, len |-> len]

\* seeded bug: doff is taken for bytes in header_size
print_tcp_packet_words(p) ==
    LET iphdrlen == 4 * p.ihl
        header_size == ethhdr + iphdrlen + p.doff
    IN  << Dump(0, iphdrlen), Dump(iphdrlen, 4 * p.doff),
           Dump(header_size, p.size - header_size) >>

print_tcp_packet(p) ==
    LET iphdrlen == 4 * p.ihl
        header_size == ethhdr + iphdrlen + 4 * p.doff
    IN  << Dump(0, iphdrlen), Dump(iphdrlen, 4 * p.doff),
           Dump(header_size, p.size - header_size) >>

print_udp_packet(p) ==
    LET iphdrlen == 4 * p.ihl
        header_size == ethhdr + iphdrlen + pointer
    IN  << Dump(0, iphdrlen), Dump(iphdrlen, pointer),
           Dump(header_size, p.size - header_size) >>

print_icmp_packet(p) ==
    LET iphdrlen == 4 * p.ihl
        header_size == ethhdr + iphdrlen + pointer
    IN  << Dump(0, iphdrlen), Dump(iphdrlen, pointer),
           Dump(header_size, p.size - header_size) >>

DumpsOf(p) ==
    CASE p.protocol = TCP  -> print_tcp_packet(p)
      [] p.protocol = UDP  -> print_udp_packet(p)
      [] p.protocol = ICMP -> print_icmp_packet(p)
      [] OTHER -> <<>>

\* The kernel gives packet_printer's socket TCP packets only.  The capture has
\* everything, and frames that are not IP are counted under what happens to be
\* in the protocol field's place.
Receivable(p) == program = "packet_printer" => p.protocol = TCP

process_packet ==
    \E p \in Packets :
        /\ dumps = <<>> /\ total < MaxPackets
        /\ Receivable(p)
        /\ pkt' = p
        /\ total' = total + 1
        /\ count' = [count EXCEPT ![p.protocol] = @ + 1]
        /\ dumps' = DumpsOf(p)
        /\ i' = 0 /\ rows' = <<>> /\ shown' = {} /\ printed' = 0
        /\ UNCHANGED program

-----------------------------------------------------------------------------
(* PrintData: one pass of its loop.  The hex column of a row grows by a byte;  *)
(* the text column is written when the next row begins, or at the last byte.   *)

Offsets(from, to) == [k \in 1..to - from |-> from + k - 1]

WithText(rs, text) == [rs EXCEPT ![Len(rs)].text = text]

RowEnded(rs) ==
    IF i # 0 /\ i % PerRow = 0 THEN WithText(rs, Offsets(i - PerRow, i)) ELSE rs

RowBegun(rs) ==
    IF i % PerRow = 0 THEN Append(rs, [hex |-> <<>>, text |-> <<>>]) ELSE rs

HexPrinted(rs) == [rs EXCEPT ![Len(rs)].hex = Append(@, i)]

\* seeded bug: a last row that is full is left to the next pass
LastRowEndedShort(rs, Size) ==
    IF i = Size - 1 /\ i % PerRow # PerRow - 1
      THEN WithText(rs, Offsets(i - (i % PerRow), i + 1)) ELSE rs

LastRowEnded(rs, Size) ==
    IF i = Size - 1 THEN WithText(rs, Offsets(i - (i % PerRow), i + 1)) ELSE rs

PrintByte ==
    LET d == Head(dumps) IN
    /\ dumps # <<>> /\ i < d.len
    /\ rows' = LastRowEnded(HexPrinted(RowBegun(RowEnded(rows))), d.len)
    /\ i' = i + 1
    /\ shown' = shown \union {d.from + i} /\ printed' = printed + 1
    /\ UNCHANGED <<program, pkt, total, count, dumps>>

PrintEnds ==
    /\ dumps # <<>> /\ i >= Head(dumps).len
    /\ dumps' = Tail(dumps)
    /\ i' = 0 /\ rows' = <<>>
    /\ UNCHANGED <<program, pkt, total, count, shown, printed>>

DumpNext == process_packet \/ PrintByte \/ PrintEnds

DumpSpec == DumpInit /\ [][DumpNext]_dumpvars

-----------------------------------------------------------------------------
\* When PrintData (packet_printer.cpp:47) is done, it has printed each of its
\* bytes once in the hex column and once in the text column beside it, sixteen
\* to a row and the rest in the last: also for a multiple of sixteen, one byte,
\* none, and the negative length of a packet shorter than it claims.
RowsOf(Size) ==
    LET full == Size \div PerRow
        rest == IF Size % PerRow = 0 THEN 0 ELSE 1
        Row(r) == Offsets(PerRow * (r - 1), IF r <= full THEN PerRow * r ELSE Size)
    IN  IF Size <= 0 THEN <<>> ELSE [r \in 1..full + rest |-> [hex |-> Row(r), text |-> Row(r)]]

PageComplete ==
    dumps # <<>> /\ i >= Head(dumps).len => rows = RowsOf(Head(dumps).len)

\* The three dumps of a packet never show a byte twice, and what they leave out
\* of it is at most the length of an Ethernet header in front of the payload:
\* "IP Header" is dumped from the start of the buffer, the header after it from
\* Buffer+iphdrlen, but the payload from behind all three headers
\* (filename.cpp:196).  They go beyond the packet, into what an earlier one left
\* in the buffer, only when its headers claim more than there is.
HeaderLength(p) == 4 * p.ihl + (IF p.protocol = TCP THEN 4 * p.doff ELSE pointer)

DumpsCoverPacket ==
    dumps = <<>> /\ pkt.protocol \in {TCP, UDP, ICMP} =>
        LET bytes == 0..pkt.size - 1
            headers == HeaderLength(pkt)
        IN  /\ printed = Cardinality(shown)
            /\ bytes \ shown \subseteq headers..headers + ethhdr - 1
            /\ (shown \ bytes # {} => headers > pkt.size)

=============================================================================
