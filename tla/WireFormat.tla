----------------------------- MODULE WireFormat -----------------------------
(***************************************************************************)
(* Segments as text: tcp.c prints a segment with sprintf, ip.c puts a      *)
(* header with the total length before it, managers write the result into  *)
(* the in-packet fifo of the destination, and the manager there cuts the   *)
(* stream into packets again and scans them with sscanf.                   *)
(*                                                                         *)
(* Characters are ASCII codes.  The widths of the fields are parameters,   *)
(* in proportion to each other and to the range of an int.                 *)
(***************************************************************************)
EXTENDS Integers, Sequences, SequencesExt

CONSTANTS
    PortWidth, NumWidth,                    \* 5 and 10: the fields of tcp_str_repr
    LengthWidth, IpWidth, IpChecksumWidth,  \* 10, 16 and 8: the fields of ip.c
    IntLimit,           \* INT_MAX + 1
    Home,               \* the ip of the manager that reads
    Sender,             \* the ips of the managers that write
    SegmentToSend,      \* what sockets construct, without the checksum
    PIPE_CAPACITY,
    None, Dropped       \* no packet read yet; one that no socket gets to see

VARIABLES
    fifo,       \* the text in the in-packet fifo of Home
    lengthRead, \* read_ip_packet_from_file: total_length_str
    handed,     \* handle_incoming_ip_packet: what it gives to handle_packet
    unread      \* history: what was sent and is not handled yet

vars == <<fifo, lengthRead, handed, unread>>

----------------------------------------------------------------------------
(* printf, scanf and the conversions of ip.c.                              *)

Zero == 48
Nine == 57
Space == 32
Minus == 45
Plus == 43
Whitespace == (9 .. 13) \union {Space}
IsDigit(c) == c \in Zero .. Nine

\* Arithmetic on int wraps around.
Wrap(n) == ((n + IntLimit) % (2 * IntLimit)) - IntLimit

int_to_str(size, n) == [i \in 1 .. size |-> Zero + ((n \div 10^(size - i)) % 10)]
str_to_int(text) == FoldLeft(LAMBDA result, c : 10 * result + c - Zero, 0, text)

\* %d, padded on the left to width; longer numbers are printed in full.
Decimal(n) ==
    int_to_str(CHOOSE k \in 1 .. NumWidth : n < 10^k /\ (k = 1 \/ n >= 10^(k - 1)), n)
Printed(n) == IF n < 0 THEN <<Minus>> \o Decimal(-n) ELSE Decimal(n)
Pad(text, width, c) == [i \in 1 .. width - Len(text) |-> c] \o text

LongestPrefix(text, Accepts(_)) ==
    Max({k \in 0 .. Len(text) : \A i \in 1 .. k : Accepts(i)})

SkipBlanks(text) ==
    LET k == LongestPrefix(text, LAMBDA i : text[i] \in Whitespace)
    IN SubSeq(text, k + 1, Len(text))

\* %d with a width in scanf: blanks are skipped and do not count, then a sign
\* and digits are taken, at most width characters.
Scan(text, width) ==
    LET t == SkipBlanks(text)
        k == LongestPrefix(t, LAMBDA i :
                i <= width /\ (IsDigit(t[i]) \/ (i = 1 /\ t[i] \in {Minus, Plus})))
        number == SubSeq(t, 1, k)
        digits == SelectSeq(number, IsDigit)
        magnitude == str_to_int(digits)
    IN [ok |-> digits # <<>>,
        value |-> Wrap(IF Minus \in ToSet(number) THEN -magnitude ELSE magnitude),
        rest |-> SubSeq(t, k + 1, Len(t))]

----------------------------------------------------------------------------
(* tcp.c and ip.c.                                                         *)

calc_checksum(p) == Wrap(p.src_port + p.dst_port + p.seq_num + p.ack_num + p.flags)

\* What construct_packet puts into the checksum.
SentChecksum_BeforeFlags(p) == calc_checksum([p EXCEPT !.flags = 0])
SentChecksum(p) == calc_checksum(p)

\* A checksum of more than NumWidth characters moves the data to the right.  (The
\* code also writes the last byte behind the memory it has allocated; what that
\* does is not in the model.)
tcp_to_str(p) ==
    Pad(Printed(p.src_port), PortWidth, Zero) \o Pad(Printed(p.dst_port), PortWidth, Zero)
    \o Pad(Printed(p.seq_num), NumWidth, Zero) \o Pad(Printed(p.ack_num), NumWidth, Zero)
    \o <<p.flags>> \o Pad(Printed(SentChecksum(p)), NumWidth, Space) \o p.data

TcpHeader == 2 * PortWidth + 3 * NumWidth + 1

DataAfterHeader_OneEarly(text) == SubSeq(text, TcpHeader, Len(text))
DataAfterHeader(text) == SubSeq(text, TcpHeader + 1, Len(text))

str_to_tcp(text) ==
    LET src == Scan(text, PortWidth)
        dst == Scan(src.rest, PortWidth)
        seq == Scan(dst.rest, NumWidth)
        ack == Scan(seq.rest, NumWidth)
        sum == Scan(Tail(ack.rest), NumWidth)
    IN IF src.ok /\ dst.ok /\ seq.ok /\ ack.ok /\ ack.rest # <<>> /\ sum.ok
       THEN [segment |-> [src_port |-> src.value, dst_port |-> dst.value,
                          seq_num |-> seq.value, ack_num |-> ack.value,
                          flags |-> Head(ack.rest), data |-> DataAfterHeader(text)],
             checksum |-> sum.value]
       ELSE None

calc_ip_checksum == 5
IpHeader == LengthWidth + 2 * IpWidth + IpChecksumWidth

\* create_ip_packet and ip_to_str.
ip_to_str(src, data) ==
    int_to_str(LengthWidth, IpHeader + Len(data)) \o src \o Home
    \o int_to_str(IpChecksumWidth, calc_ip_checksum) \o data

str_to_ip(text) ==
    LET ip(from) == SubSeq(text, from + 1, from + IpWidth)
    IN [src |-> ip(LengthWidth), dst |-> ip(LengthWidth + IpWidth),
        checksum |-> str_to_int(SubSeq(text, IpHeader - IpChecksumWidth + 1, IpHeader)),
        data |-> SubSeq(text, IpHeader + 1, Len(text))]

----------------------------------------------------------------------------
(* The managers.                                                           *)

Init == fifo = <<>> /\ lengthRead = <<>> /\ handed = None /\ unread = <<>>

\* send_TCP_packet.  A packet is shorter than PIPE_BUF, so write() puts all of
\* it into the fifo at once, and waits while the fifo is too full.
SendTcpPacket(ip, p) ==
    LET text == ip_to_str(ip, tcp_to_str(p)) IN
    /\ Len(fifo) + Len(text) <= PIPE_CAPACITY
    /\ fifo' = fifo \o text
    /\ unread' = Append(unread, [src |-> ip, segment |-> p])
    /\ UNCHANGED <<lengthRead, handed>>

\* read_ip_packet_from_file: the length first.
ReadLength ==
    /\ lengthRead = <<>> /\ handed = None
    /\ Len(fifo) >= LengthWidth
    /\ lengthRead' = SubSeq(fifo, 1, LengthWidth)
    /\ fifo' = SubSeq(fifo, LengthWidth + 1, Len(fifo))
    /\ UNCHANGED <<handed, unread>>

RestLength_All(text) == Scan(text, LengthWidth).value
RestLength(text) == Scan(text, LengthWidth).value - LengthWidth

\* handle_incoming_ip_packet up to the lookup of the socket.
Checked(packet) ==
    LET p == str_to_tcp(packet.data) IN
    IF /\ packet.checksum = calc_ip_checksum /\ packet.dst = Home
       /\ p # None /\ calc_checksum(p.segment) = p.checksum
    THEN [src |-> packet.src, segment |-> p.segment]
    ELSE Dropped

\* The rest of the packet; read_nonzero_entire_message waits for it.
ReadRest ==
    LET n == RestLength(lengthRead) IN
    /\ lengthRead # <<>> /\ Len(fifo) >= n
    /\ handed' = Checked(str_to_ip(lengthRead \o SubSeq(fifo, 1, n)))
    /\ fifo' = SubSeq(fifo, n + 1, Len(fifo))
    /\ lengthRead' = <<>>
    /\ UNCHANGED unread

\* The handler is done with the packet.
Handled ==
    /\ handed # None
    /\ handed' = None
    /\ unread' = Tail(unread)
    /\ UNCHANGED <<fifo, lengthRead>>

Next ==
    \/ \E ip \in Sender, p \in SegmentToSend : SendTcpPacket(ip, p)
    \/ ReadLength \/ ReadRest \/ Handled

Spec == Init /\ [][Next]_vars

----------------------------------------------------------------------------
(* Properties.                                                             *)

\* Whatever writers interleave and whatever data looks like a length, the
\* reader stands at the border of two packets whenever it starts to read, and
\* the rest of a packet whose length it has read is there.
Remaining == IF handed = None THEN unread ELSE Tail(unread)
PacketsStayWhole ==
    lengthRead \o fifo = FlattenSeq([i \in DOMAIN Remaining |->
        ip_to_str(Remaining[i].src, tcp_to_str(Remaining[i].segment))])

\* What a handler gets was sent by the manager it is said to come from, and in
\* this order: no digit moves from one field, or from the data, into another
\* without the checksum noticing, also when the sum wraps around.
NothingGarbled == handed \notin {None, Dropped} => handed = Head(unread)

\* A segment that has no digit as its first byte of data gets through, as does
\* one whose checksum has no blanks to skip, as long as the sum is an int.
Sum(p) == p.src_port + p.dst_port + p.seq_num + p.ack_num + p.flags
FitsInt(p) == Sum(p) < IntLimit
StartsWithDigit(p) == p.data # <<>> /\ IsDigit(p.data[1])
OrdinarySegmentsPass == handed = Dropped =>
    LET p == Head(unread).segment IN
    \/ ~FitsInt(p)
    \/ StartsWithDigit(p) /\ Sum(p) < 10^(NumWidth - 1)

----------------------------------------------------------------------------
(* What documents say and the code does not do.                            *)

\* network.h, SocketSend: the message is transmitted, whatever its bytes are.
EverySegmentPasses == handed = Dropped => ~FitsInt(Head(unread).segment)
=============================================================================
