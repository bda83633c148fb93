-------------------------- MODULE StatsFrameParser --------------------------
(***************************************************************************)
(* What src/src/StatsFrameParser.cpp makes of one Ethernet frame.          *)
(*                                                                         *)
(* A frame is the sequence of its headers behind the two MAC addresses, so *)
(* that an offset of the code is the index of a header, and the parser     *)
(* reads the header it stands before.  A header is a record whose field    *)
(* "is" names it:                                                          *)
(*   VLAN, PPPOE, ETHER (the EtherType of IP), OTHER (of anything else),   *)
(*   and MPLS with a sequence of labels;                                   *)
(*   MAC, two more addresses, with the first half of its first octet: if   *)
(*   that is the version of an IP header, also with the fields of that     *)
(*   header, as they are read from these octets;                           *)
(*   IP4 and IP6 with addresses, fragment, the next protocol; IP6 with its *)
(*   extension headers of 8 octets, of which ESP can only be the last, and *)
(*   then with spi, what the first two octets of ESP are as a protocol and *)
(*   a length;                                                             *)
(*   UDP, TCP, SCTP with ports; GRE and GTP; DATA where no header starts,  *)
(*   the rest of a fragment or what is encrypted.                          *)
(* Frames are as long as their headers say: a frame that is cut off is     *)
(* read past its end by the code, which is not modelled.  Lengths and the  *)
(* size of the transport header, which only payload readers use, are left  *)
(* out.                                                                    *)
(***************************************************************************)
EXTENDS Integers, Sequences

CONSTANTS
    MaxIds,     \* RTSD_MAX_VLANMPLS_IDS, 8 in the code
    JunkPorts,  \* what is read where no transport header starts
    JunkAddress \* what is read where no IP header starts

ASSUME IdsAssumption == MaxIds \in Nat

\* GPRS_TUNNELING_PORT, and UDP_PORT_GTPU_SWAP, which is compared with a port
\* whose bytes were swapped before.
GtpPorts == {2152, 26632}

\* Frames in which junk spells a port of GTP are left out.
ASSUME JunkAssumption == {JunkPorts[1], JunkPorts[2]} \cap GtpPorts = {}

\* Octets behind the GTP header if any of its flags is set, before the first
\* extension.
GtpOptions == 4

\* StatsIpTransInfo after Reset: the index of the IP header, and the fields
\* of the transport header.
NoInfo == [ip |-> 0, ports |-> <<0, 0>>, proto |-> "NONE"]

\* StatsFrameParser after Reset.
NoParse ==
    [ok |-> FALSE, labels |-> <<>>, tunnel |-> "NONE", tei |-> 0,
     lower |-> NoInfo, upper |-> NoInfo]

-----------------------------------------------------------------------------

\* The first MaxIds of the identifiers are kept, VLAN and MPLS together.
Kept(ids) == SubSeq(ids, 1, IF Len(ids) < MaxIds THEN Len(ids) ELSE MaxIds)

IsIp(h) == h.is \in {"IP4", "IP6"}

\* All ParseIp and the scan of the tags look at: half an octet.
Version(h) ==
    CASE h.is = "IP4" -> 4
      [] h.is = "IP6" -> 6
      [] h.is = "MAC" -> h.nibble
      [] OTHER        -> 0

LooksIp(h) == Version(h) \in {4, 6}

\* Faulty variant: the identifiers are stored without their flags.
TagIdsBare(h) == IF h.is = "VLAN" THEN <<<<"ID", h.id>>>> ELSE [k \in DOMAIN h.ids |-> <<"ID", h.ids[k]>>]

\* The identifiers of a tag, each with the flag of its kind.
TagIds(h) ==
    IF h.is = "VLAN" THEN <<<<"VLAN", h.id>>>> ELSE [k \in DOMAIN h.ids |-> <<"MPLS", h.ids[k]>>]

\* ParseVLANMPLSIds: the identifiers in front of the header at i, the index
\* behind the tags, and whether an IP header may follow.  Behind an MPLS stack
\* whatever looks like an IP header is one, and all else another pair of MAC
\* addresses.
Tags(frame) ==
    LET scan[i \in 1..(Len(frame) + 1)] ==
            IF i > Len(frame) THEN [ids |-> <<>>, next |-> i, ok |-> TRUE]
            ELSE CASE frame[i].is = "VLAN" ->
                        [scan[i + 1] EXCEPT !.ids = TagIds(frame[i]) \o @]
                   [] frame[i].is = "MPLS" /\ LooksIp(frame[i + 1]) ->
                        [ids |-> TagIds(frame[i]), next |-> i + 1, ok |-> TRUE]
                   [] frame[i].is = "MPLS" /\ ~LooksIp(frame[i + 1]) ->
                        [scan[i + 2] EXCEPT !.ids = TagIds(frame[i]) \o @]
                   [] frame[i].is \in {"PPPOE", "ETHER"} ->
                        [ids |-> <<>>, next |-> i + 1, ok |-> TRUE]
                   [] OTHER -> [ids |-> <<>>, next |-> i, ok |-> FALSE]
    IN  scan[1]

\* Bytes in front of the header at i.
Size(h) ==
    CASE h.is = "VLAN"             -> 4
      [] h.is = "MPLS"             -> 2 + 4 * Len(h.ids)
      [] h.is = "MAC"              -> 12
      [] h.is \in {"ETHER", "OTHER"} -> 2
      [] h.is = "PPPOE"            -> 10
      [] h.is = "IP4"              -> 20
      [] h.is = "IP6"              -> 40 + 8 * Len(h.exts)
      [] h.is = "GRE"              -> IF h.key THEN 8 ELSE 4
      [] h.is = "GTP"              -> 8 + h.extra
      [] OTHER                     -> 8

Offset(frame, i) ==
    LET sum[n \in 0..(i - 1)] == IF n = 0 THEN 12 ELSE sum[n - 1] + Size(frame[n])
    IN  sum[i - 1]

-----------------------------------------------------------------------------

\* The loop over the extension headers of IPv6 ends well only behind an ESP
\* header; UDP and TCP behind the others are a protocol it does not know.
ExtensionsEnd(h) == \E n \in 1..Len(h.exts) : h.exts[n] = "ESP"

\* ParseIp, ParseIpv4, ParseIpv6: only a fragment that is neither the first
\* nor the last is refused.
IpAccepted(frame, i) ==
    /\ i <= Len(frame) /\ LooksIp(frame[i])
    /\ frame[i].frag # "middle"
    /\ Version(frame[i]) = 6 => ExtensionsEnd(frame[i])

\* nTransProto.  ESP is read like the other extension headers, although it
\* begins with an index: two octets of it are the protocol and the length.
TransProto(h) == IF Version(h) = 6 THEN h.spi.next ELSE h.next

\* Whether nIpHeaderLength, an octet, leads to the header that is there.
TransFound(h) ==
    h.is = "IP4" \/ (h.is = "IP6" /\ (Size(h) + 8 * h.spi.len) % 256 = Size(h))

\* The ports behind the IP header at i.
PortsAt(frame, i) ==
    IF TransFound(frame[i]) /\ i < Len(frame) /\ frame[i + 1].is \in {"UDP", "TCP", "SCTP"}
    THEN frame[i + 1].ports ELSE JunkPorts

\* The information of one IP header and the transport header behind it.
Info(frame, i) ==
    [ip |-> i, proto |-> TransProto(frame[i]),
     ports |-> IF TransProto(frame[i]) \in {"UDP", "TCP", "SCTP"} THEN PortsAt(frame, i) ELSE <<0, 0>>]

\* ParseUpper: ParseIp and ParseTrans on the header a tunnel carries, where
\* no further tunnel is followed.
UpperAccepted(frame, i) ==
    /\ IpAccepted(frame, i)
    /\ TransProto(frame[i]) \in {"UDP", "TCP", "SCTP"}

\* ParseGTP.  A GTP packet that is neither user data, an end marker nor an
\* error indication is accepted like those two, with nothing above it.
ParseGTP(p, frame, i) ==
    LET h == frame[i]
        q == [p EXCEPT !.tunnel = "GTP"]
        stuck == h.extra > GtpOptions /\ Offset(frame, i) + 8 + h.extra > 255
    IN  IF i > Len(frame) \/ h.is # "GTP" \/ h.msg # "GPDU" THEN [q EXCEPT !.ok = TRUE]
        ELSE IF stuck \/ ~UpperAccepted(frame, i + 1) THEN q
        ELSE [q EXCEPT !.tei = h.tei, !.upper = Info(frame, i + 1), !.ok = TRUE]

\* ParseGRE: source routing is not followed, and nothing behind data is read
\* as IP.
ParseGRE(p, frame, i) ==
    LET h == frame[i]
        q == [p EXCEPT !.tunnel = "GRE"]
    IN  IF i > Len(frame) \/ h.is # "GRE" \/ h.routing \/ ~UpperAccepted(frame, i + 1) THEN q
        ELSE [q EXCEPT !.tei = IF h.key THEN h.tei ELSE 0, !.upper = Info(frame, i + 1), !.ok = TRUE]

\* ParseTrans below: a tunnel is known by GRE or by the port of GTP.
ParseTrans(p, frame, i) ==
    LET proto == TransProto(frame[i])
        gtp == proto = "UDP" /\ {p.lower.ports[1], p.lower.ports[2]} \cap GtpPorts # {}
    IN  CASE gtp            -> ParseGTP(p, frame, i + 2)
          [] proto = "GRE"  -> ParseGRE(p, frame, i + 1)
          [] OTHER          -> [p EXCEPT !.ok = proto \in {"UDP", "TCP", "SCTP"}]

\* ParseFrame of a parser no frame was given before.
ParseFrame(frame) ==
    LET tags == Tags(frame)
        q == [NoParse EXCEPT !.labels = Kept(tags.ids)]
    IN  IF ~tags.ok \/ ~IpAccepted(frame, tags.next) THEN q
        ELSE ParseTrans([q EXCEPT !.lower = Info(frame, tags.next)], frame, tags.next)

-----------------------------------------------------------------------------

\* IpAddrOffset is an octet: behind it the addresses are read from the
\* beginning of the frame.
InOctet(frame, i) ==
    Offset(frame, i) + (IF Version(frame[i]) = 4 THEN 12 ELSE 8) <= 255

\* SrcIp and DestIp of an info.
Addresses(frame, info) ==
    IF info.ip # 0 /\ InOctet(frame, info.ip)
    THEN <<frame[info.ip].src, frame[info.ip].dst>>
    ELSE <<JunkAddress, JunkAddress>>
=============================================================================
