----------------------------- MODULE MCAnalysis -----------------------------
(* Analysis with a few frames, reports and times. *)
EXTENDS Analysis

Ip4(a, b, next) == [is |-> "IP4", src |-> a, dst |-> b, frag |-> "none", next |-> next]

Udp(a, b, s, d) == <<Ip4(a, b, "UDP"), [is |-> "UDP", ports |-> <<s, d>>]>>

Ip6(a, b, exts, spi) ==
    [is |-> "IP6", src |-> a, dst |-> b, frag |-> "none", next |-> "UDP", exts |-> exts, spi |-> spi]

\* IPv6 is parsed only behind an ESP header, and as what that seems to say.
Esp(a, b, proto, len) ==
    <<Ip6(a, b, <<"ESP">>, [next |-> proto, len |-> len]), [is |-> "UDP", ports |-> <<1, 2>>]>>

NoEsp(a, b, s, d) ==
    <<Ip6(a, b, <<>>, [next |-> "OTHER", len |-> 0]), [is |-> "UDP", ports |-> <<s, d>>]>>

Plain(headers) == <<[is |-> "ETHER"]>> \o headers

Vlan(id) == <<[is |-> "VLAN", id |-> id]>>

Mpls(ids) == <<[is |-> "MPLS", ids |-> ids]>>

Mac == <<[is |-> "MAC", nibble |-> 0]>>

\* An address that begins as an IPv4 header does.
MacAsIp(a, b) ==
    <<[is |-> "MAC", nibble |-> 4, src |-> a, dst |-> b, frag |-> "none", next |-> "UDP"]>>

GtpHeader(msg, tei, extra) == <<[is |-> "GTP", msg |-> msg, tei |-> tei, extra |-> extra]>>

Gtp(msg, tei, extra) == Plain(Udp(8, 9, 1, 2152)) \o GtpHeader(msg, tei, extra)

Gre(key, routing, tei) ==
    Plain(<<Ip4(8, 9, "GRE"), [is |-> "GRE", key |-> key, routing |-> routing, tei |-> tei]>>)

\* A first fragment has the ports, the others have not.
Fragment(frag, behind) == Plain(<<[Ip4(3, 4, "UDP") EXCEPT !.frag = frag], behind>>)

Rest == [is |-> "DATA"]

MCTraffics ==
    {{Plain(Udp(3, 4, 1, 2)), Plain(Udp(4, 3, 2, 1))},
     {Plain(Udp(3, 4, 1, 2)), Plain(Udp(4, 3, 1, 2))},
     {Vlan(5) \o Plain(Udp(3, 4, 1, 2)), Vlan(5) \o Vlan(6) \o Plain(Udp(4, 3, 2, 1))},
     {Vlan(5) \o Plain(Udp(3, 4, 1, 2)), Mpls(<<5>>) \o Udp(3, 4, 1, 2)},
     {Mpls(<<5, 6>>) \o Mac \o Plain(Udp(3, 4, 1, 2)), Mpls(<<5, 6>>) \o Udp(4, 3, 2, 1)},
     {Mpls(<<5, 6>>) \o MacAsIp(7, 7) \o Plain(Udp(3, 4, 1, 2)), Mpls(<<5, 6>>) \o Udp(3, 4, 1, 2),
      <<[is |-> "OTHER"]>> \o Udp(3, 4, 1, 2)},
     {Gtp("GPDU", 7, 0) \o Udp(3, 4, 1, 2), Gtp("GPDU", 7, 4) \o Udp(4, 3, 2, 1)},
     {Gtp("GPDU", 7, 0) \o Udp(3, 4, 1, 2), Gtp("GPDU", 6, 0) \o Udp(3, 4, 1, 2)},
     {Gtp("GPDU", 7, 0) \o Udp(5, 6, 1, 2152) \o GtpHeader("GPDU", 4, 0) \o Udp(3, 4, 1, 2),
      Gtp("GPDU", 7, 0) \o Udp(5, 6, 1, 2152) \o GtpHeader("GPDU", 3, 0) \o Udp(4, 3, 2, 1)},
     {Gtp("ECHO", 7, 0), Gtp("GPDU", 7, 0) \o <<Rest>>, Fragment("last", Rest)},
     {Fragment("first", [is |-> "UDP", ports |-> <<1, 2>>]), Fragment("middle", Rest),
      Plain(Udp(4, 3, 2, 1))},
     {Gre(TRUE, FALSE, 7) \o Udp(3, 4, 1, 2), Gre(FALSE, FALSE, 7) \o Udp(3, 4, 1, 2),
      Gre(FALSE, TRUE, 7) \o Udp(3, 4, 1, 2)},
     {Plain(Esp(3, 4, "TCP", 0)), Plain(Esp(4, 3, "UDP", 1)), Plain(Esp(3, 4, "OTHER", 0))},
     {<<[is |-> "PPPOE"]>> \o NoEsp(3, 4, 1, 2), Plain(Esp(3, 4, "UDP", 0))}}

MCJunkPorts == <<98, 99>>

Report(type, ssrc, sender, blocks) ==
    [valid |-> TRUE, fits |-> TRUE, type |-> type, ssrc |-> ssrc, sender |-> sender,
     blocks |-> blocks]

Block(ssrc, dlxr) == [ssrc |-> ssrc, dlxr |-> dlxr]

MCReports ==
    {Report("SR", 1, 3, <<Block(2, 0)>>), Report("SR", 2, 4, <<Block(1, 11)>>),
     Report("SR", 1, 5, <<Block(1, 27)>>), Report("SR", 1, 5, <<>>),
     Report("SR", 1, 6, <<Block(0, 0), Block(1, 0)>>),
     [Report("SR", 1, 3, <<Block(1, 0)>>) EXCEPT !.fits = FALSE],
     [Report("SR", 1, 3, <<Block(1, 0)>>) EXCEPT !.valid = FALSE],
     Report("RR", 2, 0, <<Block(1, 11)>>), Report("OTHER", 1, 0, <<Block(1, 0)>>)}

MCRtpPackets == [cc: {0}, ssrc: {1, 2}, seq: 0..1, ts: {0}, pt: {0}]

MCAmounts == -11..11
=============================================================================
