---------------------------- MODULE StreamDriver ----------------------------
(***************************************************************************)
(* The test driver of src/test/src: multi_run of mqatest.cpp without       *)
(* threads makes a StreamTask of each frame of a capture and calls it at   *)
(* once.  This is one direction of one flow, to which the RTP packets come *)
(* in any order.  With threads no task gets this far: the driver's pools   *)
(* have no procedure, and a queue without one drops the posted function    *)
(* (see Queued and Callee of ThreadPool).                                  *)
(***************************************************************************)
EXTENDS RtcpStream

VARIABLES
    direct,     \* the direction's part of a FlowStreamPair, and its stream
    indirect,   \* history: the stream, had the interface had all packets
    stopped     \* history: the stream became invalid after it was valid

driverVars == <<direct, indirect, stopped>>

\* strm, a pointer, is NULL until the stream is activated.
NewDirection(n) == [rtp |-> NewStream(n), strm |-> FALSE, res |-> <<0, 0>>]

DriverInit ==
    /\ \E n \in DetectSizes : direct = NewDirection(n) /\ indirect = NewStream(n)
    /\ stopped = FALSE

\* IndicateRtpPacket of the interface: a stream that is not valid is asked for
\* detection with each packet it takes.
ThroughInterface(s, p) ==
    LET t == AfterIndicate(s, p)
    IN  IF IndicateReturns(s, p) /\ ~t.valid THEN AfterDetect(t) ELSE t

\* Faulty variant of StreamTask: strm is set by the first packet.
StrmAtOnce(d, p) ==
    LET s == IF d.strm THEN AfterIndicate(d.rtp, p) ELSE ThroughInterface(d.rtp, p)
    IN  [rtp |-> s, strm |-> TRUE,
         res |-> IF s.valid THEN <<s.received, Span(s)>> ELSE d.res]

\* StreamTask::operator().  Until the stream was activated packets go through
\* the direction's interface; from then on they go to the stream, which
\* nobody asks for detection again.  GetMetrics fails, as no delay is known,
\* but has by then put the count and the loss rate, a function of the count
\* and the span, into res.
AfterTask(d, p) ==
    LET s    == IF d.strm THEN AfterIndicate(d.rtp, p) ELSE ThroughInterface(d.rtp, p)
        strm == d.strm \/ (~d.rtp.valid /\ s.valid)
    IN  [rtp |-> s, strm |-> strm,
         res |-> IF strm /\ s.valid THEN <<s.received, Span(s)>> ELSE d.res]

RunTask(p) ==
    /\ direct' = AfterTask(direct, p)
    /\ indirect' = ThroughInterface(indirect, p)
    /\ stopped' = (stopped \/ (direct.rtp.valid /\ ~direct'.rtp.valid))

DriverNext == \E p \in RtpPackets \cup {NotRtp} : RunTask(p)

DriverSpec == DriverInit /\ [][DriverNext]_driverVars

-----------------------------------------------------------------------------

\* Going around the interface changes nothing until the stream stops: it is
\* detected with the same packet, goes through the same states, and what the
\* driver shows is of the latest packet.  A stream that noise stopped is lost
\* for good, whatever follows: it is never found again, as it would be through
\* the interface, and its figures stay what they were.
DirectFollowsInterface ==
    /\ direct.rtp.valid => direct.res = <<direct.rtp.received, Span(direct.rtp)>>
    /\ ~stopped => direct.rtp = indirect /\ (direct.strm <=> direct.rtp.valid)
    /\ stopped => direct.strm /\ ~direct.rtp.valid
=============================================================================
