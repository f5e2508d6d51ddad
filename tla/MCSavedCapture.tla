--------------------------- MODULE MCSavedCapture ---------------------------
(***************************************************************************)
(* Small captures of the kinds of packet that the projections tell apart.  *)
(***************************************************************************)
EXTENDS SavedCapture

\* A TCP packet of a conversation between endpoints 1 and 2.
MCTcp == [frame |-> 0, time |-> 0, shape |-> "ip", tunnel |-> FALSE, network |-> "once",
          transport |-> "tcp", from |-> 1, to |-> 2, fragment |-> FALSE, length |-> 1,
          stream |-> 0, point |-> 0, flags |-> {}]

MCSyn    == [MCTcp EXCEPT !.flags = {"syn"}]
MCAnswer == [MCTcp EXCEPT !.from = 2, !.to = 1, !.flags = {"syn", "ack"}]
MCFin    == [MCTcp EXCEPT !.flags = {"fin", "ack"}]
MCOther  == [MCTcp EXCEPT !.stream = 1]
MCUdp    == [MCTcp EXCEPT !.transport = "udp", !.stream = None]
MCWlan   == [MCTcp EXCEPT !.shape = "wlan"]
MCOff    == [MCWlan EXCEPT !.flags = {"disconnect"}]
MCBroken == [MCTcp EXCEPT !.shape = "broken"]

\* Packets that no conversation or no flow takes.
MCExcluded == {[MCTcp EXCEPT !.tunnel = TRUE], [MCTcp EXCEPT !.to = 1],
               [MCTcp EXCEPT !.network = "other"], [MCTcp EXCEPT !.transport = "other"],
               [MCTcp EXCEPT !.fragment = TRUE], [MCTcp EXCEPT !.length = None],
               [MCTcp EXCEPT !.stream = None]}

MCAt(p, frame, time) == [p EXCEPT !.frame = frame, !.time = time]

\* Three rows: every kind in the middle of a conversation, in and out of order,
\* with a gap of the limit, of more, and of more than is representable.
MCCaptures ==
    {<<>>}
    \cup {<<MCAt(p, 1, 0)>> : p \in {MCTcp, MCUdp, MCWlan, MCOff, MCBroken} \cup MCExcluded}
    \cup {<<MCAt(MCSyn, 1, 0), MCAt(p, f, 1), MCAt(q, 3, t)>> :
             p \in {MCAnswer, MCFin, MCOther, MCUdp, MCOff, MCBroken} \cup MCExcluded,
             f \in {1, 2}, q \in {MCTcp, MCAnswer, MCFin}, t \in {-1, 1, 2, 3, 5}}
    \cup {<<MCAt(MCWlan, 1, 0), MCAt(p, 2, t), MCAt(MCWlan, 3, 2)>> :
             p \in {MCWlan, MCOff, MCUdp, MCBroken}, t \in {0, 1, 3}}
=============================================================================
