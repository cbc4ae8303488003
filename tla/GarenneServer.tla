---------------------------- MODULE GarenneServer ---------------------------
(***************************************************************************)
(* The rabbit serving HTTP on its LAN: the connection table of tcp.mtl,    *)
(* the request table of server.mtl, the 100 ms timer task, and the peers   *)
(* that connect over a radio that loses, repeats, delays and reorders.     *)
(*                                                                         *)
(* A peer stands for one (address, port) pair opening towards port 80, so  *)
(* it connects once; a browser that tries again is another peer.  Its TCP  *)
(* is an ordinary one and is modelled from what the rabbit expects of it.  *)
(*                                                                         *)
(* The air keeps every segment ever sent: a step may deliver any of them,  *)
(* again, late, or never.                                                  *)
(***************************************************************************)
EXTENDS GarenneTcp, FiniteSets

CONSTANTS Peers,       \* the (address, port) pairs that may connect
          Requests,    \* what a peer may ask, as sequences of request units
          MaxConns,    \* TCP_MAX_CONNS
          MaxEmbryos,  \* bound: how often a peer's SYN is accepted
          Iss(_, _),   \* Iss(p, n): our first sequence number at the n-th accept
          PeerIss      \* the peer's first sequence number

ASSUME ServerAssumption ==
  /\ IsFiniteSet(Peers)
  /\ Requests \subseteq Seq(RequestUnits)
  /\ MaxConns \in Nat /\ MaxEmbryos \in Nat
  /\ \A p \in Peers, n \in 0 .. MaxEmbryos : Iss(p, n) \in SeqNums
  /\ PeerIss \in SeqNums

\* Our first sequence number is the clock in milliseconds (_tcp_iss), while a
\* stream counts bytes: two connections of one peer have streams apart when the
\* second begins later than the first is long, its SYN and FIN included.  And no
\* stream goes round the sequence space.  Runs and specification do without
\* this; the theorems about what the two ends have said to each other assume it.
StreamsApart ==
  /\ \A req \in Requests : Len(req) + 2 <= SeqMod
  /\ \A status \in Statuses : RespLen[status] + 2 < SeqMod
  /\ \A p \in Peers, m \in 0 .. MaxEmbryos - 1, n \in 0 .. MaxEmbryos - 1, status \in Statuses :
        m # n => \A j \in 0 .. RespLen[status] + 2 : Iss(p, n) # SeqAdd(Iss(p, m), j)

VARIABLES conns,     \* conns[p]: the record of _tcp_conns for p, NoConn without one
          hsrv,      \* hsrv[p]: the entry of _hsrv_reqs, and the history of p
          embryos,   \* embryos[p]: how often a SYN of p was accepted
          peers,     \* peers[p]: the peer's own connection
          toRabbit,  \* toRabbit[p]: every segment p has sent
          toPeer     \* toPeer[p]: every segment the rabbit has sent to p

vars == <<conns, hsrv, embryos, peers, toRabbit, toPeer>>

RequestSegments == Segments(Seq(RequestUnits))
ReplySegments   == Segments(Seq(ResponseUnits))

Conn == [state : TcpStates, snd_nxt : SeqNums, rcv_nxt : SeqNums,
         unacked : SUBSET ReplySegments, retries : 0 .. MaxRetries,
         txq : Seq(Seq(ResponseUnits)), close_after : BOOLEAN, rwnd : Nat,
         rwnd_push : BOOLEAN]

\* idle: not yet tried; over: the connection is forgotten and what comes for
\* it is refused by RST.  A peer that is switched off or walks out of range
\* is one that takes no further step.
Peer == [state : {"idle", "syn", "open", "over"},
         req : Requests \cup {<<>>}, sent : Nat, fin : BOOLEAN,
         rcv : SeqNums, got : Seq(ResponseUnits), eof : BOOLEAN]
NewPeer == [state |-> "idle", req |-> <<>>, sent |-> 0, fin |-> FALSE,
            rcv |-> 0, got |-> <<>>, eof |-> FALSE]

Live     == {p \in Peers : conns[p].state # "CLOSED"}
InFlight == {p \in Live : conns[p].unacked # {}}

Init == /\ conns = [p \in Peers |-> NoConn]
        /\ hsrv = [p \in Peers |-> NoHsrv]
        /\ embryos = [p \in Peers |-> 0]
        /\ peers = [p \in Peers |-> NewPeer]
        /\ toRabbit = [p \in Peers |-> {}]
        /\ toPeer = [p \in Peers |-> {}]

-----------------------------------------------------------------------------
(* The rabbit. *)

Machine(p) == [conn |-> conns[p], out |-> {}, up |-> hsrv[p]]

\* A handler that touches only p's connection leaves m behind.
Leave(p, m) == /\ conns' = [conns EXCEPT ![p] = m.conn]
               /\ hsrv' = [hsrv EXCEPT ![p] = m.up]
               /\ toPeer' = [toPeer EXCEPT ![p] = @ \cup m.out]

\* tcp_input, unknown connection: a fresh SYN below the cap is accepted.  A
\* segment the code drops in silence changes nothing and is no step here.
RxUnknown(p, s) ==
  /\ conns[p].state = "CLOSED"
  /\ "SYN" \in s.flags /\ "ACK" \notin s.flags
  /\ Cardinality(Live) < MaxConns
  /\ embryos[p] < MaxEmbryos
  /\ Leave(p, Accept(Machine(p), s, Iss(p, embryos[p])))
  /\ embryos' = [embryos EXCEPT ![p] = @ + 1]
  /\ UNCHANGED <<peers, toRabbit>>

\* tcp_input, known connection.
RxKnown(p, s) ==
  /\ conns[p].state # "CLOSED"
  /\ Leave(p, Input(Machine(p), s))
  /\ UNCHANGED <<embryos, peers, toRabbit>>

Rx(p) == \E s \in toRabbit[p] : RxUnknown(p, s) \/ RxKnown(p, s)

\* One pass of _tcp_timer: due are the connections whose segment in flight
\* has waited TCP_RTO_MS.  The pass walks the table it found; no callback of
\* the server touches another connection.
Timer(due) ==
  LET m(p) == Retransmit(Machine(p))
  IN /\ conns' = [p \in Peers |-> IF p \in due THEN m(p).conn ELSE conns[p]]
     /\ hsrv' = [p \in Peers |-> IF p \in due THEN m(p).up ELSE hsrv[p]]
     /\ toPeer' = [p \in Peers |-> IF p \in due THEN toPeer[p] \cup m(p).out
                                   ELSE toPeer[p]]
     /\ UNCHANGED <<embryos, peers, toRabbit>>

Tick == \E due \in SUBSET InFlight \ {{}} : Timer(due)

-----------------------------------------------------------------------------
(* The peers and the air. *)

Seg(flags, seq, ack, data) ==
  [flags |-> flags, seq |-> seq, ack |-> ack, wnd |-> 0, data |-> data]

\* The rabbit reads nothing but the flag of a reset.
Reset == Seg({"RST"}, 0, 0, <<>>)

\* Where p is in its own sequence space.
PeerNxt(p) == SeqAdd(PeerIss, 1 + peers[p].sent + (IF peers[p].fin THEN 1 ELSE 0))

PeerSends(p, peer, segs) == /\ peers' = [peers EXCEPT ![p] = peer]
                            /\ toRabbit' = [toRabbit EXCEPT ![p] = @ \cup segs]
                            /\ UNCHANGED <<conns, hsrv, embryos, toPeer>>

PeerConnect(p) ==
  /\ peers[p].state = "idle"
  /\ \E req \in Requests :
       PeerSends(p, [peers[p] EXCEPT !.state = "syn", !.req = req],
                 {Seg({"SYN"}, PeerIss, 0, <<>>)})

\* The peer writes the next k units of its request.
PeerWrite(p) ==
  /\ peers[p].state = "open" /\ ~peers[p].fin
  /\ \E k \in 1 .. Len(peers[p].req) - peers[p].sent :
       PeerSends(p, [peers[p] EXCEPT !.sent = @ + k],
                 {Seg({"ACK", "PSH"}, PeerNxt(p), peers[p].rcv,
                      SubSeq(peers[p].req, peers[p].sent + 1, peers[p].sent + k))})

\* The peer will write no more: it has asked, read the end, or given up.
PeerFin(p) ==
  /\ peers[p].state = "open" /\ ~peers[p].fin
  /\ PeerSends(p, [peers[p] EXCEPT !.fin = TRUE],
               {Seg({"ACK", "FIN"}, PeerNxt(p), peers[p].rcv, <<>>)})

\* The peer's application is killed: an open connection is reset, one that
\* has heard nothing yet is forgotten.
PeerAbort(p) ==
  \/ /\ peers[p].state = "open"
     /\ PeerSends(p, [peers[p] EXCEPT !.state = "over"],
                  {Reset})
  \/ /\ peers[p].state = "syn"
     /\ PeerSends(p, [peers[p] EXCEPT !.state = "over"], {})

\* Both ends have said FIN and the peer's TIME_WAIT is over.
PeerForget(p) ==
  /\ peers[p].state = "open" /\ peers[p].fin /\ peers[p].eof
  /\ PeerSends(p, [peers[p] EXCEPT !.state = "over"], {})

PeerSynAck(p, s) ==
  /\ peers[p].state = "syn"
  /\ {"SYN", "ACK"} \subseteq s.flags
  /\ LET rcv == SeqAdd(s.seq, 1)
     IN PeerSends(p, [peers[p] EXCEPT !.state = "open", !.rcv = rcv],
                  {Seg({"ACK"}, PeerNxt(p), rcv, <<>>)})

\* In order: take what the segment carries and acknowledge it.
PeerTake(p, s) ==
  /\ peers[p].state = "open" /\ s.seq = peers[p].rcv
  /\ SeqLen(s.flags, s.data) > 0
  /\ LET rcv == SeqAdd(s.seq, SeqLen(s.flags, s.data))
     IN PeerSends(p, [peers[p] EXCEPT !.rcv = rcv, !.got = @ \o s.data,
                                      !.eof = @ \/ "FIN" \in s.flags],
                  {Seg({"ACK"}, PeerNxt(p), rcv, <<>>)})

\* Out of order: restate the acknowledgement.
PeerReAck(p, s) ==
  /\ peers[p].state = "open" /\ s.seq # peers[p].rcv
  /\ PeerSends(p, peers[p], {Seg({"ACK"}, PeerNxt(p), peers[p].rcv, <<>>)})

\* A connection the peer has forgotten.
PeerRefuse(p, s) ==
  /\ peers[p].state = "over"
  /\ PeerSends(p, peers[p], {Reset})

PeerRx(p) == \E s \in toPeer[p] : \/ PeerSynAck(p, s) \/ PeerTake(p, s)
                                  \/ PeerReAck(p, s)  \/ PeerRefuse(p, s)

-----------------------------------------------------------------------------
Next == \/ \E p \in Peers : \/ Rx(p) \/ PeerRx(p)
                            \/ PeerConnect(p) \/ PeerWrite(p) \/ PeerFin(p)
                            \/ PeerAbort(p) \/ PeerForget(p)
        \/ Tick

Spec == Init /\ [][Next]_vars

\* The timer task runs every TCP_TICK_MS whatever the network does.
TickOf(p)  == \E due \in SUBSET InFlight : p \in due /\ Timer(due)
FairTimer  == \A p \in Peers : WF_vars(TickOf(p))
\* A LAN that keeps delivering, and peers that stay and listen.
FairAir    == \A p \in Peers : WF_vars(Rx(p)) /\ WF_vars(PeerRx(p))

FairSpec  == Spec /\ FairTimer

-----------------------------------------------------------------------------
TypeOK == /\ conns \in [Peers -> Conn]
          /\ hsrv \in [Peers -> Hsrv]
          /\ embryos \in [Peers -> 0 .. MaxEmbryos]
          /\ peers \in [Peers -> Peer]
          /\ toRabbit \in [Peers -> SUBSET RequestSegments]
          /\ toPeer \in [Peers -> SUBSET ReplySegments]

\* At most one segment is kept for retransmission, and snd_nxt is the number
\* just past it: the one ack that _tcp_ack_in takes is the one that covers it.
OneInFlight ==
  \A p \in Peers : \A s \in conns[p].unacked :
    /\ conns[p].unacked = {s}
    /\ conns[p].snd_nxt = SeqAdd(s.seq, SeqLen(s.flags, s.data))

\* Whatever is queued or still to be closed has a segment in flight ahead of
\* it, whose ack pulls it: no call sequence leaves a connection that only a
\* further write would wake.
NeverStalls ==
  \A p \in Peers : conns[p].state \in OpenStates /\ conns[p].unacked = {}
                     => conns[p].txq = <<>> /\ ~conns[p].close_after

\* Our FIN is the last thing sent: behind it nothing is queued, and until it
\* is acked it is what the timer repeats.
FinIsLast ==
  \A p \in Peers :
    /\ conns[p].state \in FinStates => conns[p].txq = <<>>
    /\ conns[p].state \in {"FIN_WAIT_1", "LAST_ACK"} <=>
         \E s \in conns[p].unacked : "FIN" \in s.flags

\* The request table holds an entry for each connection that was established
\* and for no other: none is forgotten while its connection lives, and none
\* outlives it, whichever way it ended.
TableFollowsConns ==
  \A p \in Peers : hsrv[p].known <=> conns[p].state \in OpenStates \cup FinStates

\* server.mtl:11-13, "a handful of entries at worst, bounded by TCP_MAX_CONNS":
\* both tables together with their embryos stay within the cap.
TablesBounded == Cardinality(Live \cup {p \in Peers : hsrv[p].known}) <= MaxConns

\* What the rabbit has acknowledged of a request it has not answered is in
\* the server's buffer, in order and without a gap.
NoRequestByteLost ==
  \A p \in Peers :
    conns[p].state = "ESTAB" /\ ~hsrv[p].done =>
      /\ conns[p].rcv_nxt = SeqAdd(PeerIss, 1 + Len(hsrv[p].buf))
      /\ hsrv[p].buf = SubSeq(peers[p].req, 1, Len(hsrv[p].buf))

\* tcp.mtl:61, "orderly close, everything delivered": when the server hears
\* CLOSED, the peer has read all the server ever wrote to it.
OrderlyCloseDelivered ==
  [][\A p \in Peers :
       hsrv[p].known /\ ~hsrv'[p].known /\ hsrv'[p].ended = "CLOSED"
         => peers[p].got = hsrv[p].said]_vars

\* tcp.mtl:266-270: a segment in flight, a SYN+ACK among them, is acked or
\* buried with its connection, even when the peer says nothing ever again.
InFlightResolves == \A p \in Peers : p \in InFlight ~> p \notin InFlight

\* While the air delivers and the peer listens, a peer that has asked reads
\* the end of its answer, unless it aborts or the retransmissions run out.
ExchangeEnds ==
  FairAir => \A p \in Peers :
    peers[p].state = "open" /\ (\E i \in 1 .. peers[p].sent : peers[p].req[i] = "blank")
      ~> peers[p].eof \/ peers[p].state = "over" \/ hsrv[p].ended = "ERROR"

\* What the server promises the peers of its port.
Exchange == INSTANCE HttpExchange
              WITH said <- [p \in Peers |-> hsrv[p].said],
                   got  <- [p \in Peers |-> peers[p].got],
                   eof  <- [p \in Peers |-> peers[p].eof],
                   Texts <- {Response(status) : status \in Statuses}
IsAnExchange == Exchange!Spec
=============================================================================
