------------------------- MODULE GarenneHttpServer --------------------------
(***************************************************************************)
(* The rabbit's HTTP server (garenne/http/server.mtl): the callback that   *)
(* TCP calls with the events of a connection, and the entry the server     *)
(* keeps for it in _hsrv_reqs.  The server writes back into TCP from       *)
(* inside the callback, so it works on the machine of GarenneTcpConn.      *)
(*                                                                         *)
(* A request is a sequence of units: what its first line is, header text,  *)
(* and the blank line that completes it.  A response is the sequence of    *)
(* chunks its text is cut into.                                            *)
(***************************************************************************)
EXTENDS GarenneTcpConn

CONSTANTS MaxReq,    \* HSRV_MAX_REQ, in units
          RespLen    \* how many chunks the response of each status takes

Statuses     == {200, 404, 400}
RequestUnits == {"status", "other", "notget", "garbage", "header", "blank"}

ASSUME HsrvAssumption == /\ MaxReq \in Nat
                         /\ RespLen \in [Statuses -> Nat \ {0}]

\* hsrv_response: a text of as many units as it has chunks, each chunk one
\* unit long, and no unit common to two responses.
ResponseUnits    == [status : Statuses, part : Nat]
Response(status) == [i \in 1 .. RespLen[status] |-> [status |-> status, part |-> i]]
Chunks(text)     == [i \in 1 .. Len(text) |-> <<text[i]>>]

\* The entry of _hsrv_reqs for a connection (known: there is one), and what
\* the history of this model keeps: everything the server has passed to
\* tcp_write for this peer, and the event that ended its last connection.
Hsrv == [known : BOOLEAN, buf : Seq(RequestUnits), done : BOOLEAN,
         said : Seq(ResponseUnits), ended : {"no", "CLOSED", "ERROR"}]
NoHsrv == [known |-> FALSE, buf |-> <<>>, done |-> FALSE, said |-> <<>>, ended |-> "no"]

\* hsrv_route behind _hsrv_reqline, for a buffer whose blank line is in.
Route(buf) == CASE Head(buf) = "status" -> 200
                [] Head(buf) = "other"  -> 404
                [] OTHER                -> 400

TooLong(buf)  == Len(buf) > MaxReq
Complete(buf) == \E i \in 1 .. Len(buf) : buf[i] = "blank"

HsrvAnswer(m, status) ==
  TcpClose(TcpWrite([m EXCEPT !.up.done = TRUE, !.up.said = @ \o Response(status)],
                    Chunks(Response(status))))

HsrvConnected(m) == [m EXCEPT !.up.known = TRUE, !.up.buf = <<>>, !.up.done = FALSE]

\* Mutant: the done mark is not looked at, so data after the blank line
\* answers again.
HsrvDataAgain(m, data) ==
  IF ~m.up.known THEN m
  ELSE LET buf == m.up.buf \o data
           got == [m EXCEPT !.up.buf = buf]
       IN IF TooLong(buf) THEN HsrvAnswer(got, 400)
          ELSE IF Complete(buf) THEN HsrvAnswer(got, Route(buf))
          ELSE got

\* The blank line completes the request, and it is answered once.
HsrvData(m, data) ==
  IF ~m.up.known \/ m.up.done THEN m
  ELSE LET buf == m.up.buf \o data
           got == [m EXCEPT !.up.buf = buf]
       IN IF TooLong(buf) THEN HsrvAnswer(got, 400)
          ELSE IF Complete(buf) THEN HsrvAnswer(got, Route(buf))
          ELSE got

\* Mutant: the entry survives an error.
HsrvEndedKeeps(m, ev) ==
  [m EXCEPT !.up.known = ev = "ERROR" /\ @, !.up.buf = <<>>, !.up.done = FALSE,
            !.up.ended = ev]

\* CLOSED or ERROR: the association is forgotten.
HsrvEnded(m, ev) ==
  [m EXCEPT !.up.known = FALSE, !.up.buf = <<>>, !.up.done = FALSE, !.up.ended = ev]
=============================================================================
