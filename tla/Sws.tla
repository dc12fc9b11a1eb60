-------------------------------- MODULE Sws --------------------------------
(***************************************************************************)
(* The WebSocket session (ws/sws.c) of a connecting endpoint or of an      *)
(* accepted connection (kind "aws"), and its opening handshake             *)
(* (ws/ws_handshake.c) as a client or as a server.                         *)
(*                                                                         *)
(* A frame f is what its header says and ok, whether its payload is        *)
(* accepted: not above NN_RCVMAXSIZE, and valid UTF-8 if it is text.  A    *)
(* reserved bit, a mask or a one-byte close code is an INVALID opcode.     *)
(* Bytes, masks and close codes are left out, and so is a code point that  *)
(* is split between two frames.                                            *)
(***************************************************************************)
EXTENDS Usock

Frames == [opcode : Opcodes, final : BOOLEAN, len : {"zero", "short", "long"}, ok : BOOLEAN]

-----------------------------------------------------------------------------
(* The opening handshake.  The buffer for what the peer sends is filled in *)
(* at most Room further steps.                                             *)
nn_ws_handshake_start(x, rc) ==
  LET y == [nn_assert(x, ~ x.hsock /\ Idle(x, x.h, "H"))
              EXCEPT !.owner = "H", !.hsock = TRUE, !.room = Room,
                     !.response = "NULL"]
      z == nn_timer_start(y, HDR)
  IN IF kind = "aws" THEN nn_usock_recv([z EXCEPT !.h = "SERVER_RECV"], rc)
     ELSE nn_usock_send([z EXCEPT !.h = "CLIENT_SEND"], rc)

(* nn_ws_handshake_shutdown in STOPPING state.                             *)
HandshakeStopping(x) ==
  IF Idle(x, x.tm[HDR], HDR) THEN Raise([x EXCEPT !.h = "IDLE"], "S", "H", "STOPPED") ELSE x

nn_ws_handshake_stop(x) ==
  IF x.h \in {"IDLE", "STOPPING"} THEN x
  ELSE HandshakeStopping([nn_timer_stop(x, HDR) EXCEPT !.h = "STOPPING"])

(* The socket goes back to the session.                                    *)
nn_ws_handshake_leave(x, type) ==
  Raise([x EXCEPT !.h = "DONE", !.hsock = FALSE, !.owner = "S"], "S", "H", type)

(* nn_ws_handshake_parse_server_response: a response whose last header has *)
(* not arrived is received further ("more"), unless the buffer is full; a  *)
(* complete one whose status line is not understood ("badstatus") is too,  *)
(* and its last bytes are the end of a response, which the code excludes.  *)
nn_ws_handshake_parse_server_response(x, rc) ==
  CASE rc = "badheader" \/ (rc = "more" /\ x.room = 0) ->
         [nn_timer_stop(x, HDR) EXCEPT !.h = "STOPPING_TIMER_ERROR"]
    [] rc = "more" /\ x.room > 0 -> nn_usock_recv([x EXCEPT !.room = @ - 1], rc)
    [] rc = "badstatus" -> AbortBy(x, "status")
    [] OTHER -> [nn_timer_stop(x, HDR) EXCEPT !.h = "STOPPING_TIMER_DONE"]

(* CLIENT_SEND and CLIENT_RECV states of nn_ws_handshake_handler.          *)
HandshakeExchange(x, src, type, rc) ==
  CASE x.h = "CLIENT_SEND" /\ src = "USOCK" /\ type = "SENT" ->
         [nn_usock_recv(x, rc) EXCEPT !.h = "CLIENT_RECV"]
    [] x.h = "CLIENT_RECV" /\ src = "USOCK" /\ type = "RECEIVED" ->
         nn_ws_handshake_parse_server_response(x, rc)
    [] src = "USOCK" /\ type = "SHUTDOWN" -> x
    [] type \in {"ERROR", "TIMEOUT"} -> [nn_timer_stop(x, HDR) EXCEPT !.h = "STOPPING_TIMER_ERROR"]
    [] OTHER -> Abort(x)

nn_ws_handshake_server_reply(x, rc) == nn_usock_send([x EXCEPT !.h = "SERVER_REPLY"], rc)

(* The opening of the client: received further, accepted, or refused for   *)
(* its headers or for its length.  A request line that is not understood   *)
(* leaves no response code, and a length that is refused leaves the        *)
(* version unset that the reply quotes; that is what "badstatus" stands    *)
(* for here.                                                               *)
nn_ws_handshake_parse_client_opening(x, rc) ==
  CASE rc = "more" /\ x.room > 0 -> nn_usock_recv([x EXCEPT !.room = @ - 1], rc)
    [] rc = "badstatus" -> AbortBy(x, "status")
    [] rc = "badheader" \/ (rc = "more" /\ x.room = 0) ->
         nn_ws_handshake_server_reply([x EXCEPT !.response = "REFUSED"], rc)
    [] OTHER -> nn_ws_handshake_server_reply([x EXCEPT !.response = "OK"], rc)

(* SERVER_RECV and SERVER_REPLY states: once the reply is sent, whatever   *)
(* it says, the handshake is complete.                                     *)
HandshakeServe(x, src, type, rc) ==
  CASE x.h = "SERVER_RECV" /\ src = "USOCK" /\ type = "RECEIVED" ->
         nn_ws_handshake_parse_client_opening(x, rc)
    [] x.h = "SERVER_REPLY" /\ src = "USOCK" /\ type = "SENT" ->
         [nn_timer_stop(x, HDR) EXCEPT !.h = "STOPPING_TIMER_DONE"]
    [] src = "USOCK" /\ type = "SHUTDOWN" -> x
    [] type \in {"ERROR", "TIMEOUT"} -> [nn_timer_stop(x, HDR) EXCEPT !.h = "STOPPING_TIMER_ERROR"]
    [] OTHER -> Abort(x)

nn_ws_handshake_handler(x, src, type, rc) ==
  CASE x.h \in {"SERVER_RECV", "SERVER_REPLY"} -> HandshakeServe(x, src, type, rc)
    [] x.h \in {"CLIENT_SEND", "CLIENT_RECV"} -> HandshakeExchange(x, src, type, rc)
    [] x.h \in {"STOPPING_TIMER_ERROR", "STOPPING_TIMER_DONE"} /\ src = "USOCK" -> x
    [] x.h \in {"STOPPING_TIMER_ERROR", "STOPPING_TIMER_DONE"} /\ type = "STOPPED" ->
         nn_ws_handshake_leave(x, IF x.h = "STOPPING_TIMER_DONE" THEN "OK" ELSE "ERROR")
    [] x.h = "STOPPING" -> HandshakeStopping(x)
    [] OTHER -> Abort(x)

-----------------------------------------------------------------------------
(* The session.  nn_sws_start takes it up where the last one left it.      *)
nn_sws_start(x, rc) ==
  [nn_ws_handshake_start(nn_assert(x, Idle(x, x.s, "S")), rc)
     EXCEPT !.s = "HANDSHAKE"]

(* What the next session sets before it looks at it is not remembered.     *)
Forget(x) ==
  [x EXCEPT !.opcode = "DATA", !.final = FALSE, !.first = IF x.continuing THEN @ ELSE "DATA",
            !.instate = "NONE", !.outstate = "NONE", !.room = Room, !.response = "NULL"]

(* nn_sws_shutdown in STOPPING state.                                      *)
SwsStopping(x) ==
  IF Idle(x, x.h, "H")
  THEN Raise([Forget(x) EXCEPT !.s = "IDLE", !.owner = "C"], "C", "S", "STOPPED") ELSE x

nn_sws_stop(x) ==
  IF x.s \in {"IDLE", "STOPPING"} THEN x
  ELSE SwsStopping([nn_ws_handshake_stop(nn_pipebase_stop(x)) EXCEPT !.s = "STOPPING"])

SwsReturn(x, type) == Raise([x EXCEPT !.s = "DONE"], "C", "S", type)

(* A new message starts with no chunk of an earlier one; there are some    *)
(* when the last connection was lost in the middle of a message.           *)
nn_sws_recv_hdr(x, rc) ==
  LET y == IF x.chunks /\ x.s = "STOPPING_HANDSHAKE" THEN AbortBy(x, "cut")
           ELSE nn_assert(x, x.continuing \/ ~ x.chunks)
  IN nn_usock_recv([y EXCEPT !.instate = "HDR"], rc)

(* The close frame is sent unless a message is being sent.                 *)
nn_sws_fail_conn(x, rc) ==
  LET y == [nn_pipebase_stop(nn_assert(x, x.s = "ACTIVE"))
              EXCEPT !.instate = "CLOSED", !.chunks = FALSE]
  IN IF x.outstate = "IDLE"
     THEN [nn_usock_send(y, rc) EXCEPT !.outstate = "SENDING", !.s = "CLOSING_CONNECTION"]
     ELSE SwsReturn(y, "CLOSE")

(* Whatever the code and the reason of the close frame are, it is answered *)
(* with one.                                                               *)
nn_sws_acknowledge_close_handshake(x, rc) == nn_sws_fail_conn(x, rc)

Received(x, instate) == nn_pipebase_received([x EXCEPT !.instate = instate])

(* A frame without payload, final or to be continued.                      *)
EmptyFrame(x, rc) ==
  CASE x.opcode = "CLOSE" -> nn_sws_acknowledge_close_handshake(x, rc)
    [] x.opcode = "CONTROL" -> Received(x, "CONTROL")
    [] x.opcode \in {"DATA", "FRAGMENT"} /\ ~ x.final -> nn_sws_recv_hdr(x, rc)
    [] OTHER -> Received(x, "CHUNKED")

(* Only the payload of data goes to a chunk of its own.                    *)
RecvPayload(x, f, rc) ==
  CASE x.opcode \in {"CONTROL", "CLOSE"} -> nn_usock_recv([x EXCEPT !.instate = "PAYLOAD"], rc)
    [] x.opcode \notin {"CONTROL", "CLOSE"} /\ ~ f.ok -> nn_sws_fail_conn(x, rc)
    [] OTHER -> nn_usock_recv([x EXCEPT !.instate = "PAYLOAD", !.chunks = TRUE], rc)

(* What the code refuses on sight: the opcode, a continuation of nothing,  *)
(* a new message inside another, a long or fragmented control frame.       *)
Refused(x, f) ==
  \/ f.opcode = "INVALID"
  \/ f.opcode = "FRAGMENT" /\ ~ x.continuing
  \/ f.opcode = "DATA" /\ x.continuing
  \/ f.opcode \in {"CONTROL", "CLOSE"} /\ (~ f.final \/ f.len = "long")

(* A control frame is taken for the end of the message around it.          *)
RecvHdr_ControlEnds(x, f, rc) ==
  LET y == [x EXCEPT !.opcode = f.opcode, !.final = f.final,
                     !.first = IF x.continuing THEN @ ELSE f.opcode,
                     !.continuing = ~ f.final]
  IN CASE Refused(x, f) -> nn_sws_fail_conn(x, rc)
       [] ~ Refused(x, f) /\ f.len = "zero" -> EmptyFrame(y, rc)
       [] ~ Refused(x, f) /\ f.len = "short" -> RecvPayload(y, f, rc)
       [] OTHER -> nn_usock_recv([y EXCEPT !.instate = "HDREXT"], rc)

(* RECV_HDR: a control frame between two fragments leaves the message be.  *)
RecvHdr(x, f, rc) ==
  LET y == [x EXCEPT !.opcode = f.opcode, !.final = f.final,
                     !.first = IF x.continuing THEN @ ELSE f.opcode,
                     !.continuing = IF f.opcode \in {"DATA", "FRAGMENT"} THEN ~ f.final ELSE @]
  IN CASE Refused(x, f) -> nn_sws_fail_conn(x, rc)
       [] ~ Refused(x, f) /\ f.len = "zero" -> EmptyFrame(y, rc)
       [] ~ Refused(x, f) /\ f.len = "short" -> RecvPayload(y, f, rc)
       [] OTHER -> nn_usock_recv([y EXCEPT !.instate = "HDREXT"], rc)

(* RECV_HDREXT: the length may still turn out to be zero.                  *)
RecvHdrExt(x, f, rc) == IF f.len = "zero" THEN EmptyFrame(x, rc) ELSE RecvPayload(x, f, rc)

(* nn_sws_validate_utf8_chunk, and BINARY.                                 *)
nn_sws_validate_utf8_chunk(x, f, rc) ==
  CASE ~ f.ok -> nn_sws_fail_conn(x, rc)
    [] f.ok /\ x.final -> Received(x, "CHUNKED")
    [] OTHER -> nn_sws_recv_hdr(x, rc)

(* RECV_PAYLOAD.                                                           *)
PayloadReceived(x, f, rc) ==
  CASE x.opcode = "CLOSE" -> nn_sws_acknowledge_close_handshake(x, rc)
    [] x.opcode = "CONTROL" -> Received(x, "CONTROL")
    [] OTHER -> nn_sws_validate_utf8_chunk(x, f, rc)

(* NN_USOCK_RECEIVED in ACTIVE state.                                      *)
SwsReceived(x, f, rc) ==
  CASE x.instate = "HDR" -> RecvHdr(x, f, rc)
    [] x.instate = "HDREXT" -> RecvHdrExt(x, f, rc)
    [] x.instate = "PAYLOAD" -> PayloadReceived(x, f, rc)
    [] OTHER -> Abort(x)

(* HANDSHAKE and STOPPING_HANDSHAKE states.                                *)
SwsOpening(x, src, type, rc) ==
  CASE x.s = "HANDSHAKE" /\ src = "H" /\ type = "OK" ->
         [nn_ws_handshake_stop(x) EXCEPT !.s = "STOPPING_HANDSHAKE"]
    [] x.s = "HANDSHAKE" /\ src = "H" /\ type = "ERROR" -> SwsReturn(x, "CLOSE")
    [] x.s = "STOPPING_HANDSHAKE" /\ src = "H" /\ type = "STOPPED" /\ rc = "refused" ->
         SwsReturn([x EXCEPT !.pipe = "FAILED"], "ERROR")
    [] x.s = "STOPPING_HANDSHAKE" /\ src = "H" /\ type = "STOPPED" /\ rc # "refused" ->
         [nn_sws_recv_hdr(nn_pipebase_start(x), rc) EXCEPT !.outstate = "IDLE", !.s = "ACTIVE"]
    [] OTHER -> Abort(x)

(* ACTIVE (but for what is received), CLOSING_CONNECTION and               *)
(* BROKEN_CONNECTION states.                                               *)
SwsClosing(x, src, type) ==
  CASE x.s = "ACTIVE" /\ type = "SENT" ->
         nn_pipebase_sent([nn_assert(x, x.outstate = "SENDING") EXCEPT !.outstate = "IDLE"])
    [] x.s = "ACTIVE" /\ type = "SHUTDOWN" -> [nn_pipebase_stop(x) EXCEPT !.s = "BROKEN_CONNECTION"]
    [] x.s = "ACTIVE" /\ src = "USOCK" /\ type = "ERROR" -> SwsReturn(nn_pipebase_stop(x), "ERROR")
    [] x.s = "CLOSING_CONNECTION" /\ type = "SENT" ->
         SwsReturn([nn_assert(x, x.outstate = "SENDING") EXCEPT !.outstate = "IDLE"], "CLOSE")
    [] x.s = "CLOSING_CONNECTION" /\ src = "USOCK" /\ type = "SHUTDOWN" -> x
    [] x.s \in {"CLOSING_CONNECTION", "BROKEN_CONNECTION"} /\ src = "USOCK" /\ type = "ERROR" ->
         SwsReturn(x, "ERROR")
    [] OTHER -> Abort(x)

nn_sws_handler(x, src, type, rc) ==
  CASE x.s \in {"HANDSHAKE", "STOPPING_HANDSHAKE"} -> SwsOpening(x, src, type, rc)
    [] x.s \in {"ACTIVE", "CLOSING_CONNECTION", "BROKEN_CONNECTION"} -> SwsClosing(x, src, type)
    [] x.s = "STOPPING" -> SwsStopping(x)
    [] x.s = "DONE" -> TooLate(x)
    [] OTHER -> Abort(x)

(* What the protocol does with the pipe.  Only a whole message is handed   *)
(* over.                                                                   *)
nn_sws_send(x, rc) ==
  [nn_usock_send([nn_assert(x, x.s = "ACTIVE" /\ x.outstate = "IDLE")
                    EXCEPT !.can = @ \ {"OUT"}], rc)
     EXCEPT !.outstate = "SENDING"]

nn_sws_recv(x, rc) ==
  LET y == [nn_assert(x, x.s = "ACTIVE" /\ x.final) EXCEPT !.can = @ \ {"IN"}]
  IN CASE x.instate = "CHUNKED" ->
            nn_sws_recv_hdr([nn_assert(y, x.first = "DATA")
                               EXCEPT !.chunks = FALSE, !.continuing = FALSE], rc)
       [] x.instate = "CONTROL" ->
            nn_sws_recv_hdr(nn_assert(y, x.opcode = "CONTROL"), rc)
       [] OTHER -> Abort(y)
=============================================================================
