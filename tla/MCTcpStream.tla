----------------------------- MODULE MCTcpStream -----------------------------
(***************************************************************************)
(* TcpStream for TLC: a buffer of three bytes and a stream of five, so that *)
(* the buffer fills with read and with unread bytes; sixteen sequence      *)
(* numbers, of which one stream wraps.                                     *)
(***************************************************************************)
EXTENDS TcpStream

MCIrs == {1, 12}
MCAsks == {1, 2}
===============================================================================
