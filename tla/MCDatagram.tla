----------------------------- MODULE MCDatagram -----------------------------
(* TLC instance of Datagram: the sizes of the code.                        *)
EXTENDS Datagram, TLC

MCElementSize == "keepalive" :> 12 @@ "xinput" :> 5 @@ "remote" :> 8
\* 520 stands for every length that leads out of the buffer at once
MCLengths == {12, 520}
=============================================================================
