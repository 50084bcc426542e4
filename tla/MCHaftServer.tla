---------------------------- MODULE MCHaftServer ------------------------------
(* Two outcomes of one ticket, one of another, and a lifecycle call, whose   *)
(* ticket_id is not among its arguments.                                     *)
EXTENDS HaftServer

CONSTANTS t1, t2, a1, a2, b1, call

MCTicketOf == [w \in Write |->
    IF w = call THEN NoTicket ELSE IF w = b1 THEN t2 ELSE t1]

=============================================================================
