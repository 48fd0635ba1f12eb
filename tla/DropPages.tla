----------------------------- MODULE DropPages ----------------------------
(***************************************************************************)
(* The two pages of phone-to-phone transfers over one service: what the    *)
(* one does to a transfer is all the other sees of it.                     *)
(***************************************************************************)
EXTENDS SendPage, ReceivePage

pagesVars == <<service, sendOwn, receiveOwn>>

PagesInit == SendInit /\ ReceiveInit

SenderMoves == SendStep /\ UNCHANGED receiveOwn
ReceiverMoves == ReceiveStep /\ UNCHANGED sendOwn

(* The time of a transfer is over, or the sweep has removed it. *)
Expires == (\E t \in Transfers : Closes(t)) /\ UNCHANGED <<sendOwn, receiveOwn>>

PagesNext == SenderMoves \/ ReceiverMoves \/ Expires

PagesSpec == PagesInit /\ [][PagesNext]_pagesVars

---------------------------------------------------------------------------
(* When the sending phone says of the transfer it shows that it was        *)
(* delivered, the receiving phone has every file of that transfer,         *)
(* whatever transfers, polls and saves overlap on the two pages, unless    *)
(* its record was late or the receiver's page has left a save behind.      *)
(* (reportIfComplete, the polling effect)                                  *)
DeliveredIsThere ==
    \/ adrift
    \/ spage.stage = "ready" /\ spage.receiver = "delivered" /\ ~send[spage.result].late =>
          got[spage.result] = Files(spage.result)
===========================================================================
