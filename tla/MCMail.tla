-------------------------------- MODULE MCMail --------------------------------
(***************************************************************************)
(* Model-checking instances of Mail: a mailbox whose mails have the size   *)
(* of a pointer or more, as all of the program but one, and that one,      *)
(* _mail_box_on_connect (MQTTNetwork.h:17-19, 99), with two blocks of one  *)
(* byte.  A behaviour is one of the first or one of the second.            *)
(***************************************************************************)
EXTENDS Mail

VARIABLES sem1, head1, n1, word1, queue1, pc1, blk1, got1, offered1

vars1 == <<sem1, head1, n1, word1, queue1, pc1, blk1, got1, offered1>>

OnConnect == INSTANCE Mail WITH
                 QueueSize <- 2, BlockSize <- 1,
                 sem <- sem1, head <- head1, n <- n1, word <- word1,
                 queue <- queue1, pc <- pc1, blk <- blk1, got <- got1,
                 offered <- offered1

MCInit == Init /\ OnConnect!Init

MCNext ==
    \/ Next /\ OnConnect!Init /\ UNCHANGED vars1
    \/ OnConnect!Next /\ Init /\ UNCHANGED vars

MCSpec == MCInit /\ [][MCNext]_<<vars, vars1>> /\ Fairness /\ OnConnect!Fairness

(* The pool of the mails of one byte keeps its blocks and its list as the  *)
(* others do, though a link of four bytes is written over the other block. *)
SmallMailsKept ==
    /\ OnConnect!PutNeverFails
    /\ OnConnect!NoBlockLost
    /\ OnConnect!Exclusive
    /\ OnConnect!FreeListIntact
===============================================================================
