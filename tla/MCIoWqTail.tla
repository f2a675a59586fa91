------------------------------ MODULE MCIoWqTail ------------------------------
(* One io_wq with one worker, two works of bucket 0 and one that is not      *)
(* hashed: the bucket an unhashed work shares its hash bits with.            *)
EXTENDS Integers

VARIABLES acct, hash_tail, map, waiting, worker, state

Tail0 == INSTANCE IoWqHash WITH
    IoWqs <- {"q1"}, IoWorkers <- {"w1"}, IoWorks <- {"x1", "x2", "x3"},
    WqOf <- [w1 |-> "q1", x1 |-> "q1", x2 |-> "q1", x3 |-> "q1"],
    HashOf <- [x1 |-> 0, x2 |-> -1, x3 |-> 0],
    Linked <- [x1 |-> "none", x2 |-> "none", x3 |-> "none"]

TailSpec == Tail0!Spec

(* The works of a bucket lie together in work_list and end at hash_tail, as  *)
(* io_get_next_work takes for granted when it cuts them off as one chain.    *)
BucketZeroTogether == Tail0!TailsRight
===============================================================================
