---------------------------- MODULE MCRxTeardown ----------------------------
(* Instances of RxTeardown for TLC. *)
EXTENDS RxTeardown, TLC

Setting(h, s, k, st) == [headwake |-> h, supp |-> s, trig_k |-> k, steal |-> st]

\* The stock module and the two-sided fix; the trigger, alone and with the
\* stealing poll.
StockAndFix  == {Setting(h, h, 0, 0) : h \in BOOLEAN}
TriggerOnly  == {Setting(FALSE, FALSE, 2, 0)}
AnyWake      == StockAndFix \cup TriggerOnly
TriggerSteal == {Setting(FALSE, FALSE, 2, 1)}

\* One peer owns every packet, or the first packet is one peer's and the
\* others are the other's.
FirstPeer == CHOOSE peer \in Peers : TRUE
OnePeer   == [p \in Packets |-> FirstPeer]
TwoPeers  == LET first == CHOOSE p \in Packets : TRUE IN
    [p \in Packets |-> IF p = first THEN FirstPeer
                       ELSE CHOOSE peer \in Peers : peer # FirstPeer]

\* TwoPeers tells the packets apart, so Symmetry is for OnePeer only.
Symmetry == Permutations(Packets) \cup Permutations(Producers)
              \cup Permutations(Workers) \cup Permutations(Cpus)
=============================================================================
