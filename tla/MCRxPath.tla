------------------------------ MODULE MCRxPath ------------------------------
(* Instances of RxPath for TLC. *)
EXTENDS RxPath, TLC

Setting(h, s, k, st) == [headwake |-> h, supp |-> s, trig_k |-> k, steal |-> st]

\* The wake policies without the coalescing trigger: stock, each knob alone,
\* and the two-sided fix; the same with the stealing poll; the trigger with
\* a batch of two; and the trigger alone or the stealing poll alone, which
\* must not be combined: a poll that steals is a second completer, and two
\* completers are what the trigger's late cancel needs to lose a wake.
Policies         == {Setting(h, s, 0, 0) : h, s \in BOOLEAN}
Steals           == {Setting(h, s, 0, 1) : h, s \in BOOLEAN}
PoliciesAndSteal == Policies \cup Steals
TriggerOnly      == {Setting(FALSE, FALSE, 2, 0)}
TriggerOrSteal   == TriggerOnly \cup {Setting(FALSE, TRUE, 0, 1)}

\* One peer owns every packet, or the first packet is one peer's and the
\* others are the other's.
FirstPeer   == CHOOSE peer \in Peers : TRUE
FirstPacket == CHOOSE p \in Packets : TRUE
OnePeer     == [p \in Packets |-> FirstPeer]
TwoPeers    == [p \in Packets |-> IF p = FirstPacket THEN FirstPeer
                                  ELSE CHOOSE peer \in Peers : peer # FirstPeer]

\* TwoPeers tells the first packet from the others.
Symmetry == Permutations(Packets) \cup Permutations(Producers)
              \cup Permutations(Workers) \cup Permutations(Cpus)
SymmetryOfTheOthers == Permutations(Packets \ {FirstPacket})
=============================================================================
