------------------------------ MODULE MCRouter ------------------------------
(* Three that search: a write connector, one that is not usable, and one   *)
(* that works; and one that has no factory.                                *)
EXTENDS Router, TLC

CONSTANTS t1, t2, s1, s2, wr, none

Conn(name, cap, pref, write, factory, usable) ==
    [name |-> name, capability |-> cap, preference |-> pref,
     is_write |-> write, factory |-> factory, usable |-> usable]

MCRegistry ==
    <<Conn(s1, "search", 20, FALSE, TRUE, TRUE), Conn(s2, "search", 10, FALSE, TRUE, FALSE),
      Conn(wr, "search", 5, TRUE, TRUE, TRUE), Conn(none, "feed", 10, FALSE, FALSE, FALSE)>>

Symmetry == Permutations(Threads)
=============================================================================
