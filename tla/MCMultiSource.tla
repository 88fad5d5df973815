--------------------------- MODULE MCMultiSource ----------------------------
(* Two pool threads; three search connectors, one of them unusable, one    *)
(* feed, one write connector and one without a factory.                    *)
EXTENDS MultiSource

CONSTANTS t1, t2, s1, s2, s3, f1, wr, stub

Conn(name, cap, pref, write, factory, usable) ==
    [name |-> name, capability |-> cap, preference |-> pref,
     is_write |-> write, factory |-> factory, usable |-> usable]

MCRegistry ==
    <<Conn(s2, "search", 20, FALSE, TRUE, FALSE), Conn(s1, "search", 10, FALSE, TRUE, TRUE),
      Conn(s3, "search", 20, FALSE, TRUE, TRUE), Conn(f1, "feed", 50, FALSE, TRUE, TRUE),
      Conn(wr, "search", 5, TRUE, TRUE, TRUE), Conn(stub, "feed", 10, FALSE, FALSE, FALSE)>>

MCWanted == <<"search", "feed">>
=============================================================================
