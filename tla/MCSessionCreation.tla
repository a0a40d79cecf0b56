-------------------------- MODULE MCSessionCreation --------------------------
\* Small instances of SessionCreation for TLC.
EXTENDS SessionCreation, TLC
CONSTANTS d, f, a, b, th, p, q, form, one

MCDirectSlug == form :> a
MCCandidates == one :> <<a, b>>
MCCustomOf == p :> NoBase @@ q :> NoBase
MCScopeOf == p :> d @@ q :> d
MCAttachOne == p :> {f} @@ q :> {}
W1 == [asking |-> {p, q}, forms |-> {}, terminal |-> FALSE, attempts |-> 1, faults |-> 1]
W2 == [asking |-> {p}, forms |-> {form}, terminal |-> TRUE, attempts |-> 1, faults |-> 0]
W3 == [asking |-> {p}, forms |-> {}, terminal |-> FALSE, attempts |-> 2, faults |-> 2]
W4 == [asking |-> {p}, forms |-> {}, terminal |-> TRUE, attempts |-> 2, faults |-> 1]
W5 == [asking |-> {p, q}, forms |-> {}, terminal |-> TRUE, attempts |-> 1, faults |-> 1]
MCCasts == {W1, W2, W3, W4, W5}
MCThreadOf == a :> th @@ b :> th
=============================================================================
