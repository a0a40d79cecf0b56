------------------------------ MODULE MCUploads ------------------------------
\* Small instances of Uploads for TLC.
EXTENDS Uploads, TLC
CONSTANTS d, t, doc, a, b, ta, tb, m

MCThreadOf == a :> ta @@ b :> tb
MCWorlds == {[source |-> a :> NoSlug @@ b :> a, removals |-> 0, faults |-> 0],
             [source |-> a :> NoSlug @@ b :> b, removals |-> 1, faults |-> 1]}
MCHomeOf == m :> a
=============================================================================
