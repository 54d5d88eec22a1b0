----------------------------- MODULE MCBlobStore -----------------------------
EXTENDS BlobStore

CONSTANTS c1, c2, f1, f2, g, x, y, s

OneOwner == [f \in Files |-> c1]
TwoOwners == [f \in Files |-> IF f = g THEN c2 ELSE c1]

\* y is of the first caller alone, x of both.
TwoWriters == [t \in Callers |-> IF t = c1 THEN {x, y} ELSE {x, s}]
OneWriter == [t \in Callers |-> Contents]

\* Nothing is there yet, or large files that were not written through gofs.
FreshOrRaw == {[f \in Files |-> Absent],
               [f \in Files |-> IF f \in {f1, g} THEN x ELSE Absent]}
Fresh == {[f \in Files |-> Absent]}
=============================================================================
