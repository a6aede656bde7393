----------------------------- MODULE MCFileUpload -----------------------------
(* Two uploads of one session, a direct upload and a deletion.  The uploads of *)
(* the session are alike, and so are the stamps.                               *)
EXTENDS FileUpload, TLC

CONSTANTS s1, u1, u2

MCSessionOf == [u \in {u1, u2} |-> s1]

MCSymmetry == Permutations({u1, u2}) \cup Permutations(Stamps)

=============================================================================
