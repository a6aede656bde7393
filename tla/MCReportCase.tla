----------------------------- MODULE MCReportCase -----------------------------
(***************************************************************************)
(* ReportCase with two files, one of them of a category whose facts become *)
(* assets.                                                                 *)
(***************************************************************************)
EXTENDS ReportCase, TLC

CONSTANTS f1, f2

MCCaseFiles == {f1, f2}

MCFileOf == f1 :> "x" @@ f2 :> "y"

MCSubjectFiles == {f2}

MCSymmetry ==
    {p @@ r : p \in Permutations(Processings), r \in Permutations(Reviews)}

=============================================================================
