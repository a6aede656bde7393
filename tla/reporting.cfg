SPECIFICATION Spec
CONSTANTS
    f1 = f1
    f2 = f2
    NoFile = NoFile
    CaseFiles <- MCCaseFiles
    FileOf <- MCFileOf
    SubjectFiles <- MCSubjectFiles
    Processings = {p1, p2}
    Reviews = {r1, r2}
    MaxInFlight = 2
    MaxExtractions = 2
    MaxFacts = 1
INVARIANTS
    DecisionsCoverFacts
    OneExtraction
    ReadyMeansAssembled
SYMMETRY MCSymmetry
