CONSTANTS
    ComparePhases = {"COMPARE_base_rest"}
    Tests <- TwoTests
SPECIFICATION Spec
INVARIANTS
    ReportInv
    PassMeansRan
    VerdictIsFinal
    ResultsKept
    AnswerAtEnd
