\* All core phases, the namelist comparison, one test comparison (fails a
\* test) and the baseline comparison (a verdict of its own): every way in
\* which one line can outrank another
CONSTANTS
    ComparePhases = {"COMPARE_base_rest"}
    CalledPhases = {"CREATE_NEWCASE", "XML", "SETUP", "NLCOMP", "SHAREDLIB_BUILD",
                    "MODEL_BUILD", "SUBMIT", "RUN", "COMPARE_base_rest", "BASELINE"}
    FailComments = {"DIFF", "ERROR"}
    Queries <- WaitQueries
SPECIFICATION HistorySpec
INVARIANTS
    CorePrefix
    NoStaleResults
    OverallByPrecedence
