SPECIFICATION Spec

CONSTANTS
    None = None
    Disputes = {}
    Bears <- MCBears
    Finding <- MCFinding
    SIGNALS <- MCSignals
    NEGATION_CUES <- MCCues
    ClauseBoundaries = {"."}
    NEGATION_WINDOW = 3
    LANGUAGE_TERMS <- MCLanguages
    FRAMEWORK_LANGUAGES <- MCFrameworks
    AMBIGUOUS_LANGUAGE_TERMS = {"go"}
    LEAD_IN = {"in"}
    FOLLOW_ON = {"services"}
    Opening = {}
    Closing = {}
    Stopwords = {"in", "no", ".", "go"}
    relevance_threshold = 3
    relevance_limit = 2
    Words = {"e2e", "tests", "polyglot", "no", ".", "go", "in", "django"}
    MaxWords = 3
    Profiles <- MCProfiles
    CohortSize = 4
    Labelings <- MCLabelings
    TopK = 2
    FallsShort <- MCFallsShort
    Account <- MCAccount

CHECK_DEADLOCK FALSE

INVARIANTS
    OverlapSharesGroup
    MatchIsNeverCrowdedOut
    VerdictIsFourFifths

PROPERTIES
    EmphasisNeverHurtsTheBest
    AskedStaysAsked
