SPECIFICATION Spec

CONSTANTS
    None = None
    Disputes <- MCDisputes
    Finding <- MCFinding
    Portfolios <- MCPortfolios
    Accounts = {2}
    Rubrics <- MCRubrics
    MaxReruns = 1
    Labels = {"nationality:"}
    Redacted = "[redacted]"
    Headings <- MCHeadings
    ShortWords = {"go"}
    Values = {"indian"}
    Readings <- MCReadings
    Bears <- MCBears

PROPERTY
    FailureNeverAccuses
