SPECIFICATION Spec
CONSTANTS
    None = None
    Procs = {p1, p2}
    c1 = c1
    c2 = c2
    a = a
    x = x
    b = b
    key = key
    visit = visit
    ask = ask
    silence = silence
    slot = slot
    invited = invited
    attended = attended
    absent = absent
    form = form
    correct = correct
    automated = automated
SYMMETRY Symmetry
INVARIANTS
    TypeOK
    OpenIsRecoverable
    PublishedWasSent
    PublishedWasValidated
    ReentryKept
    EditsFollowTheirBase
    ServedIsComplete
PROPERTIES
    ImplementsImportLedger
    ImplementsBatchRun
    ImplementsProgramLedger
    ImplementsCloneOnce
\* The jobs come to an end.
CHECK_DEADLOCK FALSE
