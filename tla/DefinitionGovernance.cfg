SPECIFICATION AnswersSpec
CONSTANTS
    ann = ann  ben = ben  d1 = d1  d2 = d2  h1 = h1  h2 = h2  q1 = q1
    Seed = Seed  Nobody = Nobody
    Users = {ann, ben}
    Drafts = {d1, d2}
    Handlers = {h1, h2}
    Runs = {q1}
    Permits <- Grants
    SeparateReviewer = TRUE
    MaximumDrafts = 2
    MaximumSnapshots = 3
    Horizon = 1
SYMMETRY MCSymmetry
INVARIANTS PublicationChain FourEyes PinnedStaysAvailable WithdrawnNeverShown
PROPERTIES LogSpec
CHECK_DEADLOCK FALSE
