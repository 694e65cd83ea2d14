\* Every sequence of at most four results, under every strategy.
SPECIFICATION Spec
CONSTANTS
    Agents = {a1, a2, a3, a4}
    Yes = Yes
    yes = yes
    no = no
    yesBallot = yesBallot
    noBallot = noBallot
    Texts = {Yes, yes, no}
    Ballots = {yesBallot, noBallot}
    Normal <- MCNormal
    Errors = {timeout}
    Nothing = Nothing
INVARIANTS
    VotingIsPlurality
    FirstAnswers
    CountsMatchArtifacts
CHECK_DEADLOCK FALSE
