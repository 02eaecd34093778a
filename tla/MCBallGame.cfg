SPECIFICATION FairSpec
CONSTANTS
    Players <- MCPlayers
    TeamOf <- MCTeamOf
    MaxGuesses <- MCMaxGuesses
INVARIANTS
    DecidedStays
    WinnersAnnounced
PROPERTY
    EveryPlayerReachesTeam
CHECK_DEADLOCK FALSE
