SPECIFICATION FairSpec
CONSTANTS
  Names = {a}
  Words <- MCWords
  Guesses <- MCGuesses
  LongLines <- MCLongLines
  MAX_PLAYERS = 2
  MaxConns = 2
  MaxLines = 4
INVARIANTS
  TypeOK
  PlaysOwnGame
  AnswersInStep
  ServerEndsForACause
PROPERTIES
  ImplementsLobby
  PlayMovesToOlder
  CommandsAreAnswered
CHECK_DEADLOCK FALSE
