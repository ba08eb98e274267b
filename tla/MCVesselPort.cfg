\* The furnace and the TIC port, two commands at a time, every failure the
\* callbacks meet.
SPECIFICATION LiveSpec
CONSTANTS
  Furnace = Furnace
  TicPort = TicPort
  Vessel <- MCVessel
  Resetting <- MCResetting
  Travel = 1
  Command = {c1, c2}
  NoCommand = NoCommand
INVARIANTS
  Interlocked
  PortStaysPlaced
  PublishedFits
PROPERTIES
  CommandsAreExclusive
  EveryCommandEnds
