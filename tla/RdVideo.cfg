SPECIFICATION FairSpec
CONSTANTS
  MaxStarts = 2
  MaxFrames = 3
  MaxPackets = 2
INVARIANTS AcksAreEarned DrawnInOrder
PROPERTIES AckFollows PictureFollows
