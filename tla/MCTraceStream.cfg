CONSTANTS
  MaxSeq = 4
  MinPage = 1
  Views <- MCViews
SPECIFICATION FairSpec
INVARIANTS TypeOK FiltersHold WindowIsWhatItSays NoDeadEnd
PROPERTY TailIsFollowed
