SPECIFICATION Spec
CONSTANT Texts <- CheckedTexts
INVARIANTS TypeOK KnowsWhatIsDeclared StopsOnlyAtGaps ParsesBack NothingIgnored
  MatcherTellsApart
CHECK_DEADLOCK FALSE
