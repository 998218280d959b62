SPECIFICATION MCSpec
CONSTANTS
  Letters = {"a", "b"}
  Star = "*"
  Words <- MCWords
  Loaded <- MCLoaded
  Texts <- MCTexts
  NoWord = noWord
  Users = {u1, u2, u3}
  MaxLeaving = 2
INVARIANTS FilterIsSound ChannelsAreSound
PROPERTIES FilterReturns
