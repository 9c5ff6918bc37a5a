SPECIFICATION Spec
CONSTANTS
  Tokens = {t1, t2}
  None = None
  Null = Null
  Other = Other
  NoPage = NoPage
  MaxTries = 4
INVARIANT FollowsLinks
INVARIANT EndsWhereTheServerDoes
