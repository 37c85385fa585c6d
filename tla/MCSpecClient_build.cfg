\* One client, every description of the instance, answers in any order, one
\* document that cannot be fetched.
SPECIFICATION FairSpec
CONSTANTS
  A = A
  B = B
  N1 = N1
  N2 = N2
  N3 = N3
  N4 = N4
  N5 = N5
  N6 = N6
  Api1 = Api1
  Api2 = Api2
  Docs = {A, B}
  Names = {N1, N2, N3, N4, N5, N6}
  Apis = {Api1, Api2}
  Library <- MCLibrary
  Specifications <- MCSpecifications
  OldDescriptions <- MCOld
  Model <- MCModel
  Depth = 3
  MaxFailures = 1
INVARIANTS TypeOK CallsCounted MeansItsTarget LeftNothing ListingComplete
PROPERTIES ClientSettles
CHECK_DEADLOCK FALSE
