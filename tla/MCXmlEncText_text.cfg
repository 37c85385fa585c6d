\* Two encryptions, one in the other or side by side, on hosts of two charsets.
SPECIFICATION Spec
CONSTANTS
  Charsets = {"UTF-8", "ISO-8859-1"}
  Documents <- MCDocuments
  Surroundings <- MCSurroundings
  MaxSeals = 2
  MaxCalls = 6
PROPERTIES OpensWhatWasSealed TextSurvives
CHECK_DEADLOCK FALSE
