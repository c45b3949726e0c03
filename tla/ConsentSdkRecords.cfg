SPECIFICATION ConsentSdkSpec
CONSTANTS
  Pages = {p1, p2}
  FormChoices = {{"sale_or_share"}}
  MaxVisits = 2
  MaxChanges = 2
INVARIANTS
  ConsentIsRecorded
CHECK_DEADLOCK FALSE
