SPECIFICATION TriggerFairSpec
CONSTANTS
  mother = mother
  father = father
  student = student
  home = home
  own = own
  Recipient = {mother, father, student}
  Address = {home, own}
  AddressOf <- Phones
  NumAudiences = 3
  RecipientsOf <- StudentThenParents
  MaxTries = 3
  MaxStalls = 1
  Environments <- SomeFaults
CHECK_DEADLOCK FALSE
INVARIANTS OneJobPerAddress CompletedIsQueued
PROPERTY TriggerEnds
