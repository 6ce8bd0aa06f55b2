SPECIFICATION Spec
CONSTANTS
  users = users
  posts = posts
  logs = logs
  Collections = {users, posts, logs}
  Ids = {1, 2, 3, 4}
  InitialRows <- TheRows
  FieldsOf <- TheFields
  Include = {}
  Exclude = {logs}
  BatchSize = 2
  RowCaps = {1, 2}
  MaxChanges = 2
  MaxFaults = 1
INVARIANTS TypeOK LossIsTold ExportedOnce
CHECK_DEADLOCK FALSE
