SPECIFICATION FairSpec
CONSTANTS
  a = a
  b = b
  other = other
  page = page
  title = title
  m = m
  n = n
  Nobody = Nobody
  Tabs = {a, b}
  Pages = {page, other}
  Callers <- Everybody
  Fields = {title}
  o = o
  Nodes = {m, n, o}
  FirstNodes = {m, n}
  MaxCalls = 2
INVARIANTS TypeOK SubscriptionsEndWithTab KeepsItsApp EdgesJoinNodes StopWaits
PROPERTIES DocsAnswerToCalls RequestsSettle
CHECK_DEADLOCK FALSE
