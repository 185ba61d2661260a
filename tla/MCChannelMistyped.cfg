\* webhook.py:87-93: an update no retry can change must not be queued for ever.
SPECIFICATION FairSpec
CONSTANTS
  Chats = {k1, k2}
  NoChat = NoChat
  Messages = {m1, m2}
  NoMessage = NoMessage
  MaxInHand = 2
  MaxTeams = 4
  Led = {1}
  MaxIncidents = 0
  Inbox <- MCMistyped
  k1 = k1
  k2 = k2
  m1 = m1
  m2 = m2
PROPERTY EveryMessageAcknowledged
CHECK_DEADLOCK FALSE
