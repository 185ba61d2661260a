\* Two chats, two messages and two requests in hand, with one incident: safety
\* and the acknowledgement of every message.
SPECIFICATION FairSpec
CONSTANTS
  Chats = {k1, k2}
  NoChat = NoChat
  Messages = {m1, m2}
  NoMessage = NoMessage
  MaxInHand = 2
  MaxTeams = 4
  Led = {1}
  MaxIncidents = 1
  Inbox <- MCInbox
  k1 = k1
  k2 = k2
  m1 = m1
  m2 = m2
INVARIANTS
  TypeOK
  IndexMatchesFile
  AckedMessagesAreAccounted
  NothingTwice
  AnswersFindTheirChat
PROPERTIES
  EveryMessageAcknowledged
CHECK_DEADLOCK FALSE
