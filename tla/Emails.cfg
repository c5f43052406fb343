SPECIFICATION FairSpec
CONSTANTS
  single = single
  pair = pair
  three = three
  Workers = {w1, w2}
  Messages <- MCMessages
  To <- MCTo
  MaxCrashes = 1
CHECK_DEADLOCK FALSE
PROPERTIES MailsEndOnce EmailsSettle
