\* Two places in the listing, one key to a page.
SPECIFICATION FairSpec
CONSTANTS
  Key = {1, 2}
  PageSize = 1
PROPERTIES
  ExpiredObjectsDeleted
CHECK_DEADLOCK FALSE
