CONSTANTS
  parent = parent
  child = child
  Txs = {parent, child}
  Parents <- ParentAndChild
  Workers = {w1, w2}
  ChannelSize = 1
  MaxParentWait = 1
  UnknownParentWait = 0
  MaxAdds = 2
SPECIFICATION FairSpec
INVARIANT TypeOK
INVARIANT EachItemOnce
INVARIANT ParentsPostedFirst
PROPERTY EveryItemHandled
CHECK_DEADLOCK FALSE
