CONSTANTS
  Ops = {o1, o2, o3}
  Nobody = Nobody
  Boxes = {INBOX, review, gone}
  INBOX = INBOX
  NoBox = NoBox
  Missing = {}
SPECIFICATION FairSpec
PROPERTY WorkOnItsMailbox
