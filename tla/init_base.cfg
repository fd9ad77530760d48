SPECIFICATION FairSpec
CONSTANTS
  Majors = {6, 7, 8}
  Version = 7
  Flags = {splice_read, splice_write, poll, big_writes}
  Required = {splice_read, splice_write}
  Wanted = {splice_read, splice_write, big_writes}
INVARIANTS TypeOK HandshakeInv RunsOnGranted
PROPERTIES UpByWholeReply Decides
