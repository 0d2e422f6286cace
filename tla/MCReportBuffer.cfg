SPECIFICATION Spec
CONSTANTS
  Reports = {r1, r2, r3, r4}
INVARIANT TypeOK
PROPERTY MailboxImplemented
