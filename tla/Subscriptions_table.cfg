CONSTANTS
  Commands = {c1, c2}
  Ports = {usb, aux}
  ANY = ANY
  BAD = BAD
  Delays = {10}
  ALL = ALL
  Cmd_None = Cmd_None
  Slots = 2
  MailboxSize = 3
  NONE = NONE
SPECIFICATION FairSpec
INVARIANTS
  TimerFollowsSubscription
PROPERTIES
  PeriodicallySent
  ImplementsTable
