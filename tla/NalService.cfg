SPECIFICATION Spec
CONSTANTS
  small = small
  large = large
  None = None
  Messages = {small, large}
  Size <- MCSize
  MaxSendSize = 2
  Registrations <- MCRegistrations
  MaxTrouble = 2
INVARIANTS TypeOK NoMemoryFault NothingLeaks
PROPERTIES ImplementsChannel SendCoversMessage WholeMessagesHandled StopReturns
