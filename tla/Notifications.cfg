CONSTANTS
    mail = mail
    other = other
    Handlers <- MCHandlers
    MaxRequests = 3

SPECIFICATION Spec
CHECK_DEADLOCK FALSE
INVARIANTS NotificationTypeOK StatusIsTrue SuccessIsTrue MailedCodeWasStored StoredCodeIsOnItsWay
PROPERTY NotificationsSettle
