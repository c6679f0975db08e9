SPECIFICATION FairSpec
CONSTANTS
  None = None
  email = email
  webhook = webhook
  enrolled = enrolled
  contact = contact
  Deliveries = {email, webhook}
  Emails = {email}
  Enrollments = {enrolled}
  EnrollmentOf <- TheEnrollment
  Contacts = {contact}
  ContactOf <- TheContact
  Leases = {l1, l2, l3}
  Procs = {p1, p2}
  Events = {"delivered", "deferred", "bounced", "failed", "rejected", "complained"}
  Limit = 2
  MaxDeliveries = 1
INVARIANTS TypeOK StatusTruthful NoOpenDeliveryOfCancelled
  QueuedIsClaimable
PROPERTIES AnsweredEmailIsLast OnlyHolderCloses DeliverySettles
CHECK_DEADLOCK FALSE
