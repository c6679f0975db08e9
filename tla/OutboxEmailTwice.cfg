SPECIFICATION Spec
CONSTANTS
  None = None
  email = email
  webhook = webhook
  enrolled = enrolled
  contact = contact
  Deliveries = {email}
  Emails = {email}
  Enrollments = {enrolled}
  EnrollmentOf <- TheEnrollment
  Contacts = {contact}
  ContactOf <- TheContact
  Leases = {l1, l2}
  Procs = {p1}
  Events = {"delivered", "bounced"}
  Limit = 2
  MaxDeliveries = 1
INVARIANTS EmailAcceptedOnce
CHECK_DEADLOCK FALSE
