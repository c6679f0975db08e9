SPECIFICATION Spec
CONSTANTS
  None = None
  email = email
  webhook = webhook
  enrolled = enrolled
  contact = contact
  Deliveries = {email}
  Emails = {email}
  Enrollments = {enrolled}
  EnrollmentOf <- TheEnrollment
  Contacts = {contact}
  ContactOf <- TheContact
  Leases = {l1, l2}
  Procs = {p1}
  Events = {"delivered", "bounced"}
  Limit = 1
  MaxDeliveries = 1
PROPERTIES RepeatedEventChangesNothing
CHECK_DEADLOCK FALSE
