SPECIFICATION SessionsSpec
CONSTANTS
  Groups = {"auth", "webhooks"}
  Hosts = {h1}
  Limit <- AuthLimit
  Window <- AuthWindow
  Moves = {1, 2}
  None = None
  Requests = {r1, r2, r3}
  Old = {u1}
  OldEmail <- EmailOfOld
  OldPhone <- PhoneOfOld
  old = old
  new = new
  stranger = stranger
  phone1 = phone1
  phone2 = phone2
  phone3 = phone3
  Emails = {old, new, stranger}
  Phones = {phone1, phone2, phone3}
  Invited = {old, new}
SYMMETRY Interchangeable
VIEW Elapses
CONSTRAINT Bounded
INVARIANTS
  SessionsTypeOK
  OneSessionPerSignIn
  SignInsAgree
  TakenIsTaken
  AdmissionsBounded
CHECK_DEADLOCK FALSE
