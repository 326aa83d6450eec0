SPECIFICATION Spec
CONSTANTS
  i1 = i1  i2 = i2  uni = uni  e1 = e1  l1 = l1  l2 = l2
  k1 = k1  k2 = k2  c1 = c1  c2 = c2
  ana = ana  ben = ben  tpo = tpo  m1 = m1  h1 = h1  b1 = b1  b2 = b2
  cv1 = cv1  cv2 = cv2  r1 = r1  r2 = r2
  x1 = x1  x2 = x2  n1 = n1  n2 = n2  o1 = o1  o2 = o2
  None = None  Unset = Unset  NoRow = NoRow
  NoData = NoData  NoRows = NoRows
  Tenant <- Institutions
  Slug <- Slugs
  Email = {e1}
  Link <- Links
  Token <- Tokens
  AuthCall <- AuthCalls
  Student <- Students
  Staff = {tpo}
  Thread <- Threads
  Headline = {h1}
  BoardCall <- BoardCalls
  Owner <- Students
  Content <- Contents
  ResumeCall <- ResumeCalls
  Text <- Texts
  Client <- Clients
  ConsoleCall <- ConsoleCalls
SYMMETRY Symmetry
INVARIANTS LinkUsedOnce
CHECK_DEADLOCK FALSE
