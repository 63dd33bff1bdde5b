SPECIFICATION HFairSpec
CONSTANTS
  Task = {t1, t2, t3}
  Worker = {w1, w2}
  Addr = {"a0", "a1"}
  Stripe = {s1}
  StripeOf <- OneStripe
  Val = {"v0", "v1", "v2"}
  Obj = {o1, o2, o3}
  NULL = NULL
  Main = t1
  Nascent1 = t2
  Preconds <- PrecondsOfNascent
  Scripts <- MatchedPrograms
  OutOfMemory = FALSE
PROPERTY Terminates
