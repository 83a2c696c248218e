CONSTANTS
  r1 = r1  r2 = r2
  Nobody = Nobody
  Replicas = {r1, r2}
  TTL = 4
  Beat = 1
  Delay = 1
  Hold = 1
  Drain = 1
  Faulty = {r2}
  MaxLeases <- TwoLives
SPECIFICATION Spec
INVARIANTS FreshLeaseOwnsKey  
