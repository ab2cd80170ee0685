CONSTANTS
  Track = {t1, t2, t3, t4}
  Client = {c1, c2}
  NoCall = NoCall
  MaxQueue = 2
  MaxDeliveries = 2
SYMMETRY Symmetry
SPECIFICATION Spec
INVARIANTS TypeOK Conservation Order NoOvertaking AdmissionBound
PROPERTY ImplementsLeaseQueue
