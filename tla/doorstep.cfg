\* Two codes and two requests in flight: a poll against a webhook, a webhook
\* against its duplicate, a settlement against the rider's cash.
SPECIFICATION Spec
CONSTANTS
  NoQr = NoQr
  QRs = {qr1, qr2}
  Requests = {s1, s2}
SYMMETRY RequestSymmetry
INVARIANTS
  CashOrOnline
  CashReachesLedger
  SettledQrIsBooked
  MoneyHasReason
CHECK_DEADLOCK FALSE
