CONSTANT MaxTry = 3
SPECIFICATION Spec
INVARIANTS TypeOK VerifiedKey HearsItsChannel TimerHasCredentials LossIsRetried
