------------------------- MODULE ScanCadenceProofs -------------------------
(* Proofs about ScanCadence: the scan timer is never lost and never slow     *)
(* when it must be eager, for any number of links and dials.                 *)
EXTENDS ScanCadence, TLAPS

\* What the handlers rely on: only a powered radio scans, only a radio that
\* went down is off, only a suspension drains, and a drained one is quiet.
ScanInv ==
  /\ peers \in Nat
  /\ central # "poweredOn" => ~scanning
  /\ central = "off" => wasDown
  /\ draining => suspended
  /\ suspended => timer = "none" /\ dials = 0
  /\ QuietWhileSuspended
  /\ CadenceAlive
  /\ Eager

LEMMA ScanInit == Init => ScanInv
BY DEF Init, ScanInv, QuietWhileSuspended, CadenceAlive, Eager, Running

\* Arming the timer, and _startScan, leave it as long as it has to be.
LEMMA ArmSets == ASSUME Arm PROVE timer' # "none" /\ (~Duty' => timer' = "lonely")
BY DEF Arm, Delay

LEMMA StartScanSets ==
  ASSUME NEW s, StartScan(s)
  PROVE  /\ scanning' <=> s \/ Starts(s)
         /\ Starts(s) => timer' # "none" /\ (~Duty' => timer' = "lonely")
         /\ ~Starts(s) => timer' = timer
BY DEF StartScan, Arm, Delay

LEMMA ScanStep ==
  ASSUME ScanInv, Overlap = FALSE, [Next]_vars
  PROVE  ScanInv'
<1> USE DEF ScanInv, QuietWhileSuspended, CadenceAlive, Eager, Running,
            power, mood
<1>1. CASE TimerFires
  <2>1. CASE suspended \/ dials > 0
    BY <1>1, <2>1 DEF TimerFires, Arm, Delay, Duty
  <2>2. CASE ~(suspended \/ dials > 0) /\ Restarts
    <3>1. scanning' <=> central = "poweredOn"
      BY <1>1, <2>2 DEF TimerFires
    <3>2. scanning' => timer' = Delay'
      BY <1>1, <2>2 DEF TimerFires
    <3>3. Delay' # "none" /\ (~Duty' => Delay' = "lonely")
      BY DEF Delay
    <3>4. UNCHANGED <<power, mood, peers, dials>> /\ (~scanning' => timer' = "none")
      BY <1>1, <2>2 DEF TimerFires
    <3> QED BY <2>2, <3>1, <3>2, <3>3, <3>4 DEF Duty
  <2>3. CASE ~(suspended \/ dials > 0) /\ ~Restarts
    BY <1>1, <2>3 DEF TimerFires, GoDark, Arm, Delay, Duty
  <2> QED BY <2>1, <2>2, <2>3
<1>2. CASE HuntEnds
  BY <1>2 DEF HuntEnds, Duty
<1>3. CASE SetOnline
  <2>1. CASE suspended
    BY <1>3, <2>1 DEF SetOnline, Duty
  <2>2. CASE ~suspended /\ ~scanning
    BY <1>3, <2>2, StartScanSets DEF SetOnline, Starts, Duty
  <2>3. CASE ~suspended /\ scanning
    BY <1>3, <2>3 DEF SetOnline, Arm, Delay, Duty
  <2> QED BY <2>1, <2>2, <2>3
<1>4. CASE Dial
  BY <1>4 DEF Dial, Duty
<1>5. CASE DialEnds
  BY <1>5, StartScanSets DEF DialEnds, Starts, Duty
<1>6. CASE Stray
  BY <1>6, StartScanSets DEF Stray, Starts, Duty
<1>7. CASE CentralError
  BY <1>7 DEF CentralError, Duty
<1>8. CASE Track
  BY <1>8 DEF Track, Duty
<1>9. CASE Untrack
  <2>1. CASE Hunts
    BY <1>9, <2>1 DEF Untrack, Hunts, Starts, Arm, Delay, Duty
  <2>2. CASE ~Hunts
    BY <1>9, <2>2 DEF Untrack, Hunts, Duty
  <2> QED BY <2>1, <2>2
<1>10. CASE RadioDown
  BY <1>10 DEF RadioDown, Duty
<1>11. CASE RadioOn
  <2>1. CASE wasDown
    <3>1. CASE suspended
      BY <1>11, <2>1, <3>1 DEF RadioOn, Duty
    <3>2. CASE ~suspended
      BY <1>11, <2>1, <3>2 DEF RadioOn, Fresh, Duty
    <3> QED BY <3>1, <3>2
  <2>2. CASE ~wasDown
    BY <1>11, <2>2, StartScanSets DEF RadioOn, Starts, Duty
  <2> QED BY <2>1, <2>2
<1>12. CASE Suspend
  BY <1>12 DEF Suspend, Duty
<1>13. CASE Drained
  BY <1>13 DEF Drained, Duty
<1>14. CASE Resume
  <2>1. CASE wasDown
    BY <1>14, <2>1 DEF Resume, Fresh, Duty
  <2>2. CASE ~wasDown
    BY <1>14, <2>2, StartScanSets DEF Resume, Starts, Duty
  <2> QED BY <2>1, <2>2
<1>15. CASE UNCHANGED vars
  BY <1>15 DEF vars, Duty
<1> QED
  BY <1>1, <1>2, <1>3, <1>4, <1>5, <1>6, <1>7, <1>8, <1>9, <1>10, <1>11, <1>12, <1>13,
     <1>14, <1>15 DEF Next

\* A resume that comes while suspend still drains is refused here: with it the
\* timer is lost.
THEOREM ScanInvariant == ASSUME Overlap = FALSE PROVE Spec => []ScanInv
BY ScanInit, ScanStep, PTL DEF Spec

\* For any number of links and dials, in whatever order timers, dials, losses,
\* power cycles and suspensions come: the scan timer of a running device pends.
THEOREM CadenceNeverDies == ASSUME Overlap = FALSE PROVE Spec => []CadenceAlive
<1>1. ScanInv => CadenceAlive
  BY DEF ScanInv
<1> QED BY <1>1, ScanInvariant, PTL

\* And it is the eager one whenever the device is lonely and offline or hunting.
THEOREM HuntsEagerly == ASSUME Overlap = FALSE PROVE Spec => []Eager
<1>1. ScanInv => Eager
  BY DEF ScanInv
<1> QED BY <1>1, ScanInvariant, PTL

\* A suspended device stays quiet whatever arrives late.
THEOREM SuspendedIsQuiet == ASSUME Overlap = FALSE PROVE Spec => []QuietWhileSuspended
<1>1. ScanInv => QuietWhileSuspended
  BY DEF ScanInv
<1> QED BY <1>1, ScanInvariant, PTL

\* The timer of a running transport pends, for the delay that is due.
THEOREM CadenceIsRight == ASSUME Overlap = FALSE PROVE Spec => []CadenceRight
BY CadenceNeverDies, HuntsEagerly, PTL DEF CadenceRight
=============================================================================
