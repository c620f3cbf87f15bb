------------------------ MODULE HeartbeatPagerProofs ------------------------
(***************************************************************************)
(* Proofs about HeartbeatPager, for every threshold, cooldown and choice   *)
(* of faults unless a theorem says otherwise.                              *)
(*                                                                         *)
(* StoreInv is why the cooldown survives a restart: as long as the file    *)
(* can be written, its entries are as old as the last pages, and the       *)
(* memory never knows of a page that the file does not.                    *)
(***************************************************************************)
EXTENDS HeartbeatPager, TLAPS

StoreInv ==
    "file" \notin Faults =>
        /\ writable
        /\ fileAge = pageAge
        /\ \A k \in Kinds : fileAge[k] = None => memAge[k] = None

\* The stamp of a loop that cycles, written or not, is the current cycle's.
BeatInv == Cycling /\ ~missed => beatAge = sinceCycle

LEMMA FarIsNat ==
    ASSUME PagerConstants
    PROVE  Far \in Nat /\ Far >= StaleAfter + 1 /\ Far >= Cooldown
<1>1. StaleAfter + 1 \in Nat /\ Cooldown \in Nat
  BY DEF PagerConstants
<1>2. \E m \in {StaleAfter + 1, Cooldown} : \A y \in {StaleAfter + 1, Cooldown} : m >= y
  <2>1. CASE StaleAfter + 1 >= Cooldown
    BY <1>1, <2>1
  <2>2. CASE Cooldown >= StaleAfter + 1
    BY <1>1, <2>2
  <2> QED
    BY <1>1, <2>1, <2>2
<1> QED
  BY <1>1, <1>2 DEF Far, Max

LEMMA AgesGrow ==
    ASSUME PagerConstants, NEW age \in Ages
    PROVE  Older(age) \in Ages /\ (Older(age) = None <=> age = None)
BY FarIsNat DEF Ages, None, Older

\* TypeOK is invariant: no order of boots, claims, sends and crashes leads out of it.
THEOREM TypeCorrect ==
    ASSUME PagerConstants PROVE Spec => []TypeOK
<1>1. Init => TypeOK
  <2>1. None \in Ages /\ Never \in [Kinds -> Ages]
    BY FarIsNat DEF Ages, None, Never
  <2>2. 0 \in 0..Interval /\ 0 \in 0..CycleMax
    BY DEF PagerConstants
  <2> SUFFICES ASSUME Init PROVE TypeOK
    OBVIOUS
  <2>3. writable \in BOOLEAN /\ missed \in BOOLEAN
    BY DEF Init
  <2> QED
    BY <2>1, <2>2, <2>3 DEF Init, TypeOK
<1>2. TypeOK /\ [Next]_vars => TypeOK'
  <2> SUFFICES ASSUME TypeOK, [Next]_vars PROVE TypeOK'
    OBVIOUS
  <2> USE DEF TypeOK
  <2> 0 \in Ages /\ None \in Ages /\ Never \in [Kinds -> Ages]
    BY FarIsNat DEF Ages, None, Never
  <2> 0 \in 0..CycleMax /\ 0 \in 0..Interval
    BY DEF PagerConstants
  <2>b. ASSUME BeginCycle
        PROVE  sinceCycle' \in 0..CycleMax /\ beatAge' \in Ages /\ missed' \in BOOLEAN
    BY <2>b DEF BeginCycle, WriteHeartbeat
  <2>c. ASSUME NEW k \in Kinds, Claim(k)
        PROVE  /\ fileAge' \in [Kinds -> Ages] /\ memAge' \in [Kinds -> Ages]
               /\ sending' \subseteq Kinds /\ pageAge' \in [Kinds -> Ages]
    BY <2>c DEF Claim, Stamp, Refused, cooldowns
  <2>1. CASE Tick
    <3>1. sinceCycle' \in 0..CycleMax /\ waited' \in 0..Interval
      BY <2>1 DEF Tick, PagerConstants
    <3> QED
      BY <2>1, <3>1, AgesGrow DEF Tick, AllOlder
  <2>2. CASE DiskFails
    BY <2>2 DEF DiskFails, heartbeat, cooldowns
  <2>3. CASE Boot
    BY <2>3 DEF Boot, heartbeat, Kinds
  <2>4. CASE Enter \/ Beat \/ Hang \/ Recover
    <3>1. CASE Enter
      BY <2>b, <3>1 DEF Enter, cooldowns
    <3>2. CASE Beat \/ Recover
      BY <2>b, <3>2 DEF Beat, Recover, cooldowns
    <3>3. CASE Hang
      BY <3>3 DEF Hang, heartbeat, cooldowns
    <3> QED
      BY <2>4, <3>1, <3>2, <3>3
  <2>5. CASE Exit
    <3>1. "exit" \in Kinds
      BY DEF Kinds
    <3> QED
      BY <2>5, <2>c, <3>1 DEF Exit, heartbeat
  <2>6. CASE Stop \/ Crash
    BY <2>6 DEF Stop, Crash, Ended, heartbeat, cooldowns
  <2>7. CASE SupervisorTick
    <3>1. "stale" \in Kinds
      BY DEF Kinds
    <3> QED
      BY <2>7, <2>c, <3>1 DEF SupervisorTick, NoClaim, heartbeat, cooldowns
  <2>8. ASSUME NEW k \in Kinds, Sent(k)
        PROVE  TypeOK'
    BY <2>8 DEF Sent, heartbeat, cooldowns
  <2>9. CASE UNCHANGED vars
    BY <2>9 DEF vars, heartbeat, cooldowns
  <2> QED
    BY <2>1, <2>2, <2>3, <2>4, <2>5, <2>6, <2>7, <2>8, <2>9 DEF Next
<1> QED
  BY <1>1, <1>2, PTL DEF Spec

LEMMA ClaimKeepsStore ==
    ASSUME TypeOK, StoreInv, NEW k \in Kinds, Claim(k), UNCHANGED writable
    PROVE  StoreInv'
BY DEF TypeOK, StoreInv, Claim, Stamp, Refused, cooldowns, None, Far

LEMMA StoreStep ==
    ASSUME PagerConstants PROVE TypeOK /\ StoreInv /\ [Next]_vars => StoreInv'
<1> SUFFICES ASSUME TypeOK, StoreInv, [Next]_vars PROVE StoreInv'
  OBVIOUS
<1> USE DEF TypeOK, StoreInv
<1>1. CASE Tick
  <2>1. \A k \in Kinds : /\ fileAge'[k] = Older(fileAge[k]) /\ memAge'[k] = Older(memAge[k])
    BY <1>1 DEF Tick, AllOlder
  <2> QED
    BY <1>1, <2>1, AgesGrow DEF Tick
<1>2. CASE DiskFails
  BY <1>2 DEF DiskFails
<1>3. CASE Boot
  <2>1. 0 # None
    BY FarIsNat DEF None
  <2> QED
    BY <1>3, <2>1 DEF Boot, Never, Kinds
<1>4. CASE Enter \/ Beat \/ Hang \/ Recover
  BY <1>4 DEF Enter, Beat, Hang, Recover, cooldowns
<1>5. CASE Exit
  BY <1>5, ClaimKeepsStore DEF Exit, Kinds
<1>6. CASE Stop \/ Crash
  BY <1>6 DEF Stop, Crash, Ended, cooldowns
<1>7. CASE SupervisorTick
  BY <1>7, ClaimKeepsStore DEF SupervisorTick, NoClaim, cooldowns, Kinds
<1>8. ASSUME NEW k \in Kinds, Sent(k)
      PROVE  StoreInv'
  BY <1>8 DEF Sent, cooldowns
<1>9. CASE UNCHANGED vars
  BY <1>9 DEF vars, cooldowns
<1> QED
  BY <1>1, <1>2, <1>3, <1>4, <1>5, <1>6, <1>7, <1>8, <1>9 DEF Next

\* Who sends a page claimed it after the cooldown of the page before it.
LEMMA ClaimsAreSpaced ==
    ASSUME PagerConstants, TypeOK, StoreInv, "file" \notin Faults, NEW k \in Kinds, Claim(k),
           NEW j \in Kinds, j \in sending' \ sending
    PROVE  pageAge[j] >= Cooldown
<1>1. j = k /\ LastClaim(k) >= Cooldown
  BY DEF TypeOK, Claim
<1>2. CASE fileAge[k] # None
  BY <1>1, <1>2 DEF StoreInv, LastClaim
<1>3. CASE fileAge[k] = None
  BY <1>1, <1>3, FarIsNat DEF PagerConstants, StoreInv, None
<1> QED
  BY <1>2, <1>3

\* Through any exits, crashes, restarts and lost pages, no kind of page is sent
\* twice within the cooldown, when the cooldown file can be written.
THEOREM PagesKeepCooldown ==
    ASSUME PagerConstants, "file" \notin Faults PROVE Spec => PagesAreSpaced
<1> DEFINE Spaced == \A k \in Kinds : k \in sending' \ sending => pageAge[k] >= Cooldown
<1>1. Init => StoreInv
  BY DEF Init, StoreInv
<1>2. TypeOK /\ StoreInv /\ [Next]_vars => Spaced
  <2> SUFFICES ASSUME TypeOK, StoreInv, [Next]_vars PROVE Spaced
    OBVIOUS
  <2>1. CASE Boot
    <3> SUFFICES ASSUME NEW k \in Kinds, k \in sending' \ sending
                 PROVE  pageAge[k] >= Cooldown
      OBVIOUS
    <3>1. k = "runtime_config_manifest" /\ fileAge[k] >= Cooldown
      BY <2>1 DEF Boot
    <3> QED
      BY <3>1 DEF StoreInv
  <2>2. CASE Exit
    BY <2>2, ClaimsAreSpaced DEF Exit, Kinds
  <2>3. CASE SupervisorTick
    BY <2>3, ClaimsAreSpaced DEF SupervisorTick, NoClaim, Kinds
  <2>4. CASE Tick \/ DiskFails \/ Enter \/ Beat \/ Hang \/ Recover \/ Stop \/ Crash
             \/ UNCHANGED vars
    BY <2>4 DEF Tick, DiskFails, Enter, Beat, Hang, Recover, Stop, Crash, Ended, vars
  <2>5. ASSUME NEW k \in Kinds, Sent(k) PROVE Spaced
    BY <2>5 DEF Sent
  <2> QED
    BY <2>1, <2>2, <2>3, <2>4, <2>5 DEF Next
<1>3. TypeOK /\ StoreInv /\ [Next]_vars => [Spaced]_vars
  BY <1>2
<1>4. Spec => []TypeOK
  BY TypeCorrect
<1> QED
  BY <1>1, <1>3, <1>4, StoreStep, PTL DEF Spec, PagesAreSpaced

\* write_heartbeat and heartbeat_supervisor_tick: when no cycle of a loop that
\* does not hang is longer than the threshold, a stale page says of a cycling
\* loop that it hangs only after that loop's last cycle failed to write its
\* stamp - whatever stamp an earlier process or an earlier hang left behind.
THEOREM AlarmsAreTrue ==
    ASSUME PagerConstants, CycleMax <= StaleAfter PROVE Spec => NoFalseAlarm
<1> DEFINE Quiet == Cycling /\ ~missed => "stale" \notin sending' \ sending
<1>1. Init => BeatInv
  BY DEF Init, BeatInv, Cycling
<1>2. TypeOK /\ BeatInv /\ [Next]_vars => BeatInv'
  <2> SUFFICES ASSUME TypeOK, BeatInv, [Next]_vars PROVE BeatInv'
    OBVIOUS
  <2> USE DEF BeatInv, Cycling
  <2>1. CASE Tick
    BY <2>1, FarIsNat DEF Tick, Older, PagerConstants, TypeOK
  <2>2. CASE Enter \/ Beat \/ Recover
    BY <2>2 DEF Enter, Beat, Recover, BeginCycle, WriteHeartbeat
  <2>3. CASE DiskFails \/ Boot \/ Hang \/ Exit \/ Stop \/ Crash \/ SupervisorTick
             \/ UNCHANGED vars
    BY <2>3 DEF DiskFails, Boot, Hang, Exit, Stop, Crash, Ended, SupervisorTick,
                vars, heartbeat
  <2>4. ASSUME NEW k \in Kinds, Sent(k) PROVE BeatInv'
    BY <2>4 DEF Sent, heartbeat
  <2> QED
    BY <2>1, <2>2, <2>3, <2>4 DEF Next
<1>3. TypeOK /\ BeatInv /\ [Next]_vars => Quiet
  <2> SUFFICES ASSUME TypeOK, BeatInv, [Next]_vars, Cycling, ~missed,
                      "stale" \in sending' \ sending
               PROVE  FALSE
    OBVIOUS
  <2>1. CASE SupervisorTick
    <3>1. beatAge = sinceCycle /\ sinceCycle <= StaleAfter
      BY DEF PagerConstants, TypeOK, BeatInv
    <3>2. ~IsOld
      BY <3>1 DEF PagerConstants, TypeOK, IsOld
    <3> QED
      BY <2>1, <3>2 DEF SupervisorTick, NoClaim
  <2>2. CASE Exit
    BY <2>2 DEF Exit, Claim
  <2>3. CASE Tick \/ DiskFails \/ Boot \/ Enter \/ Beat \/ Hang \/ Recover \/ Stop \/ Crash
             \/ UNCHANGED vars
    BY <2>3 DEF Tick, DiskFails, Boot, Enter, Beat, Hang, Recover, Stop, Crash, Ended, vars
  <2>4. ASSUME NEW k \in Kinds, Sent(k) PROVE FALSE
    BY <2>4 DEF Sent
  <2> QED
    BY <2>1, <2>2, <2>3, <2>4 DEF Next
<1>4. TypeOK /\ BeatInv /\ [Next]_vars => [Quiet]_vars
  BY <1>3
<1>5. Spec => []TypeOK
  BY TypeCorrect
<1> QED
  BY <1>1, <1>2, <1>4, <1>5, PTL DEF Spec, NoFalseAlarm
=============================================================================
