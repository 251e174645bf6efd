-------------------------- MODULE AASunFlashProofs --------------------------
(***************************************************************************)
(* The flash, proved for every number of slots and of history sectors: a   *)
(* restart finds the counters that were saved last, the history has the    *)
(* last days in their order, and a reader of it never gets half a record.  *)
(***************************************************************************)
EXTENDS AASunFlash, WellFoundedInduction, TLAPS

(* A non-empty set of naturals has a least element: the slot at which a    *)
(* search stops.                                                           *)
LEMMA LeastExists ==
  ASSUME NEW S, S \subseteq Nat, S # {}
  PROVE  \E i \in S : \A j \in S : i <= j
<1> DEFINE R == {ss \in Nat \X Nat : ss[1] < ss[2]}
<1>1. IsWellFoundedOn(R, Nat)
  BY NatLessThanWellFounded, Zenon DEF OpToRel
<1>2. \E i \in S : \A j \in S : <<j, i>> \notin R
  BY <1>1, WFMin
<1>3. \A i, j \in Nat : <<j, i>> \notin R => i <= j
  <2> TAKE i, j \in Nat
  <2>1. j < i => <<j, i>> \in R
    OBVIOUS
  <2> QED BY <2>1
<1> QED BY <1>2, <1>3

USE FlashAssumption DEF FlashAssumption

(* The slots below n hold records, the others are erased.                  *)
Filled(e, n) == \A i \in Slot : IF i < n THEN e[i] >= 0 ELSE e[i] = Erased

Sound == ~ spoilt /\ ~ stale

(* What RestartReadsSaved needs: the slots are filled from the first on,   *)
(* and the next one to write is the first erased one.                      *)
FilledInOrder ==
  Sound => \E n \in 0 .. SlotCount : Filled(energy, n) /\ (up => energyIx = n)

(* While the sector is being erased nothing may be found.                  *)
NothingMayBeFound == writer \in {"eraseEnergy", "wipeEnergy"} => 0 \in may

(* A wiped sector is stale until its first slot is used.                   *)
NothingInWiped == stale /\ ~ spoilt /\ ~ Used(energy) => 0 \in may

-----------------------------------------------------------------------------
(* energyFindLast finds the end of slots that are filled in order.         *)
LEMMA FilledNext ==
  ASSUME NEW e, NEW n \in 0 .. SlotCount, Filled(e, n)
  PROVE  /\ EnergyNext(e) = n
         /\ Last(e) = IF n = 0 THEN 0 ELSE e[n - 1]
<1>1. EnergyNext(e) = n
  <2>1. CASE n = SlotCount
    BY <2>1 DEF EnergyNext, FirstVirgin, Filled, Virgin, Erased, Dirty, Slot
  <2>2. CASE n < SlotCount
    <3>1. Virgin(e[n]) /\ \A j \in 0 .. n - 1 : ~ Virgin(e[j])
      BY <2>2 DEF Filled, Virgin, Erased, Dirty, Slot
    <3>2. \A i \in 0 .. SlotCount - 1 :
            Virgin(e[i]) /\ (\A j \in 0 .. i - 1 : ~ Virgin(e[j])) => i = n
      BY <2>2, <3>1
    <3> QED BY <2>2, <3>1, <3>2 DEF EnergyNext, FirstVirgin
  <2> QED BY <2>1, <2>2
<1> QED BY <1>1 DEF Last

(* The scan ends at a slot of the sector, or behind the last one.          *)
LEMMA ScanInRange ==
  ASSUME NEW area, NEW n \in Nat
  PROVE  FirstVirgin(area, n) \in 0 .. n
<1> DEFINE V == {i \in 0 .. n - 1 : Virgin(area[i])}
<1>1. CASE V = {}
  BY <1>1 DEF FirstVirgin
<1>2. CASE V # {}
  <2>1. PICK i \in V : \A j \in V : i <= j
    <3>1. V \subseteq Nat
      OBVIOUS
    <3> QED BY <1>2, <3>1, LeastExists
  <2>2. \A j \in 0 .. i - 1 : ~ Virgin(area[j])
    BY <2>1
  <2> QED BY <2>1, <2>2 DEF FirstVirgin
<1> QED BY <1>1, <1>2

(* What is before the next record has been written.                        *)
LEMMA NextNotVirgin ==
  ASSUME NEW e, NEW i \in 0 .. EnergyNext(e) - 1
  PROVE  ~ Virgin(e[i])
<1> DEFINE V == {j \in 0 .. SlotCount - 1 : Virgin(e[j])}
<1>1. CASE V = {}
  BY <1>1 DEF EnergyNext, FirstVirgin
<1>2. CASE V # {}
  <2>1. PICK j \in V : \A l \in V : j <= l
    <3>1. V \subseteq Nat
      OBVIOUS
    <3> QED BY <1>2, <3>1, LeastExists
  <2>2. \A l \in 0 .. j - 1 : ~ Virgin(e[l])
    BY <2>1
  <2> QED BY <2>1, <2>2 DEF EnergyNext, FirstVirgin
<1> QED BY <1>1, <1>2

(* The next record is in the sector, or just past it.                      *)
LEMMA NextInRange == ASSUME NEW e PROVE EnergyNext(e) \in 0 .. SlotCount
BY ScanInRange DEF EnergyNext

(* The next history sector is one of the sectors.                          *)
LEMMA HistoNextInRange == ASSUME NEW c PROVE HistoNext(c) \in Sector
BY ScanInRange DEF HistoNext, Sector

(* What a power failure leaves of the energy sector.                       *)
LEMMA LeftEnergy ==
  ASSUME TypeOK, HalfDone
  PROVE  \/ energy' = energy
         \/ /\ writer \in {"eraseEnergy", "wipeEnergy"}
            /\ energy' \in [Slot -> {Erased, Dirty, Torn}]
         \/ /\ writer = "writeEnergy"
            /\ \E c \in {Dirty, Torn} : energy' = [energy EXCEPT ![energyIx] = c]
<1>1. CASE writer = "writeEnergy"
  <2>1. PICK c \in HalfProgrammed(energy[energyIx]) :
          energy' = [energy EXCEPT ![energyIx] = c]
    BY <1>1 DEF HalfDone
  <2>2. CASE c = energy[energyIx]
    BY <2>1, <2>2 DEF TypeOK
  <2>3. CASE c # energy[energyIx]
    BY <2>1, <2>3, <1>1 DEF HalfProgrammed
  <2> QED BY <2>2, <2>3
<1>2. CASE writer # "writeEnergy"
  BY <1>2 DEF HalfDone, flash
<1> QED BY <1>1, <1>2

(* A power failure leaves words of the types of flash words.               *)
LEMMA LeftTyped ==
  ASSUME TypeOK, HalfDone
  PROVE  /\ energy' \in [Slot -> -3 .. MaxWh]
         /\ counters' \in [Sector -> -3 .. MaxDay]
         /\ powers' \in [Sector -> -3 .. MaxDay]
<1>1. energy' \in [Slot -> -3 .. MaxWh]
  BY LeftEnergy DEF TypeOK, Erased, Dirty, Torn
<1>2. counters' \in [Sector -> -3 .. MaxDay]
  BY DEF HalfDone, HalfProgrammed, HalfErased, flash, TypeOK, Erased, Dirty, Torn
<1>3. powers' \in [Sector -> -3 .. MaxDay]
  BY DEF HalfDone, HalfProgrammed, HalfErased, flash, TypeOK, Erased, Dirty, Torn
<1> QED BY <1>1, <1>2, <1>3

-----------------------------------------------------------------------------
(* The types.                                                              *)
LEMMA ReadInRange ==
  ASSUME NEW e \in [Slot -> -3 .. MaxWh], NEW wh \in Read(e),
         Last(e) = Torn \/ Last(e) \in 0 .. MaxWh
  PROVE  wh \in 0 .. MaxWh
BY DEF Read

(* The last slot in use does not read as erased.                           *)
LEMMA LastInRange ==
  ASSUME NEW e \in [Slot -> -3 .. MaxWh]
  PROVE  Last(e) = Torn \/ Last(e) \in 0 .. MaxWh
<1> DEFINE n == EnergyNext(e)
<1>1. CASE n = 0
  BY <1>1 DEF Last
<1>2. CASE n # 0
  <2>1. n \in 1 .. SlotCount
    BY <1>2, NextInRange
  <2>2. ~ Virgin(e[n - 1])
    BY <2>1, NextNotVirgin
  <2> QED BY <1>2, <2>1, <2>2 DEF Last, Virgin, Erased, Dirty, Torn, Slot
<1> QED BY <1>1, <1>2

(* The flash is typed when the application starts.                         *)
LEMMA TypeInit == Init => TypeOK
BY DEF Init, TypeOK, Slot, Sector, Erased

(* Every step keeps the types.                                             *)
LEMMA TypeNext == TypeOK /\ [Next]_vars => TypeOK'
<1> SUFFICES ASSUME TypeOK, [Next]_vars PROVE TypeOK'
  OBVIOUS
<1> USE DEF TypeOK, Erased, Torn
<1>1. CASE Count
  BY <1>1 DEF Count, Main, flash
<1>2. CASE ReadTotal
  <2>1. energyWh' \in 0 .. MaxWh
    BY <1>2, LastInRange, ReadInRange DEF ReadTotal
  <2>2. energyIx' \in 0 .. SlotCount
    BY <1>2, NextInRange DEF ReadTotal
  <2> QED BY <1>2, <2>1, <2>2 DEF ReadTotal, Main, flash
<1>3. CASE Save
  BY <1>3 DEF Save, Main, flash, ram
<1>4. CASE EraseEnergy
  BY <1>4 DEF EraseEnergy
<1>5. CASE WriteEnergy
  <2>1. energy' \in [Slot -> -3 .. MaxWh]
    <3>1. energy' = [energy EXCEPT ![energyIx] = Programmed(energy[energyIx], energyWh)]
      BY <1>5 DEF WriteEnergy
    <3>2. Programmed(energy[energyIx], energyWh) \in -3 .. MaxWh
      BY DEF Programmed
    <3> QED BY <3>1, <3>2
  <2>2. energyIx' \in 0 .. SlotCount
    BY <1>5 DEF WriteEnergy
  <2> QED BY <1>5, <2>1, <2>2 DEF WriteEnergy
<1>6. CASE EndDay
  BY <1>6 DEF EndDay, Main, flash, ram
<1>7. CASE WriteCounters
  BY <1>7 DEF WriteCounters, Programmed, ram
<1>8. CASE WritePowers
  BY <1>8 DEF WritePowers, Programmed, Sector
<1>9. CASE EraseNext
  BY <1>9 DEF EraseNext, ram
<1>10. CASE Wipe
  BY <1>10 DEF Wipe, Main, flash, ram
<1>11. CASE EraseHisto
  <2>1. counters' \in [Sector -> -3 .. MaxDay] /\ powers' \in [Sector -> -3 .. MaxDay]
    <3>1. Erased \in -3 .. MaxDay
      OBVIOUS
    <3>2. /\ counters' = [counters EXCEPT ![wiping] = Erased]
          /\ powers' = [powers EXCEPT ![wiping] = Erased]
      BY <1>11 DEF EraseHisto
    <3> QED BY <3>1, <3>2
  <2>2. writer' # "writeEnergy" /\ up'
    BY <1>11 DEF EraseHisto, ram
  <2> QED BY <1>11, <2>1, <2>2 DEF EraseHisto, ram
<1>12. CASE ResetIx
  BY <1>12 DEF ResetIx, Sector, flash
<1>13. CASE WipeEnergy
  BY <1>13 DEF WipeEnergy, ram
<1>14. CASE (\E rank \in Rank : ReadRank(rank)) \/ ReadCheck \/ ReadRecord
  <2>1. UNCHANGED <<flash, ram, day, writer>>
    BY <1>14 DEF ReadRank, ReadCheck, ReadRecord
  <2> QED BY <2>1 DEF flash, ram
<1>15. CASE PowerFails
  <2>1. HalfDone
    BY <1>15 DEF PowerFails
  <2>2. /\ energy' \in [Slot -> -3 .. MaxWh]
        /\ counters' \in [Sector -> -3 .. MaxDay]
        /\ powers' \in [Sector -> -3 .. MaxDay]
    BY <2>1, LeftTyped
  <2>3. /\ writer' = "idle" /\ energyWh' = 0 /\ energyIx' = 0 /\ histoIx' = 0
        /\ day' = day
    BY <1>15 DEF PowerFails
  <2> QED BY <2>2, <2>3 DEF Sector
<1>16. CASE Start
  <2>1. energyWh' \in 0 .. MaxWh
    BY <1>16, LastInRange, ReadInRange DEF Start
  <2>2. energyIx' \in 0 .. SlotCount /\ histoIx' \in Sector
    BY <1>16, NextInRange, HistoNextInRange DEF Start
  <2>3. writer' # "writeEnergy"
    BY <1>16 DEF Start
  <2> QED BY <1>16, <2>1, <2>2, <2>3 DEF Start, flash
<1>17. CASE UNCHANGED vars
  BY <1>17 DEF vars, flash, ram
<1> QED
  BY <1>1, <1>2, <1>3, <1>4, <1>5, <1>6, <1>7, <1>8, <1>9, <1>10, <1>11, <1>12,
     <1>13, <1>14, <1>15, <1>16, <1>17 DEF Next

(* The types are right, and a save never starts behind the last slot of    *)
(* the sector (cfgParameters.c:378).                                       *)
THEOREM TypeCorrect == Spec => []TypeOK
BY TypeInit, TypeNext, PTL DEF Spec

-----------------------------------------------------------------------------
(* A save that is complete is found again.                                 *)

Safe == FilledInOrder /\ NothingMayBeFound /\ NothingInWiped /\ RestartReadsSaved

(* The invariant holds when the application starts.                        *)
LEMMA SafeInit == Init => Safe
<1> SUFFICES ASSUME Init PROVE Safe
  OBVIOUS
<1>1. Filled(energy, 0)
  BY DEF Init, Filled, Slot
<1>2. Last(energy) = 0
  BY <1>1, FilledNext
<1> QED
  BY <1>1, <1>2 DEF Init, Safe, FilledInOrder, NothingMayBeFound, NothingInWiped,
                   RestartReadsSaved

(* All erased is filled in order.                                          *)
LEMMA EmptyFilled ==
  ASSUME NEW e, ~ Used(e)
  PROVE  Filled(e, 0) /\ Last(e) = 0
<1>1. Filled(e, 0)
  BY DEF Used, Filled, Slot
<1> QED BY <1>1, FilledNext

(* The steps that leave the sector alone.                                  *)
LEMMA SafeKept ==
  ASSUME NEW n \in 0 .. SlotCount, energy' = energy, Filled(energy, n),
         up' => energyIx' = n, Last(energy) \in may', Safe, may \subseteq may',
         writer' \in {"eraseEnergy", "wipeEnergy"} => 0 \in may'
  PROVE  Safe'
<1>1. (Filled(energy, n))' /\ Last(energy') = Last(energy)
  BY DEF Filled
<1>2. stale' /\ ~ spoilt' /\ ~ Used(energy') => 0 \in may'
  BY EmptyFilled
<1> QED BY <1>1, <1>2 DEF Safe, FilledInOrder, NothingMayBeFound, NothingInWiped,
                          RestartReadsSaved, Sound

(* The steps that leave the sector, its index and what may be found alone. *)
LEMMA SafeElsewhere ==
  ASSUME Safe, UNCHANGED <<energy, up, energyIx, energyAux>>,
         writer' \in {"eraseEnergy", "wipeEnergy"} => writer' = writer
  PROVE  Safe'
BY DEF Safe, FilledInOrder, NothingMayBeFound, NothingInWiped, RestartReadsSaved,
       Sound, energyAux, Filled, Last, EnergyNext, FirstVirgin, Used

(* Every step keeps the invariant.                                         *)
LEMMA SafeNext == TypeOK /\ Safe /\ [Next]_vars => Safe'
<1> SUFFICES ASSUME TypeOK, Safe, [Next]_vars PROVE Safe'
  OBVIOUS
<1>1. CASE Count
  BY <1>1, SafeElsewhere DEF Count, Main, flash, aux
<1>2. CASE ReadTotal
  <2>1. /\ energy' = energy /\ up' = up /\ may' = may /\ spoilt' = spoilt
        /\ writer' = "idle" /\ energyIx' = EnergyNext(energy)
        /\ stale' => stale /\ Used(energy)
        /\ ~ stale' => ~ stale \/ ~ Used(energy)
    BY <1>2 DEF ReadTotal, Main, flash
  <2>2. CASE Sound
    <3>1. PICK n \in 0 .. SlotCount : Filled(energy, n)
      BY <2>2 DEF Safe, FilledInOrder
    <3>2. energyIx' = n /\ Last(energy) \in may
      BY <2>1, <2>2, <3>1, FilledNext DEF Safe, RestartReadsSaved, Sound
    <3> QED BY <2>1, <3>1, <3>2, SafeKept
  <2>3. CASE ~ Sound /\ ~ Used(energy) /\ ~ spoilt
    <3>1. Filled(energy, 0) /\ 0 \in may
      BY <2>3, EmptyFilled DEF Safe, NothingInWiped, Sound
    <3>2. energyIx' = 0 /\ Last(energy) \in may
      BY <2>1, <3>1, FilledNext
    <3> QED BY <2>1, <3>1, <3>2, SafeKept
  <2>4. CASE ~ Sound /\ (Used(energy) \/ spoilt)
    <3>1. ~ Sound'
      BY <2>1, <2>4 DEF Sound
    <3> QED BY <2>1, <2>4, <3>1
            DEF Safe, FilledInOrder, NothingMayBeFound, NothingInWiped,
                RestartReadsSaved, Sound, Used
  <2> QED BY <2>2, <2>3, <2>4
<1>3. CASE Save
  <2>1. /\ energy' = energy /\ up' = up /\ energyIx' = energyIx
        /\ spoilt' = spoilt /\ stale' = stale /\ may \subseteq may'
        /\ writer' = "eraseEnergy" => 0 \in may'
        /\ writer' # "wipeEnergy"
    BY <1>3 DEF Save, flash, ram
  <2> QED BY <2>1 DEF Safe, FilledInOrder, NothingMayBeFound, NothingInWiped,
                      RestartReadsSaved, Sound
<1>4. CASE EraseEnergy
  <2>1. ~ Used(energy') /\ energyIx' = 0
    BY <1>4 DEF EraseEnergy, Used
  <2>2. may' = may /\ 0 \in may' /\ stale' = FALSE /\ writer' = "writeEnergy"
    BY <1>4 DEF EraseEnergy, Safe, NothingMayBeFound
  <2>3. Filled(energy', 0) /\ Last(energy') = 0
    BY <2>1, EmptyFilled
  <2> QED BY <2>1, <2>2, <2>3 DEF Safe, FilledInOrder, NothingMayBeFound,
             NothingInWiped, RestartReadsSaved, Filled
<1>5. CASE WriteEnergy
  <2>1. /\ energy' = [energy EXCEPT ![energyIx] = Programmed(energy[energyIx], energyWh)]
        /\ energyIx' = energyIx + 1 /\ energyIx \in 0 .. SlotCount - 1
        /\ may' = {energyWh} /\ writer' = "idle" /\ up
        /\ spoilt' = spoilt /\ stale' = stale
    BY <1>5 DEF WriteEnergy, TypeOK
  <2>2. Used(energy')
    <3>1. energy'[energyIx] # Erased
      BY <2>1 DEF TypeOK, Slot, Programmed, Erased, Torn
    <3> QED BY <2>1, <3>1 DEF Used, Slot
  <2>3. CASE Sound
    <3>1. Filled(energy, energyIx)
      BY <2>1, <2>3 DEF Safe, FilledInOrder
    <3>2. energy'[energyIx] = energyWh
      BY <2>1, <3>1 DEF TypeOK, Slot, Filled, Programmed
    <3>3. Filled(energy', energyIx + 1)
      BY <2>1, <3>1, <3>2 DEF TypeOK, Slot, Filled
    <3>4. Last(energy') = energyWh
      <4> DEFINE n == energyIx + 1
      <4>1. n \in 0 .. SlotCount /\ n # 0 /\ n - 1 = energyIx
        BY <2>1
      <4>2. Last(energy') = energy'[n - 1]
        BY <3>3, <4>1, FilledNext
      <4> QED BY <3>2, <4>1, <4>2
    <3> QED BY <2>1, <2>2, <3>3, <3>4 DEF Safe, FilledInOrder, NothingMayBeFound,
               NothingInWiped, RestartReadsSaved, Filled
  <2>4. CASE ~ Sound
    BY <2>1, <2>2, <2>4 DEF Safe, FilledInOrder, NothingMayBeFound,
       NothingInWiped, RestartReadsSaved, Sound
  <2> QED BY <2>3, <2>4
<1>6. CASE EndDay
  BY <1>6, SafeElsewhere DEF EndDay, flash, ram, aux
<1>7. CASE WriteCounters
  BY <1>7, SafeElsewhere DEF WriteCounters, ram, aux
<1>8. CASE WritePowers
  BY <1>8, SafeElsewhere DEF WritePowers
<1>9. CASE EraseNext
  BY <1>9, SafeElsewhere DEF EraseNext, ram, aux
<1>10. CASE Wipe
  BY <1>10, SafeElsewhere DEF Wipe, flash, ram
<1>11. CASE EraseHisto
  BY <1>11, SafeElsewhere DEF EraseHisto, ram, aux
<1>12. CASE ResetIx
  <2>1. /\ energy' = energy /\ up' = up /\ energyIx' = energyIx
        /\ spoilt' = spoilt /\ stale' = stale /\ may \subseteq may' /\ 0 \in may'
    BY <1>12 DEF ResetIx, flash
  <2> QED BY <2>1 DEF Safe, FilledInOrder, NothingMayBeFound, NothingInWiped,
                      RestartReadsSaved, Sound
<1>13. CASE WipeEnergy
  <2>1. /\ ~ Used(energy') /\ may' = {0} /\ writer' = "idle"
        /\ ~ stale' => energyIx' = 0
    BY <1>13 DEF WipeEnergy, Used, ram
  <2>2. Filled(energy', 0) /\ Last(energy') = 0
    BY <2>1, EmptyFilled
  <2> QED BY <2>1, <2>2 DEF Safe, FilledInOrder, NothingMayBeFound,
             NothingInWiped, RestartReadsSaved, Sound, Filled
<1>14. CASE (\E rank \in Rank : ReadRank(rank)) \/ ReadCheck \/ ReadRecord
  <2>1. UNCHANGED <<flash, ram, writer, aux>>
    BY <1>14 DEF ReadRank, ReadCheck, ReadRecord
  <2> QED BY <2>1, SafeElsewhere DEF flash, ram, aux
<1>15. CASE PowerFails
  <2>1. /\ HalfDone /\ up' = FALSE /\ writer' = "idle" /\ may' = may
        /\ spoilt' = (spoilt \/ Spoilt(energy'))
        /\ stale' = (stale /\ Used(energy'))
    BY <1>15 DEF PowerFails
  <2>2. CASE energy' = energy
    <3>1. CASE Sound
      <4>1. PICK n \in 0 .. SlotCount : Filled(energy, n)
        BY <3>1 DEF Safe, FilledInOrder
      <4>2. Last(energy) \in may'
        BY <2>1, <3>1 DEF Safe, RestartReadsSaved, Sound
      <4> QED BY <2>1, <2>2, <4>1, <4>2, SafeKept
    <3>2. CASE ~ Used(energy) /\ ~ Sound /\ ~ spoilt
      <4>1. Filled(energy, 0) /\ Last(energy) = 0 /\ 0 \in may'
        BY <2>1, <3>2, EmptyFilled DEF Safe, NothingInWiped, Sound
      <4> QED BY <2>1, <2>2, <4>1, SafeKept
    <3>3. CASE (Used(energy) \/ spoilt) /\ ~ Sound
      <4>1. ~ Sound' /\ ~ (stale' /\ ~ spoilt' /\ ~ Used(energy'))
        BY <2>1, <2>2, <3>3 DEF Sound
      <4> QED BY <2>1, <4>1 DEF Safe, FilledInOrder, NothingMayBeFound,
                 NothingInWiped, RestartReadsSaved, Sound
    <3> QED BY <3>1, <3>2, <3>3
  <2>3. CASE /\ writer \in {"eraseEnergy", "wipeEnergy"}
             /\ energy' \in [Slot -> {Erased, Dirty, Torn}]
    <3>1. 0 \in may'
      BY <2>1, <2>3 DEF Safe, NothingMayBeFound
    <3>2. CASE Spoilt(energy')
      BY <2>1, <3>2 DEF Safe, FilledInOrder, NothingMayBeFound, NothingInWiped,
                        RestartReadsSaved, Sound
    <3>3. CASE ~ Spoilt(energy')
      <4>1. ~ Used(energy')
        BY <2>3, <3>3 DEF Spoilt, Used
      <4>2. Filled(energy', 0) /\ Last(energy') = 0
        BY <4>1, EmptyFilled
      <4> QED BY <2>1, <3>1, <4>2 DEF Safe, FilledInOrder, NothingMayBeFound,
                 NothingInWiped, RestartReadsSaved, Sound, Filled
    <3> QED BY <3>2, <3>3
  <2>4. CASE /\ writer = "writeEnergy"
             /\ \E c \in {Dirty, Torn} : energy' = [energy EXCEPT ![energyIx] = c]
    <3>1. energyIx \in Slot
      BY <2>4 DEF TypeOK, Slot
    <3>2. Spoilt(energy')
      BY <2>4, <3>1 DEF Spoilt, TypeOK
    <3> QED BY <2>1, <3>2 DEF Safe, FilledInOrder, NothingMayBeFound, NothingInWiped,
                              RestartReadsSaved, Sound
  <2> QED BY <2>1, <2>2, <2>3, <2>4, LeftEnergy
<1>16. CASE Start
  <2>1. /\ energy' = energy /\ energyIx' = EnergyNext(energy) /\ writer' = "idle"
        /\ spoilt' = spoilt /\ stale' = stale
        /\ may' = IF spoilt THEN may ELSE {Last(energy)}
    BY <1>16 DEF Start, flash, TypeOK
  <2>2. CASE Sound
    <3>1. PICK n \in 0 .. SlotCount : Filled(energy, n)
      BY <2>2 DEF Safe, FilledInOrder
    <3>2. energyIx' = n /\ may' = {Last(energy)} /\ Last(energy) \in may
      BY <2>1, <2>2, <3>1, FilledNext DEF Sound, Safe, RestartReadsSaved
    <3>3. Used(energy') \/ 0 \in may'
      BY <2>1, <3>2, EmptyFilled
    <3> QED BY <2>1, <2>2, <3>1, <3>2, <3>3
            DEF Safe, FilledInOrder, NothingMayBeFound, NothingInWiped,
                RestartReadsSaved, Sound, Filled
  <2>3. CASE ~ Sound
    <3>1. ~ Used(energy') /\ ~ spoilt' => 0 \in may'
      BY <2>1, EmptyFilled
    <3> QED BY <2>1, <2>3, <3>1 DEF Safe, FilledInOrder, NothingMayBeFound,
               NothingInWiped, RestartReadsSaved, Sound
  <2> QED BY <2>2, <2>3
<1>17. CASE UNCHANGED vars
  BY <1>17, SafeElsewhere DEF vars, flash, ram, aux
<1> QED
  BY <1>1, <1>2, <1>3, <1>4, <1>5, <1>6, <1>7, <1>8, <1>9, <1>10, <1>11, <1>12,
     <1>13, <1>14, <1>15, <1>16, <1>17 DEF Next

(* At any time a restart finds the counters that were saved last, in       *)
(* the middle of a save also those being saved, or none if the sector was  *)
(* full (energyFindLast, cfgParameters.c:306): unless a slot was torn by a *)
(* power failure, or the sector was wiped by command.                      *)
THEOREM SavedIsRead == Spec => []RestartReadsSaved
<1>1. Safe => RestartReadsSaved
  BY DEF Safe
<1> QED BY <1>1, SafeInit, SafeNext, TypeCorrect, PTL DEF Spec

-----------------------------------------------------------------------------
(* The history.  The sectors other than the next one, h, by their age: the *)
(* record made last is of age 0.                                           *)
Age(h, i) == IF i < h THEN h - i - 1 ELSE h - i - 1 + HistoMax

(* On the days up to n one sector has been used at most, so what was       *)
(* recorded on the day d has the age n - d at most.                        *)
Aged(c, h, n) == \A i \in Sector \ {h} : c[i] > 0 => c[i] + Age(h, i) <= n

InOrder(c, h) ==
  \A i, j \in Sector \ {h} :
    Age(h, i) < Age(h, j) /\ c[i] > 0 /\ c[j] > 0 => c[i] > c[j]

(* The days D that are recent enough are there.                            *)
Present(c, p, D, h, n) ==
  \A d \in D : d > n - (HistoMax - 1) =>
    \E i \in Sector \ {h} : c[i] = d /\ p[i] = d

(* The sectors before h are used; those behind it are all used, or none.   *)
UsedUpTo(c, h) ==
  /\ \A i \in 0 .. h - 1 : ~ Virgin(c[i])
  /\ \/ \A i \in h + 1 .. HistoMax - 1 : c[i] = Erased
     \/ \A i \in h + 1 .. HistoMax - 1 : ~ Virgin(c[i])

Ring(c, p, D, h, n) == /\ Aged(c, h, n) /\ InOrder(c, h) /\ Present(c, p, D, h, n)
                       /\ UsedUpTo(c, h)

Blank(c, p, i) == c[i] = Erased /\ p[i] = Erased

(* The sector to write next, or that a start would find.                   *)
NextSector == IF up THEN histoIx ELSE HistoNext(counters)

(* The last day whose record is made, or given up.                         *)
Recorded == IF writer \in {"writeCounters", "writePowers"} THEN day - 1 ELSE day

RingInv ==
  /\ wiping \in Sector /\ done \subseteq 1 .. Recorded
  /\ writer \in {"writeCounters", "writePowers"} => day > 0
  /\ writer = "eraseHisto" =>
       done = {} /\ \A i \in 0 .. wiping - 1 : Blank(counters, powers, i)
  /\ writer = "resetIx" => done = {} /\ \A i \in Sector : Blank(counters, powers, i)
  /\ ~ broken /\ writer \notin {"eraseHisto", "resetIx"} =>
       LET h == NextSector
       IN  /\ Ring(counters, powers, done, h, Recorded)
           /\ writer = "writePowers" => counters[h] = day /\ powers[h] = Erased
           /\ writer \notin {"writePowers", "eraseNext"} => Blank(counters, powers, h)

(* histoCheckRank goes from the age to the sector.                         *)
LEMMA AgeIsRank ==
  ASSUME NEW h \in Sector
  PROVE  /\ \A i \in Sector \ {h} : Age(h, i) \in Rank /\ SectorOf(h, Age(h, i)) = i
         /\ \A r \in Rank : SectorOf(h, r) \in Sector \ {h} /\ Age(h, SectorOf(h, r)) = r
<1>1. ASSUME NEW i \in Sector \ {h}
      PROVE  Age(h, i) \in Rank /\ SectorOf(h, Age(h, i)) = i
  <2>1. CASE i < h
    BY <1>1, <2>1 DEF Age, SectorOf, Sector, Rank
  <2>2. CASE ~ (i < h)
    BY <1>1, <2>2 DEF Age, SectorOf, Sector, Rank
  <2> QED BY <2>1, <2>2
<1>2. ASSUME NEW r \in Rank
      PROVE  SectorOf(h, r) \in Sector \ {h} /\ Age(h, SectorOf(h, r)) = r
  <2>1. CASE h - r - 1 >= 0
    <3>1. SectorOf(h, r) = h - r - 1
      BY <2>1 DEF SectorOf, Sector, Rank
    <3> QED BY <2>1, <3>1 DEF Age, Sector, Rank
  <2>2. CASE h - r - 1 < 0
    <3>1. SectorOf(h, r) = h - r - 1 + HistoMax
      BY <2>2 DEF SectorOf, Sector, Rank
    <3> QED BY <2>2, <3>1 DEF Age, Sector, Rank
  <2> QED BY <2>1, <2>2 DEF Sector, Rank
<1> QED BY <1>1, <1>2

(* When the next sector moves on, all the others get older by one, and the *)
(* oldest is the next.                                                     *)
LEMMA Older ==
  ASSUME NEW h \in Sector
  PROVE  LET u == (h + 1) % HistoMax IN
         /\ u \in Sector \ {h} /\ u = IF h = HistoMax - 1 THEN 0 ELSE h + 1
         /\ Age(u, h) = 0 /\ Age(h, u) = HistoMax - 2
         /\ \A i \in Sector \ {h} : Age(h, i) \in Nat
         /\ \A i \in Sector \ {h, u} : Age(u, i) = Age(h, i) + 1
<1> DEFINE u == (h + 1) % HistoMax
<1>1. u = IF h = HistoMax - 1 THEN 0 ELSE h + 1
  BY DEF Sector
<1> HIDE DEF u
<1> QED BY <1>1 DEF Age, Sector, u

(* The sector h is used on the day n + 1.                                  *)
LEMMA RingMoves ==
  ASSUME NEW c \in [Sector -> Int], NEW e \in [Sector -> Int], NEW p, NEW q,
         NEW h \in Sector, NEW n \in Int, NEW D \in SUBSET (Nat \ {0}),
         Aged(c, h, n), InOrder(c, h), Present(c, p, D, h, n),
         \A i \in Sector \ {h} : e[i] = c[i] /\ q[i] = p[i],
         e[h] > 0 => e[h] = n + 1
  PROVE  LET u == (h + 1) % HistoMax IN
         Aged(e, u, n + 1) /\ InOrder(e, u) /\ Present(e, q, D, u, n + 1)
<1> DEFINE u == (h + 1) % HistoMax
<1>1. /\ u \in Sector \ {h}
      /\ Age(u, h) = 0 /\ Age(h, u) = HistoMax - 2
      /\ \A i \in Sector \ {h} : Age(h, i) \in Nat
      /\ \A i \in Sector \ {h, u} : Age(u, i) = Age(h, i) + 1
  BY Older
<1> HIDE DEF u
<1>2. Aged(e, u, n + 1)
  <2> SUFFICES ASSUME NEW i \in Sector \ {u}, e[i] > 0
               PROVE  e[i] + Age(u, i) <= n + 1
    BY DEF Aged
  <2>1. CASE i = h
    BY <1>1, <2>1
  <2>2. CASE i # h
    <3>1. c[i] + Age(h, i) <= n /\ e[i] = c[i] /\ Age(u, i) = Age(h, i) + 1
          /\ c[i] \in Int /\ Age(h, i) \in Nat
      BY <1>1, <2>2 DEF Aged
    <3> QED BY <3>1
  <2> QED BY <2>1, <2>2
<1>3. InOrder(e, u)
  <2> SUFFICES ASSUME NEW i \in Sector \ {u}, NEW j \in Sector \ {u},
                      Age(u, i) < Age(u, j), e[i] > 0, e[j] > 0
               PROVE  e[i] > e[j]
    BY DEF InOrder
  <2>1. j # h
    BY <1>1
  <2>2. /\ e[j] = c[j] /\ Age(u, j) = Age(h, j) + 1 /\ Age(h, j) \in Nat
        /\ c[j] \in Int /\ c[j] + Age(h, j) <= n
    BY <1>1, <2>1 DEF Aged
  <2>3. CASE i = h
    BY <2>2, <2>3
  <2>4. CASE i # h
    BY <1>1, <2>1, <2>2, <2>4 DEF InOrder
  <2> QED BY <2>3, <2>4
<1>4. Present(e, q, D, u, n + 1)
  <2> SUFFICES ASSUME NEW d \in D, d > n + 1 - (HistoMax - 1)
               PROVE  \E i \in Sector \ {u} : e[i] = d /\ q[i] = d
    BY DEF Present
  <2>1. d \in Nat /\ d > 0 /\ d > n - (HistoMax - 1)
    <3>1. d \in Nat \ {0}
      OBVIOUS
    <3> QED BY <3>1
  <2>2. PICK i \in Sector \ {h} : c[i] = d /\ p[i] = d
    BY <2>1 DEF Present
  <2>3. c[i] + Age(h, i) <= n /\ Age(h, i) \in Nat
    BY <1>1, <2>1, <2>2 DEF Aged
  <2>4. i # u
    BY <1>1, <2>1, <2>2, <2>3
  <2> QED BY <2>2, <2>4
<1> QED BY <1>2, <1>3, <1>4 DEF u

(* What is in the sector h does not matter, nor that days pass.            *)
LEMMA RingStays ==
  ASSUME NEW c \in [Sector -> Int], NEW e \in [Sector -> Int], NEW p, NEW q,
         NEW h \in Sector, NEW n \in Int, NEW u \in Int, n <= u,
         NEW D \in SUBSET Int, Ring(c, p, D, h, n),
         \A i \in Sector \ {h} : e[i] = c[i] /\ q[i] = p[i]
  PROVE  Ring(e, q, D, h, u)
<1>1. \A i \in Sector \ {h} : Age(h, i) \in Nat
  BY Older
<1>2. Aged(e, h, u)
  <2> SUFFICES ASSUME NEW i \in Sector \ {h}, e[i] > 0
               PROVE  e[i] + Age(h, i) <= u
    BY DEF Aged
  <2>1. c[i] + Age(h, i) <= n /\ e[i] = c[i] /\ c[i] \in Int /\ Age(h, i) \in Nat
    BY <1>1 DEF Ring, Aged
  <2> QED BY <2>1
<1>3. InOrder(e, h)
  BY DEF Ring, InOrder
<1>4. Present(e, q, D, h, u)
  <2> SUFFICES ASSUME NEW d \in D, d > u - (HistoMax - 1)
               PROVE  \E i \in Sector \ {h} : e[i] = d /\ q[i] = d
    BY DEF Present
  <2>1. d > n - (HistoMax - 1)
    OBVIOUS
  <2> QED BY <2>1 DEF Ring, Present
<1>5. UsedUpTo(e, h)
  BY DEF Ring, UsedUpTo, Sector
<1> QED BY <1>2, <1>3, <1>4, <1>5 DEF Ring

(* When the sector h is used, those before the next one are.               *)
LEMMA UsedMoves ==
  ASSUME NEW c, NEW e, NEW h \in Sector, UsedUpTo(c, h), ~ Virgin(e[h]),
         \A i \in Sector \ {h} : e[i] = c[i]
  PROVE  UsedUpTo(e, (h + 1) % HistoMax)
<1> DEFINE u == (h + 1) % HistoMax
<1>1. u = IF h = HistoMax - 1 THEN 0 ELSE h + 1
  BY Older
<1> HIDE DEF u
<1>2. \A i \in 0 .. h : ~ Virgin(e[i])
  BY DEF UsedUpTo, Sector
<1>3. CASE h = HistoMax - 1
  BY <1>1, <1>2, <1>3 DEF UsedUpTo, u
<1>4. CASE h # HistoMax - 1
  <2>1. u = h + 1
    BY <1>1, <1>4
  <2>2. UsedUpTo(e, h + 1)
    BY <1>2 DEF UsedUpTo, Sector
  <2> QED BY <2>1, <2>2 DEF u
<1> QED BY <1>3, <1>4

-----------------------------------------------------------------------------
(* The scan of the start ends at the first sector that reads as erased.    *)
LEMMA FirstIs ==
  ASSUME NEW c, NEW h \in Sector, Virgin(c[h]), \A i \in 0 .. h - 1 : ~ Virgin(c[i])
  PROVE  HistoNext(c) = h
<1>1. \A i \in 0 .. HistoMax - 1 :
        Virgin(c[i]) /\ (\A j \in 0 .. i - 1 : ~ Virgin(c[j])) => i = h
  BY DEF Sector
<1>2. FirstVirgin(c, HistoMax) = h
  BY <1>1 DEF FirstVirgin, Sector
<1> QED BY <1>2 DEF HistoNext, Sector

(* The sectors before the one found are used.                              *)
LEMMA BeforeNext ==
  ASSUME NEW c, NEW i \in 0 .. HistoNext(c) - 1
  PROVE  ~ Virgin(c[i])
<1> DEFINE V == {j \in 0 .. HistoMax - 1 : Virgin(c[j])}
<1>1. CASE V = {}
  BY <1>1 DEF HistoNext, FirstVirgin
<1>2. CASE V # {}
  <2>1. PICK j \in V : \A l \in V : j <= l
    <3>1. V \subseteq Nat
      OBVIOUS
    <3> QED BY <1>2, <3>1, LeastExists
  <2>2. \A l \in 0 .. j - 1 : ~ Virgin(c[l])
    BY <2>1
  <2>3. HistoNext(c) = j
    BY <2>1, <2>2, FirstIs DEF Sector
  <2> QED BY <2>2, <2>3
<1> QED BY <1>1, <1>2

(* With the sector h begun, the scan ends at the one after it, or where    *)
(* nothing is erased.                                                      *)
LEMMA NextBehind ==
  ASSUME NEW c, NEW e, NEW h \in Sector, UsedUpTo(c, h), ~ Virgin(e[h]),
         \A i \in Sector \ {h} : e[i] = c[i],
         e[HistoNext(e)] = Erased
  PROVE  HistoNext(e) = (h + 1) % HistoMax
<1> DEFINE j == HistoNext(e)
<1>1. j \in Sector /\ Virgin(e[j])
  BY HistoNextInRange DEF Virgin
<1>2. \A i \in 0 .. j - 1 : ~ Virgin(e[i])
  BY BeforeNext
<1> HIDE DEF j
<1>3. \A i \in 0 .. h : ~ Virgin(e[i])
  BY DEF UsedUpTo, Sector
<1>4. j > h
  BY <1>1, <1>3 DEF Sector
<1>5. ~ Virgin(c[j]) \/ \A i \in h + 1 .. HistoMax - 1 : c[i] = Erased
  BY <1>1, <1>4 DEF UsedUpTo, Sector
<1>6. e[j] = c[j]
  BY <1>1, <1>4 DEF Sector
<1>7. h + 1 \in Sector \ {h}
  BY <1>1, <1>4 DEF Sector
<1>8. c[h + 1] = Erased /\ e[h + 1] = c[h + 1]
  BY <1>1, <1>5, <1>6, <1>7 DEF Sector
<1>9. ~ (h + 1 < j)
  BY <1>1, <1>2, <1>7, <1>8 DEF Virgin, Sector
<1>10. j = h + 1
  BY <1>1, <1>4, <1>9 DEF Sector
<1>11. (h + 1) % HistoMax = h + 1
  BY <1>7, Older DEF Sector
<1> QED BY <1>10, <1>11 DEF j

(* An empty ring.                                                          *)
LEMMA BlankRing ==
  ASSUME NEW c, NEW p, NEW n, \A i \in Sector : Blank(c, p, i)
  PROVE  Ring(c, p, {}, 0, n) /\ HistoNext(c) = 0 /\ 0 \in Sector
<1>1. \A i \in Sector : c[i] = -1 /\ ~ (c[i] > 0) /\ Virgin(c[i])
  BY DEF Blank, Erased, Virgin
<1>2. 0 \in Sector
  BY DEF Sector
<1>3. HistoNext(c) = 0
  BY <1>1, <1>2, FirstIs
<1>4. UsedUpTo(c, 0)
  BY DEF UsedUpTo, Blank, Sector
<1>5. Aged(c, 0, n) /\ InOrder(c, 0) /\ Present(c, p, {}, 0, n)
  BY <1>1 DEF Aged, InOrder, Present
<1> QED BY <1>2, <1>3, <1>4, <1>5 DEF Ring

-----------------------------------------------------------------------------
(* The history is blank when the application starts.                       *)
LEMMA RingInit == Init => RingInv
<1> SUFFICES ASSUME Init PROVE RingInv
  OBVIOUS
<1>1. \A i \in Sector : Blank(counters, powers, i)
  BY DEF Init, Blank
<1>2. Ring(counters, powers, {}, 0, 0) /\ 0 \in Sector
  BY <1>1, BlankRing
<1> QED BY <1>1, <1>2 DEF Init, RingInv, NextSector, Recorded

(* The steps that leave the history alone.                                 *)
LEMMA RingElsewhere ==
  ASSUME RingInv,
         UNCHANGED <<counters, powers, up, histoIx, day, wiping, done, broken>>,
         \/ writer' = writer
         \/ {writer, writer'} \cap {"writeCounters", "writePowers", "eraseNext",
                                    "eraseHisto", "resetIx"} = {}
  PROVE  RingInv'
<1>0. NextSector' = NextSector
  BY DEF NextSector, HistoNext, FirstVirgin, Virgin, Erased, Dirty
<1>1. Recorded' = Recorded
  <2>1. \/ writer' = writer
        \/ /\ writer \notin {"writeCounters", "writePowers"}
           /\ writer' \notin {"writeCounters", "writePowers"}
    OBVIOUS
  <2> QED BY <2>1 DEF Recorded
<1>2. ASSUME NEW D, NEW h, NEW n
      PROVE  (Ring(counters, powers, D, h, n))' <=> Ring(counters, powers, D, h, n)
  BY DEF Ring, Aged, InOrder, Present, UsedUpTo
<1>3. ASSUME NEW i PROVE (Blank(counters, powers, i))' <=> Blank(counters, powers, i)
  BY DEF Blank
<1>4. CASE writer' = writer
  BY <1>0, <1>1, <1>2, <1>3, <1>4 DEF RingInv
<1>5. CASE {writer, writer'} \cap {"writeCounters", "writePowers", "eraseNext",
                                   "eraseHisto", "resetIx"} = {}
  <2>1. /\ writer \notin {"writeCounters", "writePowers", "eraseNext",
                          "eraseHisto", "resetIx"}
        /\ writer' \notin {"writeCounters", "writePowers", "eraseNext",
                           "eraseHisto", "resetIx"}
    BY <1>5
  <2> QED BY <1>0, <1>1, <1>2, <1>3, <2>1 DEF RingInv
<1> QED BY <1>4, <1>5

(* The counters of the day go to the erased sector.                        *)
LEMMA RingCounters == TypeOK /\ RingInv /\ WriteCounters => RingInv'
<1> SUFFICES ASSUME TypeOK, RingInv, WriteCounters PROVE RingInv'
  OBVIOUS
<1>1. /\ writer = "writeCounters" /\ writer' = "writePowers" /\ up
      /\ counters' = [counters EXCEPT ![histoIx] = Programmed(counters[histoIx], day)]
      /\ UNCHANGED <<powers, up, histoIx, day, wiping, done, broken>>
  BY DEF WriteCounters, ram, aux, histoAux
<1>2. Recorded' = Recorded /\ Recorded = day - 1 /\ NextSector' = histoIx
      /\ NextSector = histoIx /\ day > 0
  BY <1>1 DEF Recorded, NextSector, RingInv
<1>3. CASE broken
  BY <1>1, <1>2, <1>3 DEF RingInv
<1>4. CASE ~ broken
  <2>1. Ring(counters, powers, done, histoIx, day - 1) /\ Blank(counters, powers, histoIx)
    BY <1>1, <1>2, <1>4 DEF RingInv
  <2>2. /\ histoIx \in Sector /\ day \in Nat /\ done \in SUBSET Int
        /\ counters \in [Sector -> Int] /\ counters' \in [Sector -> Int]
    <3>1. done \subseteq 1 .. day - 1
      BY <1>2 DEF RingInv
    <3>2. counters \in [Sector -> Int]
      BY DEF TypeOK
    <3>3. Programmed(counters[histoIx], day) \in Int
      BY DEF Programmed, Torn, TypeOK
    <3> QED BY <1>1, <3>1, <3>2, <3>3 DEF TypeOK
  <2>3. \A i \in Sector \ {histoIx} : counters'[i] = counters[i] /\ powers'[i] = powers[i]
    BY <1>1, <2>2
  <2>4. Ring(counters', powers', done, histoIx, day - 1)
    BY <2>1, <2>2, <2>3, RingStays
  <2>5. counters'[histoIx] = day /\ powers'[histoIx] = Erased
    BY <1>1, <2>1, <2>2 DEF Blank, Programmed
  <2> QED BY <1>1, <1>2, <2>4, <2>5 DEF RingInv
<1> QED BY <1>3, <1>4

(* With its powers the record is whole, and the next sector is the oldest. *)
LEMMA RingPowers == TypeOK /\ RingInv /\ WritePowers => RingInv'
<1> SUFFICES ASSUME TypeOK, RingInv, WritePowers PROVE RingInv'
  OBVIOUS
<1> DEFINE u == (histoIx + 1) % HistoMax
<1>1. /\ writer = "writePowers" /\ writer' = "eraseNext" /\ up
      /\ powers' = [powers EXCEPT ![histoIx] = Programmed(powers[histoIx], day)]
      /\ histoIx' = u
      /\ done' = {d \in done : d + HistoMax > day + 1} \cup {day}
      /\ UNCHANGED <<counters, up, day, wiping, broken>>
  BY DEF WritePowers
<1>2. u \in Sector \ {histoIx}
  BY Older DEF TypeOK
<1> HIDE DEF u
<1>3. /\ Recorded' = day /\ Recorded = day - 1 /\ NextSector' = u
      /\ NextSector = histoIx /\ day > 0 /\ day \in Nat
  BY <1>1 DEF Recorded, NextSector, RingInv, TypeOK
<1>4. done \subseteq 1 .. day - 1
  BY <1>3 DEF RingInv
<1>5. done' \subseteq 1 .. day
  <2>1. done' \subseteq done \cup {day} /\ day \in 1 .. day
    BY <1>1, <1>3
  <2>2. 1 .. day - 1 \subseteq 1 .. day
    BY <1>3
  <2> QED BY <1>4, <2>1, <2>2
<1>6. CASE broken
  BY <1>1, <1>3, <1>5, <1>6 DEF RingInv
<1>7. CASE ~ broken
  <2>1. /\ Ring(counters, powers, done, histoIx, day - 1)
        /\ counters[histoIx] = day /\ powers[histoIx] = Erased
    BY <1>1, <1>3, <1>7 DEF RingInv
  <2>2. histoIx \in Sector /\ counters \in [Sector -> Int] /\ day - 1 \in Int
        /\ done \in SUBSET (Nat \ {0})
    BY <1>3, <1>4 DEF TypeOK
  <2>3. \A i \in Sector \ {histoIx} : counters[i] = counters[i] /\ powers'[i] = powers[i]
    BY <1>1, <2>2 DEF TypeOK
  <2>4. /\ Aged(counters, u, (day - 1) + 1) /\ InOrder(counters, u)
        /\ Present(counters, powers', done, u, (day - 1) + 1)
    BY <1>3, <2>1, <2>2, <2>3, RingMoves DEF Ring, u
  <2>5. (day - 1) + 1 = day
    BY <1>3
  <2>6. powers'[histoIx] = day
    BY <1>1, <2>1, <2>2 DEF TypeOK, Programmed
  <2>7. Present(counters, powers', done', u, day)
    BY <1>1, <1>2, <2>1, <2>2, <2>4, <2>5, <2>6 DEF Present
  <2>8. ~ Virgin(counters[histoIx])
    BY <1>3, <2>1 DEF Virgin, Erased, Dirty
  <2>9. UsedUpTo(counters, u)
    BY <2>1, <2>2, <2>8, UsedMoves DEF Ring, u
  <2>10. Ring(counters, powers', done', u, day)
    BY <2>4, <2>5, <2>7, <2>9 DEF Ring
  <2> QED BY <1>1, <1>3, <1>5, <2>10 DEF RingInv
<1> QED BY <1>6, <1>7

(* The next sector is erased: the day it had is too old by now.            *)
LEMMA RingErase == TypeOK /\ RingInv /\ EraseNext => RingInv'
<1> SUFFICES ASSUME TypeOK, RingInv, EraseNext PROVE RingInv'
  OBVIOUS
<1>1. /\ writer = "eraseNext" /\ writer' = "idle" /\ up
      /\ counters' = [counters EXCEPT ![histoIx] = Erased]
      /\ powers' = [powers EXCEPT ![histoIx] = Erased]
      /\ UNCHANGED <<up, histoIx, day, wiping, done, broken>>
  BY DEF EraseNext, ram, aux, histoAux
<1>2. Recorded' = day /\ Recorded = day /\ NextSector' = histoIx /\ NextSector = histoIx
  BY <1>1 DEF Recorded, NextSector
<1>3. CASE broken
  BY <1>1, <1>2, <1>3 DEF RingInv
<1>4. CASE ~ broken
  <2>1. Ring(counters, powers, done, histoIx, day)
    BY <1>1, <1>2, <1>4 DEF RingInv
  <2>2. /\ histoIx \in Sector /\ day \in Int /\ done \in SUBSET Int
        /\ counters \in [Sector -> Int] /\ counters' \in [Sector -> Int]
    <3>1. done \subseteq 1 .. day
      BY <1>2 DEF RingInv
    <3> QED BY <1>1, <3>1 DEF TypeOK, Erased
  <2>3. \A i \in Sector \ {histoIx} : counters'[i] = counters[i] /\ powers'[i] = powers[i]
    BY <1>1, <2>2 DEF TypeOK
  <2>4. Ring(counters', powers', done, histoIx, day)
    BY <2>1, <2>2, <2>3, RingStays
  <2>5. Blank(counters', powers', histoIx)
    BY <1>1, <2>2 DEF Blank, TypeOK
  <2> QED BY <1>1, <1>2, <2>4, <2>5 DEF RingInv
<1> QED BY <1>3, <1>4

(* The history is erased one sector after the other.                       *)
LEMMA RingWiped == TypeOK /\ RingInv /\ EraseHisto => RingInv'
<1> SUFFICES ASSUME TypeOK, RingInv, EraseHisto PROVE RingInv'
  OBVIOUS
<1>1. /\ writer = "eraseHisto" /\ done = {} /\ wiping \in Sector
      /\ \A i \in 0 .. wiping - 1 : Blank(counters, powers, i)
      /\ counters' = [counters EXCEPT ![wiping] = Erased]
      /\ powers' = [powers EXCEPT ![wiping] = Erased]
      /\ wiping' = IF wiping = HistoMax - 1 THEN 0 ELSE wiping + 1
      /\ writer' = IF wiping = HistoMax - 1 THEN "resetIx" ELSE "eraseHisto"
      /\ done' = done
  BY DEF EraseHisto, RingInv, aux, histoAux
<1>2. \A i \in 0 .. wiping : Blank(counters', powers', i)
  BY <1>1 DEF Blank, TypeOK, Sector
<1>3. wiping' \in Sector /\ done' \subseteq 1 .. Recorded'
  BY <1>1 DEF Sector
<1>4. CASE wiping = HistoMax - 1
  BY <1>1, <1>2, <1>3, <1>4 DEF RingInv, Sector
<1>5. CASE wiping # HistoMax - 1
  <2>1. writer' = "eraseHisto" /\ wiping' = wiping + 1
    BY <1>1, <1>5
  <2>2. \A i \in 0 .. wiping' - 1 : Blank(counters', powers', i)
    <3>1. wiping' - 1 = wiping
      BY <1>1, <2>1 DEF Sector
    <3> QED BY <1>2, <3>1
  <2> QED BY <1>1, <1>3, <2>1, <2>2 DEF RingInv
<1> QED BY <1>4, <1>5

(* With all the sectors blank, the first one is the next.                  *)
LEMMA RingReset == TypeOK /\ RingInv /\ ResetIx => RingInv'
<1> SUFFICES ASSUME TypeOK, RingInv, ResetIx PROVE RingInv'
  OBVIOUS
<1>1. /\ writer = "resetIx" /\ writer' = "wipeEnergy" /\ up /\ histoIx' = 0
      /\ done = {} /\ wiping \in Sector
      /\ \A i \in Sector : Blank(counters, powers, i)
      /\ UNCHANGED <<counters, powers, up, day, wiping, done>>
  BY DEF ResetIx, RingInv, flash
<1>2. Recorded' = day /\ NextSector' = 0
  BY <1>1 DEF Recorded, NextSector
<1>3. Ring(counters', powers', done', 0, day) /\ 0 \in Sector
  BY <1>1, BlankRing
<1>4. Blank(counters', powers', 0)
  BY <1>1, <1>3
<1> QED BY <1>1, <1>2, <1>3, <1>4 DEF RingInv

(* The next sector is also the one a start finds, if what was written did  *)
(* not get beyond it.                                                      *)
LEMMA FoundAgain ==
  ASSUME NEW c \in [Sector -> Int], NEW e \in [Sector -> Int], NEW p, NEW q,
         NEW h \in Sector, NEW n \in Int, NEW u \in Int, n <= u,
         NEW D \in SUBSET Int, Ring(c, p, D, h, n),
         \A i \in Sector \ {h} : e[i] = c[i] /\ q[i] = p[i], Virgin(e[h])
  PROVE  HistoNext(e) = h /\ Ring(e, q, D, h, u)
<1>1. Ring(e, q, D, h, u)
  <2>1. c \in [Sector -> Int] /\ e \in [Sector -> Int] /\ D \in SUBSET Int
    OBVIOUS
  <2>2. \A i \in Sector \ {h} : e[i] = c[i] /\ q[i] = p[i]
    OBVIOUS
  <2> QED BY <2>1, <2>2, RingStays
<1>2. HistoNext(e) = h
  BY <1>1, FirstIs DEF Ring, UsedUpTo
<1> QED BY <1>1, <1>2

(* If the sector next in turn was begun, a start that finds an erased one  *)
(* goes on with the sector after it.                                       *)
LEMMA FoundBehind ==
  ASSUME NEW c \in [Sector -> Int], NEW e \in [Sector -> Int], NEW p, NEW q,
         NEW h \in Sector, NEW n \in Int, NEW D \in SUBSET (Nat \ {0}),
         Ring(c, p, D, h, n), \A i \in Sector \ {h} : e[i] = c[i] /\ q[i] = p[i],
         ~ Virgin(e[h]), e[h] > 0 => e[h] = n + 1, e[HistoNext(e)] = Erased
  PROVE  Ring(e, q, D, HistoNext(e), n + 1)
<1>1. HistoNext(e) = (h + 1) % HistoMax
  BY NextBehind DEF Ring
<1>2. LET u == (h + 1) % HistoMax IN
      Aged(e, u, n + 1) /\ InOrder(e, u) /\ Present(e, q, D, u, n + 1)
  BY RingMoves DEF Ring
<1>3. UsedUpTo(e, (h + 1) % HistoMax)
  BY UsedMoves DEF Ring
<1> QED BY <1>1, <1>2, <1>3 DEF Ring

(* What a power failure leaves of the history.                             *)
LEMMA LeftHisto ==
  ASSUME TypeOK, HalfDone, up
  PROVE  /\ writer \notin {"writeCounters", "writePowers", "eraseNext", "eraseHisto"} =>
              UNCHANGED <<counters, powers>>
         /\ writer \in {"writeCounters", "writePowers", "eraseNext"} =>
              \A i \in Sector \ {histoIx} : counters'[i] = counters[i] /\ powers'[i] = powers[i]
         /\ writer = "writeCounters" =>
              /\ powers' = powers
              /\ counters'[histoIx] \in HalfProgrammed(counters[histoIx])
         /\ writer = "writePowers" => counters' = counters
<1>1. writer \notin {"writeCounters", "writePowers", "eraseNext", "eraseHisto"} =>
        UNCHANGED <<counters, powers>>
  BY DEF HalfDone, flash
<1>2. ASSUME writer = "writeCounters"
      PROVE  /\ \A i \in Sector \ {histoIx} : counters'[i] = counters[i]
             /\ powers' = powers
             /\ counters'[histoIx] \in HalfProgrammed(counters[histoIx])
  <2>1. PICK c \in HalfProgrammed(counters[histoIx]) :
          counters' = [counters EXCEPT ![histoIx] = c] /\ powers' = powers
    BY <1>2 DEF HalfDone
  <2> QED BY <2>1 DEF TypeOK
<1>3. ASSUME writer = "writePowers"
      PROVE  /\ \A i \in Sector \ {histoIx} : powers'[i] = powers[i]
             /\ counters' = counters
  <2>1. \E c : powers' = [powers EXCEPT ![histoIx] = c] /\ counters' = counters
    BY <1>3 DEF HalfDone
  <2> QED BY <2>1 DEF TypeOK
<1>4. ASSUME writer = "eraseNext"
      PROVE  \A i \in Sector \ {histoIx} :
               counters'[i] = counters[i] /\ powers'[i] = powers[i]
  <2>1. (\E c : counters' = [counters EXCEPT ![histoIx] = c])
        /\ (\E c : powers' = [powers EXCEPT ![histoIx] = c])
    BY <1>4 DEF HalfDone
  <2> QED BY <2>1 DEF TypeOK
<1> QED BY <1>1, <1>2, <1>3, <1>4

(* When a start will find an erased sector, it goes on with the same ring. *)
LEMMA RingFails == TypeOK /\ RingInv /\ PowerFails => RingInv'
<1> SUFFICES ASSUME TypeOK, RingInv, PowerFails PROVE RingInv'
  OBVIOUS
<1>1. /\ up /\ HalfDone /\ up' = FALSE /\ writer' = "idle" /\ wiping' = 0
      /\ UNCHANGED <<day, done>>
      /\ broken' <=> (broken \/ Broken(counters', powers'))
  BY DEF PowerFails
<1> DEFINE j == HistoNext(counters')
<1>2. Recorded' = day /\ NextSector' = j /\ NextSector = histoIx
  BY <1>1 DEF Recorded, NextSector
<1>3. /\ counters \in [Sector -> Int] /\ counters' \in [Sector -> Int]
      /\ histoIx \in Sector /\ day \in Nat /\ 0 \in Sector
  BY <1>1, LeftTyped DEF TypeOK, Sector
<1>4. /\ Recorded \in Int /\ Recorded <= day /\ done \subseteq 1 .. Recorded
      /\ done \in SUBSET Int /\ done \in SUBSET (Nat \ {0}) /\ done' \subseteq 1 .. day
  <2>1. Recorded \in Int /\ Recorded <= day /\ done \subseteq 1 .. Recorded
    BY <1>3 DEF Recorded, RingInv
  <2>2. 1 .. Recorded \subseteq 1 .. day
    BY <1>3, <2>1
  <2> QED BY <1>1, <2>1, <2>2
<1>5. SUFFICES ASSUME ~ broken'
               PROVE  Ring(counters', powers', done, j, day) /\ Blank(counters', powers', j)
  BY <1>1, <1>2, <1>3, <1>4 DEF RingInv
<1> HIDE DEF j
<1>6. ~ broken /\ ~ Broken(counters', powers')
  BY <1>1, <1>5
<1>7. CASE writer = "eraseHisto"
  BY <1>6, <1>7 DEF Broken
<1>8. CASE writer = "eraseNext"
  <2>1. Ring(counters, powers, done, histoIx, day) /\ Recorded = day
    BY <1>2, <1>6, <1>8 DEF RingInv, Recorded
  <2>2. Blank(counters', powers', histoIx)
    BY <1>6, <1>8 DEF Broken, Blank
  <2>3. \A i \in Sector \ {histoIx} : counters'[i] = counters[i] /\ powers'[i] = powers[i]
    BY <1>1, <1>8, LeftHisto
  <2>4. j = histoIx /\ Ring(counters', powers', done, histoIx, day)
    BY <1>3, <1>4, <2>1, <2>2, <2>3, FoundAgain DEF Blank, Virgin, j
  <2> QED BY <2>2, <2>4
<1>9. CASE writer \notin {"eraseHisto", "eraseNext"}
  <2>1. Blank(counters', powers', j)
    BY <1>6, <1>9 DEF Broken, Blank, j
  <2> SUFFICES Ring(counters', powers', done, j, day)
    BY <2>1
  <2>2. CASE writer = "resetIx"
    <3>1. done = {} /\ (\A i \in Sector : Blank(counters, powers, i))
          /\ counters' = counters /\ powers' = powers
      BY <1>1, <2>2, LeftHisto DEF RingInv
    <3> QED BY <3>1, BlankRing DEF j
  <2>3. CASE writer # "resetIx"
    <3>1. /\ Ring(counters, powers, done, histoIx, Recorded)
          /\ writer = "writePowers" => counters[histoIx] = day
          /\ writer # "writePowers" => Blank(counters, powers, histoIx)
      BY <1>2, <1>6, <1>9, <2>3 DEF RingInv
    <3>2. \A i \in Sector \ {histoIx} : counters'[i] = counters[i] /\ powers'[i] = powers[i]
      BY <1>1, <1>9, <2>3, LeftHisto
    <3>3. CASE Virgin(counters'[histoIx])
      BY <1>3, <1>4, <3>1, <3>2, <3>3, FoundAgain DEF j
    <3>4. CASE ~ Virgin(counters'[histoIx])
      <4>1. writer \in {"writeCounters", "writePowers"}
        BY <1>1, <1>9, <3>1, <3>4, LeftHisto DEF Blank, Virgin
      <4>2. Recorded = day - 1 /\ (day - 1) + 1 = day /\ day - 1 \in Int
        BY <1>3, <4>1 DEF Recorded
      <4>3. counters'[histoIx] > 0 => counters'[histoIx] = (day - 1) + 1
        <5>1. CASE writer = "writePowers"
          BY <1>1, <3>1, <4>2, <5>1, LeftHisto
        <5>2. CASE writer = "writeCounters"
          <6>1. counters'[histoIx] \in {Erased, Dirty, Torn}
            BY <1>1, <3>1, <5>2, LeftHisto DEF Blank, HalfProgrammed
          <6> QED BY <6>1 DEF Erased, Dirty, Torn
        <5> QED BY <4>1, <5>1, <5>2
      <4>4. counters'[HistoNext(counters')] = Erased
        BY <2>1 DEF Blank, j
      <4>5. Ring(counters', powers', done, HistoNext(counters'), (day - 1) + 1)
        BY <1>3, <1>4, <3>1, <3>2, <3>4, <4>2, <4>3, <4>4, FoundBehind
      <4> QED BY <4>2, <4>5 DEF j
    <3> QED BY <3>3, <3>4
  <2> QED BY <2>2, <2>3
<1> QED BY <1>7, <1>8, <1>9

(* Every step keeps the ring.                                              *)
LEMMA RingNext == TypeOK /\ RingInv /\ [Next]_vars => RingInv'
<1> SUFFICES ASSUME TypeOK, RingInv, [Next]_vars PROVE RingInv'
  OBVIOUS
<1>1. CASE Count
  BY <1>1, RingElsewhere DEF Count, Main, flash, aux, histoAux
<1>2. CASE ReadTotal
  BY <1>2, RingElsewhere DEF ReadTotal, Main, flash, histoAux
<1>3. CASE Save
  <2>1. writer = "idle" /\ writer' \in {"eraseEnergy", "writeEnergy"}
    BY <1>3 DEF Save, Main
  <2> QED BY <1>3, <2>1, RingElsewhere DEF Save, flash, ram, histoAux
<1>4. CASE EraseEnergy
  BY <1>4, RingElsewhere DEF EraseEnergy, histoAux
<1>5. CASE WriteEnergy
  BY <1>5, RingElsewhere DEF WriteEnergy, histoAux
<1>6. CASE EndDay
  <2>1. /\ up /\ writer = "idle" /\ writer' = "writeCounters" /\ day' = day + 1
        /\ UNCHANGED <<counters, powers, up, histoIx, wiping, done, broken>>
    BY <1>6 DEF EndDay, Main, flash, ram, aux, histoAux
  <2>2. /\ Recorded' = day /\ Recorded = day /\ day' > 0
        /\ NextSector' = histoIx /\ NextSector = histoIx
    BY <2>1 DEF Recorded, NextSector, TypeOK
  <2>3. ASSUME NEW D, NEW h, NEW n
        PROVE  (Ring(counters, powers, D, h, n))' <=> Ring(counters, powers, D, h, n)
    BY <2>1 DEF Ring, Aged, InOrder, Present, UsedUpTo
  <2>4. ASSUME NEW i PROVE (Blank(counters, powers, i))' <=> Blank(counters, powers, i)
    BY <2>1 DEF Blank
  <2> QED BY <2>1, <2>2, <2>3, <2>4 DEF RingInv
<1>7. CASE Wipe
  <2>1. /\ writer' = "eraseHisto" /\ wiping' = 0 /\ done' = {}
    BY <1>7 DEF Wipe
  <2>2. wiping' \in Sector
    BY <2>1 DEF Sector
  <2> QED BY <2>1, <2>2 DEF RingInv
<1>8. CASE WipeEnergy
  BY <1>8, RingElsewhere DEF WipeEnergy, ram, histoAux
<1>9. CASE (\E rank \in Rank : ReadRank(rank)) \/ ReadCheck \/ ReadRecord
  <2>1. UNCHANGED <<flash, ram, day, writer, wiping, aux>>
    BY <1>9 DEF ReadRank, ReadCheck, ReadRecord
  <2> QED BY <2>1, RingElsewhere DEF flash, ram, aux, histoAux
<1>10. CASE Start
  <2>1. /\ ~ up /\ up' /\ histoIx' = HistoNext(counters) /\ writer = "idle"
        /\ UNCHANGED <<counters, powers, day, writer, wiping, done, broken>>
    BY <1>10 DEF Start, flash, histoAux, TypeOK
  <2>2. NextSector' = NextSector /\ Recorded' = Recorded
    BY <2>1 DEF NextSector, Recorded
  <2>3. ASSUME NEW D, NEW h, NEW n
        PROVE  (Ring(counters, powers, D, h, n))' <=> Ring(counters, powers, D, h, n)
    BY <2>1 DEF Ring, Aged, InOrder, Present, UsedUpTo
  <2>4. ASSUME NEW i PROVE (Blank(counters, powers, i))' <=> Blank(counters, powers, i)
    BY <2>1 DEF Blank
  <2> QED BY <2>1, <2>2, <2>3, <2>4 DEF RingInv
<1>11. CASE UNCHANGED vars
  BY <1>11, RingElsewhere DEF vars, flash, ram, aux, histoAux
<1> QED
  BY <1>1, <1>2, <1>3, <1>4, <1>5, <1>6, <1>7, <1>8, <1>9, <1>10, <1>11,
     RingCounters, RingPowers, RingErase, RingWiped, RingReset, RingFails DEF Next

(* The days come in the order of their ranks, and the last HistoMax - 1    *)
(* are all there (histoCheckRank, cfgParameters.c:598), however often the  *)
(* power failed, unless a failure left no erased sector to go on with.     *)
THEOREM HistoryIsKept == Spec => []HistoryKept
<1>1. TypeOK /\ RingInv => HistoryKept
  <2> SUFFICES ASSUME TypeOK, RingInv, Main, ~ broken PROVE HistoryKept
    BY DEF HistoryKept
  <2>1. histoIx \in Sector /\ Ring(counters, powers, done, histoIx, day)
    BY DEF Main, RingInv, NextSector, Recorded, TypeOK
  <2>2. ASSUME NEW d \in done, d > day - (HistoMax - 1)
        PROVE  \E r \in Rank : counters[SectorOf(histoIx, r)] = d
                               /\ powers[SectorOf(histoIx, r)] = d
    <3>1. PICK i \in Sector \ {histoIx} : counters[i] = d /\ powers[i] = d
      BY <2>1, <2>2 DEF Ring, Present
    <3>2. Age(histoIx, i) \in Rank /\ SectorOf(histoIx, Age(histoIx, i)) = i
      BY <2>1, AgeIsRank
    <3> QED BY <3>1, <3>2
  <2>3. ASSUME NEW r \in Rank, NEW q \in Rank, r < q,
               counters[SectorOf(histoIx, r)] > 0, counters[SectorOf(histoIx, q)] > 0
        PROVE  counters[SectorOf(histoIx, r)] > counters[SectorOf(histoIx, q)]
    <3>1. /\ SectorOf(histoIx, r) \in Sector \ {histoIx}
          /\ SectorOf(histoIx, q) \in Sector \ {histoIx}
          /\ Age(histoIx, SectorOf(histoIx, r)) = r
          /\ Age(histoIx, SectorOf(histoIx, q)) = q
      BY <2>1, AgeIsRank
    <3> QED BY <2>1, <2>3, <3>1 DEF Ring, InOrder
  <2> QED BY <2>2, <2>3 DEF HistoryKept
<1>2. Spec => [](TypeOK /\ RingInv)
  <2>1. Init => TypeOK /\ RingInv
    BY TypeInit, RingInit
  <2>2. TypeOK /\ RingInv /\ [Next]_vars => (TypeOK /\ RingInv)'
    BY TypeNext, RingNext
  <2> QED BY <2>1, <2>2, PTL DEF Spec
<1> QED BY <1>1, <1>2, PTL

-----------------------------------------------------------------------------
(* The reader.  As long as the power has not failed, only the sector whose *)
(* powers are still to be written is not whole.                            *)
Whole(i) ==
  counters[i] = IF writer = "writePowers" /\ i = histoIx
                THEN Programmed(powers[i], day) ELSE powers[i]

PairInv ==
  /\ wiping \in Sector /\ crashes \in Nat
  /\ reader.at # "away" => reader.sector \in Sector
  /\ crashes = 0 => up /\ \A i \in Sector : Whole(i)

(* Every sector is blank when the application starts.                      *)
LEMMA PairInit == Init => PairInv
BY DEF Init, PairInv, Whole, Sector

(* The steps that leave the history alone keep the pairs.                  *)
LEMMA PairElsewhere ==
  ASSUME PairInv, UNCHANGED <<counters, powers, histoIx, day, crashes>>,
         wiping' \in Sector, reader'.at # "away" => reader'.sector \in Sector,
         crashes = 0 => up', writer' = "writePowers" <=> writer = "writePowers"
  PROVE  PairInv'
BY DEF PairInv, Whole, Programmed, Erased, Torn

(* Every step keeps the pairs.                                             *)
LEMMA PairNext == TypeOK /\ PairInv /\ [Next]_vars => PairInv'
<1> SUFFICES ASSUME TypeOK, PairInv, [Next]_vars PROVE PairInv'
  OBVIOUS
<1>0. 0 \in Sector
  BY DEF Sector
<1>1. CASE \/ Count \/ ReadTotal \/ Save \/ EraseEnergy \/ WriteEnergy
           \/ WipeEnergy \/ UNCHANGED vars
  <2>1. /\ UNCHANGED <<counters, powers, histoIx, day, crashes, up, wiping, reader>>
        /\ writer' = "writePowers" <=> writer = "writePowers"
    BY <1>1 DEF Count, ReadTotal, Save, EraseEnergy, WriteEnergy, WipeEnergy, Main,
                vars, flash, ram
  <2> QED BY <2>1, PairElsewhere DEF PairInv
<1>2. CASE Wipe
  BY <1>0, <1>2, PairElsewhere DEF Wipe, Main, flash, ram, PairInv
<1>3. CASE EndDay
  <2>1. /\ UNCHANGED <<counters, powers, up, histoIx, wiping, reader, crashes>>
        /\ writer = "idle" /\ writer' = "writeCounters"
    BY <1>3 DEF EndDay, Main, flash, ram
  <2> QED BY <2>1 DEF PairInv, Whole
<1>4. CASE WriteCounters
  <2>1. /\ counters' = [counters EXCEPT ![histoIx] = Programmed(counters[histoIx], day)]
        /\ writer = "writeCounters" /\ writer' = "writePowers"
        /\ UNCHANGED <<powers, up, histoIx, day, wiping, reader, crashes>>
    BY <1>4 DEF WriteCounters, ram
  <2>2. ASSUME NEW i \in Sector, counters[i] = powers[i]
        PROVE  counters'[i] = IF i = histoIx THEN Programmed(powers[i], day) ELSE powers[i]
    BY <2>1, <2>2 DEF TypeOK
  <2> QED BY <2>1, <2>2 DEF PairInv, Whole, Programmed, Torn, Erased
<1>5. CASE WritePowers
  <2>1. /\ powers' = [powers EXCEPT ![histoIx] = Programmed(powers[histoIx], day)]
        /\ writer = "writePowers" /\ writer' = "eraseNext"
        /\ UNCHANGED <<counters, up, day, wiping, reader, crashes>>
    BY <1>5 DEF WritePowers
  <2>2. ASSUME NEW i \in Sector, Whole(i)
        PROVE  counters[i] = powers'[i]
    BY <2>1, <2>2 DEF Whole, TypeOK
  <2> QED BY <2>1, <2>2 DEF PairInv, Whole
<1>6. CASE EraseNext
  <2>1. /\ counters' = [counters EXCEPT ![histoIx] = Erased]
        /\ powers' = [powers EXCEPT ![histoIx] = Erased]
        /\ writer = "eraseNext" /\ writer' = "idle"
        /\ UNCHANGED <<up, wiping, reader, crashes>>
    BY <1>6 DEF EraseNext, ram
  <2> QED BY <2>1 DEF PairInv, Whole, TypeOK
<1>7. CASE EraseHisto
  <2>1. /\ counters' = [counters EXCEPT ![wiping] = Erased]
        /\ powers' = [powers EXCEPT ![wiping] = Erased]
        /\ writer = "eraseHisto" /\ writer' # "writePowers" /\ wiping' \in Sector
        /\ UNCHANGED <<up, reader, crashes>>
    BY <1>7 DEF EraseHisto, ram, PairInv, Sector
  <2> QED BY <2>1 DEF PairInv, Whole, TypeOK
<1>8. CASE ResetIx
  <2>1. /\ UNCHANGED <<counters, powers, up, wiping, reader, crashes>>
        /\ writer = "resetIx" /\ writer' = "wipeEnergy"
    BY <1>8 DEF ResetIx, flash
  <2> QED BY <2>1 DEF PairInv, Whole
<1>9. CASE \E rank \in Rank : ReadRank(rank)
  <2>1. PICK rank \in Rank : ReadRank(rank)
    BY <1>9
  <2>2. SectorOf(histoIx, rank) \in Sector
    BY AgeIsRank DEF TypeOK
  <2>3. reader'.sector \in Sector /\ UNCHANGED <<flash, ram, day, writer, wiping, crashes>>
    BY <2>1, <2>2 DEF ReadRank
  <2> QED BY <2>3, PairElsewhere DEF PairInv, flash, ram
<1>10. CASE ReadCheck
  BY <1>0, <1>10, PairElsewhere DEF ReadCheck, PairInv, flash, ram
<1>11. CASE ReadRecord
  BY <1>0, <1>11, PairElsewhere DEF ReadRecord, PairInv, flash, ram
<1>12. CASE PowerFails
  <2>1. crashes' = crashes + 1 /\ wiping' = 0 /\ reader'.at = "away"
    BY <1>12 DEF PowerFails
  <2> QED BY <1>0, <2>1 DEF PairInv
<1>13. CASE Start
  <2>1. ~ up /\ UNCHANGED <<wiping, reader, crashes>>
    BY <1>13 DEF Start
  <2> QED BY <2>1 DEF PairInv
<1> QED
  BY <1>1, <1>2, <1>3, <1>4, <1>5, <1>6, <1>7, <1>8, <1>9, <1>10, <1>11, <1>12,
     <1>13 DEF Next

(* The reader lets the SPI semaphore go between the check of a sector and  *)
(* the read of it (histoRead, cfgParameters.c), and the main task may      *)
(* write there meanwhile: it gets the counters of a day with the powers of *)
(* that day all the same.                                                  *)
THEOREM RecordsAreWhole == Spec => NoHalfRecord
<1>1. TypeOK /\ PairInv /\ [Next]_vars =>
        [ReadRecord /\ crashes = 0 =>
           counters[reader.sector] = powers[reader.sector]]_vars
  <2> SUFFICES ASSUME PairInv, ReadRecord, crashes = 0
               PROVE  counters[reader.sector] = powers[reader.sector]
    OBVIOUS
  <2>1. reader.at = "read" /\ writer \in {"idle", "resetIx"}
    BY DEF ReadRecord, SpiFree
  <2> QED BY <2>1 DEF PairInv, Whole
<1>2. Init => TypeOK /\ PairInv
  BY TypeInit, PairInit
<1>3. TypeOK /\ PairInv /\ [Next]_vars => (TypeOK /\ PairInv)'
  BY TypeNext, PairNext
<1> QED BY <1>1, <1>2, <1>3, PTL DEF Spec, NoHalfRecord
=============================================================================
