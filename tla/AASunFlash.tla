----------------------------- MODULE AASunFlash -----------------------------
(***************************************************************************)
(* What AASun keeps in its flash (cfgParameters.c): the total energy       *)
(* counters, one slot of a sector after the other, and a ring of history   *)
(* sectors, one per day, of which the one after the last written is kept   *)
(* erased.  The main task writes; another task reads the history; the SPI  *)
(* semaphore keeps their operations on the chip apart.  The power may fail *)
(* at any time, in the middle of a write or of an erase too.               *)
(***************************************************************************)
EXTENDS Integers, FiniteSets

CONSTANTS
  SlotCount,   \* FLASH_ENERGY_SLOTCOUNT
  HistoMax,    \* HISTO_MAX, a power of 2: its & (HISTO_MAX - 1) is % here
  MaxWh,       \* bound: the energy counted
  MaxDay,      \* bound: the days recorded
  MaxCrash     \* bound: the power failures

ASSUME FlashAssumption ==
  /\ SlotCount \in Nat \ {0}
  /\ HistoMax \in Nat /\ HistoMax > 1
  /\ MaxWh \in Nat /\ MaxDay \in Nat /\ MaxCrash \in Nat

VARIABLES
  energy,      \* the energy sector: a Cell per slot
  counters,    \* the history sectors: the energy counters of a day,
  powers,      \*   and its powers, a Cell each
  up,          \* AASun runs
  energyWh,    \* the counters in RAM
  energyIx,    \* energyNextWriteIx
  histoIx,     \* histoNextWriteIx
  day,         \* the number of the last day whose record was begun
  writer,      \* the chip operation the main task is in, or "idle"
  wiping,      \* the sector histoErase has come to
  reader,      \* the reading task: where in histoRead, for which sector
  crashes,     \* the power failures so far
  (* What the properties remember; the actions never look at it.           *)
  may,         \* the counters that a start may find
  spoilt,      \* a slot of the energy sector is half written or half erased
  stale,       \* the sector was wiped and its slots are not used in order
  done,        \* the days recorded completely of late
  broken       \* a failure left no erased history sector to go on with

flash == <<energy, counters, powers>>
ram   == <<up, energyWh, energyIx, histoIx>>
energyAux == <<may, spoilt, stale>>
histoAux  == <<done, broken>>
aux   == <<energyAux, histoAux>>
vars  == <<flash, ram, day, writer, wiping, reader, crashes, aux>>

Slot   == 0 .. SlotCount - 1
Sector == 0 .. HistoMax - 1
Rank   == 0 .. HistoMax - 2

(* A slot or a part of a sector holds a record, named by a number, or:     *)
Erased == -1       \* all ones
Dirty  == -2       \* its first word reads as erased, the rest is not
Torn   == -3       \* its first word is written, the rest is not as it should be

Virgin(c) == c \in {Erased, Dirty}          \* data [0] == 0xFFFFFFFF

(* Programming a page clears bits: only an erased one takes a record.      *)
Programmed(c, r) == IF c = Erased THEN r ELSE Torn

(* What may be left when the power fails during a write, during an erase.  *)
HalfProgrammed(c) == IF c = Erased THEN {Erased, Dirty, Torn} ELSE {Torn}
HalfErased(c)     == {c, Erased, Dirty, Torn}

-----------------------------------------------------------------------------
(* What the reads of the start make of it                                  *)

FirstVirgin(area, n) ==
  IF \E i \in 0 .. n - 1 : Virgin(area[i])
  THEN CHOOSE i \in 0 .. n - 1 : /\ Virgin(area[i])
                                 /\ \A j \in 0 .. i - 1 : ~ Virgin(area[j])
  ELSE n

(* energyFindLast: the slot before the first virgin one is the last.       *)
EnergyNext(e) == FirstVirgin(e, SlotCount)
Last(e)       == IF EnergyNext(e) = 0 THEN 0 ELSE e[EnergyNext(e) - 1]

(* readTotalEnergyCounters: what a torn slot gives depends on whether its  *)
(* version word was written.                                               *)
Read(e) == IF Last(e) = Torn THEN 0 .. MaxWh ELSE {Last(e)}

(* histoInit: the first virgin sector, or the first one if there is none.  *)
HistoNext(c) == LET i == FirstVirgin(c, HistoMax) IN IF i = HistoMax THEN 0 ELSE i

(* histoCheckRank                                                          *)
SectorOf(ix, rank) == (ix - rank - 1) % HistoMax

Used(e) == \E i \in Slot : e[i] # Erased

Init ==
  /\ energy = [i \in Slot |-> Erased]
  /\ counters = [i \in Sector |-> Erased] /\ powers = [i \in Sector |-> Erased]
  /\ up = TRUE /\ energyWh = 0 /\ energyIx = 0 /\ histoIx = 0
  /\ day = 0 /\ writer = "idle" /\ wiping = 0
  /\ reader = [at |-> "away", sector |-> 0]
  /\ crashes = 0
  /\ may = {0} /\ spoilt = FALSE /\ stale = FALSE /\ done = {} /\ broken = FALSE

-----------------------------------------------------------------------------
(* The main task.  In an operation of the chip it holds the SPI semaphore, *)
(* but between the two halves of histoFlashErase.                          *)

Main    == up /\ writer = "idle"
SpiFree == up /\ writer \in {"idle", "resetIx"}

Count == /\ Main /\ energyWh < MaxWh
         /\ energyWh' = energyWh + 1
         /\ UNCHANGED <<flash, up, energyIx, histoIx, day, writer, wiping,
                        reader,
                        crashes, aux>>

(* The command that reads the counters again.                              *)
ReadTotal ==
  /\ Main
  /\ energyIx' = EnergyNext(energy)
  /\ energyWh' \in Read(energy)
  /\ stale' = (stale /\ Used(energy))
  /\ UNCHANGED <<flash, up, histoIx, day, writer, wiping, reader, crashes,
                 may, spoilt, histoAux>>

(* writeTotalEnergyCounters                                                *)
Save ==
  /\ Main
  /\ writer' = IF energyIx = SlotCount THEN "eraseEnergy" ELSE "writeEnergy"
  /\ may' = may \cup {energyWh} \cup (IF energyIx = SlotCount THEN {0} ELSE {})
  /\ UNCHANGED <<flash, ram, day, wiping, reader, crashes, spoilt, stale,
                 histoAux>>

(* Fault: the index stays at the end.                                      *)
EraseEnergyKeepsIx ==
  /\ up /\ writer = "eraseEnergy"
  /\ energy' = [i \in Slot |-> Erased]
  /\ writer' = "writeEnergy"
  /\ spoilt' = FALSE /\ stale' = FALSE
  /\ UNCHANGED <<counters, powers, ram, day, wiping, reader, crashes, may,
                 histoAux>>

EraseEnergy ==
  /\ up /\ writer = "eraseEnergy"
  /\ energy' = [i \in Slot |-> Erased]
  /\ energyIx' = 0
  /\ writer' = "writeEnergy"
  /\ spoilt' = FALSE /\ stale' = FALSE
  /\ UNCHANGED <<counters, powers, up, energyWh, histoIx, day, wiping, reader,
                 crashes, may, histoAux>>

(* Fault: the next slot is not counted.                                    *)
WriteEnergyInPlace ==
  /\ up /\ writer = "writeEnergy"
  /\ energy' = [energy EXCEPT ![energyIx] = Programmed(@, energyWh)]
  /\ writer' = "idle"
  /\ may' = {energyWh}
  /\ UNCHANGED <<counters, powers, ram, day, wiping, reader, crashes, spoilt,
                 stale, histoAux>>

WriteEnergy ==
  /\ up /\ writer = "writeEnergy"
  /\ energy' = [energy EXCEPT ![energyIx] = Programmed(@, energyWh)]
  /\ energyIx' = energyIx + 1
  /\ writer' = "idle"
  /\ may' = {energyWh}
  /\ UNCHANGED <<counters, powers, up, energyWh, histoIx, day, wiping, reader,
                 crashes, spoilt, stale, histoAux>>

(* histoWrite: the counters and the powers of the day, then the oldest     *)
(* sector is erased to be the next.                                        *)
EndDay ==
  /\ Main /\ day < MaxDay
  /\ day' = day + 1
  /\ writer' = "writeCounters"
  /\ UNCHANGED <<flash, ram, wiping, reader, crashes, aux>>

WriteCounters ==
  /\ up /\ writer = "writeCounters"
  /\ counters' = [counters EXCEPT ![histoIx] = Programmed(@, day)]
  /\ writer' = "writePowers"
  /\ UNCHANGED <<energy, powers, ram, day, wiping, reader, crashes, aux>>

WritePowers ==
  /\ up /\ writer = "writePowers"
  /\ powers' = [powers EXCEPT ![histoIx] = Programmed(@, day)]
  /\ histoIx' = (histoIx + 1) % HistoMax
  /\ writer' = "eraseNext"
  /\ done' = {d \in done : d + HistoMax > day + 1} \cup {day}
  /\ UNCHANGED <<energy, counters, up, energyWh, energyIx, day, wiping,
                 reader, crashes, energyAux, broken>>

(* Fault: not erased.                                                      *)
EraseNextNot ==
  /\ up /\ writer = "eraseNext"
  /\ writer' = "idle"
  /\ UNCHANGED <<flash, ram, day, wiping, reader, crashes, aux>>

EraseNext ==
  /\ up /\ writer = "eraseNext"
  /\ counters' = [counters EXCEPT ![histoIx] = Erased]
  /\ powers'   = [powers EXCEPT ![histoIx] = Erased]
  /\ writer' = "idle"
  /\ UNCHANGED <<energy, ram, day, wiping, reader, crashes, aux>>

(* histoFlashErase: the history sectors, the index, the energy sector.     *)
Wipe ==
  /\ Main
  /\ writer' = "eraseHisto" /\ wiping' = 0
  /\ done' = {}
  /\ UNCHANGED <<flash, ram, day, reader, crashes, energyAux, broken>>

EraseHisto ==
  /\ up /\ writer = "eraseHisto"
  /\ counters' = [counters EXCEPT ![wiping] = Erased]
  /\ powers'   = [powers EXCEPT ![wiping] = Erased]
  /\ wiping' = IF wiping = HistoMax - 1 THEN 0 ELSE wiping + 1
  /\ writer' = IF wiping = HistoMax - 1 THEN "resetIx" ELSE "eraseHisto"
  /\ UNCHANGED <<energy, ram, day, reader, crashes, aux>>

ResetIx ==
  /\ up /\ writer = "resetIx"
  /\ histoIx' = 0
  /\ writer' = "wipeEnergy"
  /\ may' = may \cup {0} /\ broken' = FALSE
  /\ UNCHANGED <<flash, up, energyWh, energyIx, day, wiping, reader, crashes,
                 spoilt, stale, done>>

WipeEnergy ==
  /\ up /\ writer = "wipeEnergy"
  /\ energy' = [i \in Slot |-> Erased]
  /\ writer' = "idle"
  /\ may' = {0} /\ spoilt' = FALSE /\ stale' = (energyIx # 0)
  /\ UNCHANGED <<counters, powers, ram, day, wiping, reader, crashes, histoAux>>

-----------------------------------------------------------------------------
(* The reading task: histoRead and histoPowerRead.  The index is read      *)
(* before the semaphore is taken; the check and the read take it each.     *)

ReadRank(rank) ==
  /\ up /\ reader.at = "away"
  /\ reader' = [at |-> "check", sector |-> SectorOf(histoIx, rank)]
  /\ UNCHANGED <<flash, ram, day, writer, wiping, crashes, aux>>

ReadCheck ==
  /\ SpiFree /\ reader.at = "check"
  /\ reader' = IF Virgin(counters[reader.sector])
               THEN [at |-> "away", sector |-> 0]
               ELSE [at |-> "read", sector |-> reader.sector]
  /\ UNCHANGED <<flash, ram, day, writer, wiping, crashes, aux>>

(* Fault: the semaphore is not taken.                                      *)
ReadRecordAnytime ==
  /\ up /\ reader.at = "read"
  /\ reader' = [at |-> "away", sector |-> 0]
  /\ UNCHANGED <<flash, ram, day, writer, wiping, crashes, aux>>

ReadRecord ==
  /\ SpiFree /\ reader.at = "read"
  /\ reader' = [at |-> "away", sector |-> 0]
  /\ UNCHANGED <<flash, ram, day, writer, wiping, crashes, aux>>

-----------------------------------------------------------------------------
(* Power failure: the operation in hand may be left half done.             *)

HalfDone ==
  \/ /\ writer \in {"eraseEnergy", "wipeEnergy"}
     /\ energy' \in [Slot -> {Erased, Dirty, Torn}] \cup {energy}
     /\ UNCHANGED <<counters, powers>>
  \/ /\ writer = "writeEnergy"
     /\ \E c \in HalfProgrammed(energy[energyIx]) :
          energy' = [energy EXCEPT ![energyIx] = c]
     /\ UNCHANGED <<counters, powers>>
  \/ /\ writer = "writeCounters"
     /\ \E c \in HalfProgrammed(counters[histoIx]) :
          counters' = [counters EXCEPT ![histoIx] = c]
     /\ UNCHANGED <<energy, powers>>
  \/ /\ writer = "writePowers"
     /\ \E c \in HalfProgrammed(powers[histoIx]) :
          powers' = [powers EXCEPT ![histoIx] = c]
     /\ UNCHANGED <<energy, counters>>
  \/ /\ writer \in {"eraseNext", "eraseHisto"}
     /\ LET i == IF writer = "eraseNext" THEN histoIx ELSE wiping
        IN  /\ \E c \in HalfErased(counters[i]) : counters' = [counters EXCEPT ![i] = c]
            /\ \E c \in HalfErased(powers[i])   : powers'   = [powers EXCEPT ![i] = c]
     /\ UNCHANGED energy
  \/ writer \in {"idle", "resetIx"} /\ UNCHANGED flash

(* A slot that was half written or half erased; a ring whose next sector   *)
(* is not erased, or that was being erased.                                *)
Spoilt(e) == \E i \in Slot : e[i] \in {Dirty, Torn}
Broken(c, p) ==
  LET i == IF writer = "eraseNext" THEN histoIx ELSE HistoNext(c)
  IN  writer = "eraseHisto" \/ c[i] # Erased \/ p[i] # Erased

PowerFails ==
  /\ up /\ crashes < MaxCrash
  /\ HalfDone
  /\ spoilt' = (spoilt \/ Spoilt(energy'))
  /\ stale'  = (stale /\ Used(energy'))
  /\ broken' = (broken \/ Broken(counters', powers'))
  /\ up' = FALSE /\ crashes' = crashes + 1
  /\ writer' = "idle" /\ wiping' = 0
  /\ reader' = [at |-> "away", sector |-> 0]
  /\ energyWh' = 0 /\ energyIx' = 0 /\ histoIx' = 0
  /\ UNCHANGED <<day, may, done>>

(* AASun: the reads of the start.                                          *)
Start ==
  /\ ~ up /\ up' = TRUE
  /\ energyIx' = EnergyNext(energy)
  /\ energyWh' \in Read(energy)
  /\ histoIx' = HistoNext(counters)
  /\ may' = IF spoilt THEN may ELSE {Last(energy)}
  /\ UNCHANGED <<flash, day, writer, wiping, reader, crashes, spoilt, stale,
                 histoAux>>

Next ==
  \/ Count \/ ReadTotal \/ Save \/ EraseEnergy \/ WriteEnergy
  \/ EndDay \/ WriteCounters \/ WritePowers \/ EraseNext
  \/ Wipe \/ EraseHisto \/ ResetIx \/ WipeEnergy
  \/ \E rank \in Rank : ReadRank(rank)
  \/ ReadCheck \/ ReadRecord
  \/ PowerFails \/ Start

Spec == Init /\ [][Next]_vars

-----------------------------------------------------------------------------
TypeOK ==
  /\ energy \in [Slot -> -3 .. MaxWh]
  /\ counters \in [Sector -> -3 .. MaxDay] /\ powers \in [Sector -> -3 .. MaxDay]
  /\ energyWh \in 0 .. MaxWh /\ energyIx \in 0 .. SlotCount /\ histoIx \in Sector
  /\ day \in 0 .. MaxDay
  /\ writer = "writeEnergy" => energyIx < SlotCount
  /\ ~ up => writer = "idle"

(* At any time, a restart finds the counters that were saved last; in the  *)
(* middle of a save also the ones being saved, or none if the sector is    *)
(* full.                                                                   *)
RestartReadsSaved ==
  ~ spoilt /\ ~ stale => Last(energy) \in may

(* The last HistoMax - 1 days are all there, a day at the rank below that  *)
(* of the day after, as long as each start found an erased sector.         *)
HistoryKept ==
  Main /\ ~ broken =>
    /\ \A d \in done : d > day - (HistoMax - 1) =>
         \E r \in Rank : LET i == SectorOf(histoIx, r)
                         IN  counters[i] = d /\ powers[i] = d
    /\ \A r, q \in Rank :
         LET i == SectorOf(histoIx, r)
             j == SectorOf(histoIx, q)
         IN  r < q /\ counters[i] > 0 /\ counters[j] > 0 => counters[i] > counters[j]

(* The reader, who lets the semaphore go between check and read, never     *)
(* gets the counters of a day with the powers of another, or with none.    *)
NoHalfRecord ==
  [][ReadRecord /\ crashes = 0 =>
       counters[reader.sector] = powers[reader.sector]]_vars
=============================================================================
