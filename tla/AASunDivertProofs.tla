------------------------- MODULE AASunDivertProofs -------------------------
(***************************************************************************)
(* Proofs about AASunDivert.                                               *)
(***************************************************************************)
EXTENDS AASunDivertInv, TLAPS

-----------------------------------------------------------------------------
(***************************************************************************)
(* What the operations on one forcing keep: its rule, whether it is valid, *)
(* and the result of its start rule.                                       *)
(***************************************************************************)

Same(F, G) == /\ G \in ForceRule /\ G.rule = F.rule
              /\ Is(G, "VALID") <=> Is(F, "VALID")
              /\ Is(G, "START_RULE") <=> Is(F, "START_RULE")

LEMMA DecrType == ASSUME NEW n \in Counter PROVE Decr(n) \in Counter
  BY DivertAssumption, SMT DEF Decr, Counter

LEMMA AutoStates == \A a \in {"IDLE", "MIN_ON", "ON", "MIN_OFF", "OFF"} : a \in AutoState
  BY DEF AutoState

LEMMA FreshType == ASSUME NEW r \in Rule PROVE Fresh(r) \in ForceRule /\ Fresh(r).rule = r
  BY DivertAssumption, AutoStates, SMT DEF Fresh, ForceRule, Counter, Status

LEMMA StoredType == /\ Rules \subseteq Rule /\ NoRule \in Rule
                    /\ \A f \in Forcing : Stored[f] \in Rule
<1>1. 0 \in Channel /\ 0 \in Counter /\ 0 \in 0 .. Period
  BY DivertAssumption, SMT DEF Channel, Counter
<1>2. NoRule \in Rule BY <1>1, SMT DEF Rule, NoRule
<1> QED BY <1>2, DivertAssumption

(* A change of one field.                                                  *)
LEMMA PutStatus ==
  ASSUME NEW F \in ForceRule, NEW s \in SUBSET Status
  PROVE  LET G == [F EXCEPT !.status = s]
         IN G \in ForceRule /\ G.rule = F.rule /\ G.status = s
  BY SMT DEF ForceRule

LEMMA PutAutoState ==
  ASSUME NEW F \in ForceRule, NEW a \in AutoState
  PROVE  LET G == [F EXCEPT !.autoState = a]
         IN G \in ForceRule /\ G.rule = F.rule /\ G.status = F.status
  BY SMT DEF ForceRule

LEMMA PutDelayCount ==
  ASSUME NEW F \in ForceRule, NEW d \in Counter
  PROVE  LET G == [F EXCEPT !.delayCount = d]
         IN G \in ForceRule /\ G.rule = F.rule /\ G.status = F.status
  BY SMT DEF ForceRule

LEMMA PutCounter ==
  ASSUME NEW F \in ForceRule, NEW n \in Counter
  PROVE  LET G == [F EXCEPT !.counter = n]
         IN G \in ForceRule /\ G.rule = F.rule /\ G.status = F.status
  BY SMT DEF ForceRule

LEMMA PutKfCounter ==
  ASSUME NEW F \in ForceRule, NEW n \in Counter
  PROVE  LET G == [F EXCEPT !.kfCounter = n]
         IN G \in ForceRule /\ G.rule = F.rule /\ G.status = F.status
  BY SMT DEF ForceRule

(* The automaton enters a state.                                           *)
AutoPut(F, a, n, m) == [F EXCEPT !.autoState = a, !.counter = n, !.kfCounter = m]
LEMMA PutAuto ==
  ASSUME NEW F \in ForceRule, NEW a \in AutoState, NEW n \in Counter, NEW m \in Counter
  PROVE  LET G == AutoPut(F, a, n, m)
         IN G \in ForceRule /\ G.rule = F.rule /\ G.status = F.status
<1> DEFINE A == [F EXCEPT !.autoState = a]
           B == [A EXCEPT !.counter = n]
<1>1. AutoPut(F, a, n, m) = [B EXCEPT !.kfCounter = m] BY Zenon DEF AutoPut
<1>2. A \in ForceRule /\ A.rule = F.rule /\ A.status = F.status BY PutAutoState
<1> HIDE DEF A
<1>3. B \in ForceRule /\ B.rule = F.rule /\ B.status = F.status BY <1>2, PutCounter
<1> HIDE DEF B
<1>4. LET H == [B EXCEPT !.kfCounter = m]
      IN H \in ForceRule /\ H.rule = B.rule /\ H.status = B.status
  BY <1>3, PutKfCounter
<1> QED BY <1>1, <1>3, <1>4, Zenon

LEMMA StoppedSame == ASSUME NEW F \in ForceRule
                     PROVE  Same(F, Stopped(F)) /\ ~ Is(Stopped(F), "RUNNING")
<1>1. F.status \in SUBSET Status BY SMT DEF ForceRule
<1>2. CASE ~ Is(F, "RUNNING") BY <1>2 DEF Stopped, Same
<1>3. CASE Is(F, "RUNNING") /\ IsAuto(F)
  <2> DEFINE A == [F EXCEPT !.autoState = "IDLE"]
             s == F.status \ {"RUNNING"}
  <2>1. A \in ForceRule /\ A.rule = F.rule /\ A.status = F.status BY AutoStates, PutAutoState
  <2>2. s \in SUBSET Status BY <1>1
  <2>3. Stopped(F) = [A EXCEPT !.status = s] BY <1>3, Zenon DEF Stopped
  <2>4. /\ "RUNNING" \notin s
        /\ \A x \in {"VALID", "START_RULE"} : x \in s <=> x \in F.status
    BY SMT
  <2> HIDE DEF A, s
  <2> QED BY <2>1, <2>2, <2>3, <2>4, PutStatus DEF Same, Is
<1>4. CASE Is(F, "RUNNING") /\ ~ IsAuto(F)
  <2> DEFINE s == (F.status \ {"RUNNING"}) \cup
                  (IF F.rule.limit = "dmax" THEN {"DMAX_WAITING"} ELSE {})
  <2>1. s \in SUBSET Status BY <1>1, SMT DEF Status
  <2>2. Stopped(F) = [F EXCEPT !.status = s] BY <1>4, Zenon DEF Stopped
  <2>3. /\ "RUNNING" \notin s
        /\ \A x \in {"VALID", "START_RULE"} : x \in s <=> x \in F.status
    BY SMT
  <2> HIDE DEF s
  <2> QED BY <2>1, <2>2, <2>3, PutStatus DEF Same, Is
<1> QED BY <1>2, <1>3, <1>4

LEMMA ToldSame == ASSUME NEW F \in ForceRule, NEW G \in ForceRule
                  PROVE  Same(G, Told(F, G)) /\ (Is(Told(F, G), "RUNNING") <=> Is(G, "RUNNING"))
<1> DEFINE s == (G.status \cup {"STOP_RULE"}) \ (IF Served(F) THEN {"MANUAL_ORDER"} ELSE {})
<1>1. G.status \in SUBSET Status BY SMT DEF ForceRule
<1>2. s \in SUBSET Status BY <1>1, SMT DEF Status
<1>3. Told(F, G) = [G EXCEPT !.status = s] BY Zenon DEF Told
<1>4. \A x \in {"VALID", "START_RULE", "RUNNING"} : x \in s <=> x \in G.status BY SMT
<1> HIDE DEF s
<1> QED BY <1>2, <1>3, <1>4, PutStatus DEF Same, Is

LEMMA SecondSame == ASSUME NEW F \in ForceRule
                    PROVE  Same(F, Second(F)) /\ (Is(Second(F), "RUNNING") <=> Is(F, "RUNNING"))
<1>1. CASE ~ Is(F, "VALID") BY <1>1 DEF Second, Same
<1>2. CASE Is(F, "VALID")
  <2> DEFINE d == IF Counting(F) THEN F.delayCount - 1 ELSE F.delayCount
             n == IF ~ Bursts(F) THEN F.counter
                  ELSE IF F.counter # 1 THEN Decr(F.counter)
                  ELSE IF PhaseEnds(F) /\ Is(F, "BURST_ON") THEN Period - F.rule.ratio
                  ELSE F.rule.ratio
             s == IF ~ PhaseEnds(F) THEN F.status
                  ELSE IF Is(F, "BURST_ON") THEN F.status \ {"BURST_ON"}
                       ELSE F.status \cup {"BURST_ON"}
             A == [F EXCEPT !.delayCount = d]
             B == [A EXCEPT !.counter = n]
  <2>1. /\ F.counter \in Counter /\ F.delayCount \in Counter /\ F.status \in SUBSET Status
        /\ F.rule \in Rule
    BY SMT DEF ForceRule
  <2>2. F.rule.ratio \in 0 .. Period BY <2>1, SMT DEF Rule
  <2>3. d \in Counter BY <2>1, DivertAssumption, SMT DEF Counting, Counter
  <2>4. Decr(F.counter) \in Counter BY <2>1, DecrType
  <2>5. n \in Counter BY <2>1, <2>2, <2>4, DivertAssumption, SMT DEF Counter
  <2>6. s \in SUBSET Status BY <2>1, SMT DEF Status
  <2>7. \A x \in {"VALID", "RUNNING", "START_RULE"} : x \in s <=> x \in F.status BY SMT
  <2>8. Second(F) = [B EXCEPT !.status = s] BY <1>2, Zenon DEF Second
  <2> HIDE DEF d, n, s
  <2>9. A \in ForceRule /\ A.rule = F.rule BY <2>3, PutDelayCount
  <2> HIDE DEF A
  <2>10. B \in ForceRule /\ B.rule = F.rule BY <2>5, <2>9, PutCounter
  <2> HIDE DEF B
  <2> QED BY <2>6, <2>7, <2>8, <2>10, PutStatus DEF Same, Is
<1> QED BY <1>1, <1>2

LEMMA AutoStartedSame ==
  ASSUME NEW F \in ForceRule
  PROVE  LET G == AutoStarted(F)
         IN G \in ForceRule /\ G.rule = F.rule /\ G.status = F.status
<1>1. F.rule \in Rule BY SMT DEF ForceRule
<1>2. F.rule.autoOn \in Counter /\ F.rule.autoKf \in Counter BY <1>1, SMT DEF Rule
<1>3. CASE F.autoState # "IDLE" BY <1>3 DEF AutoStarted
<1>4. CASE F.autoState = "IDLE" /\ Is(F, "START_RULE")
  <2>1. AutoStarted(F) = AutoPut(F, "MIN_ON", F.rule.autoOn, F.rule.autoKf)
    BY <1>4, Zenon DEF AutoStarted, AutoPut
  <2>2. "MIN_ON" \in AutoState BY AutoStates
  <2>3. LET G == AutoPut(F, "MIN_ON", F.rule.autoOn, F.rule.autoKf)
        IN G \in ForceRule /\ G.rule = F.rule /\ G.status = F.status
    BY <1>2, <2>2, PutAuto
  <2> QED BY <2>1, <2>3, Zenon
<1>5. CASE F.autoState = "IDLE" /\ ~ Is(F, "START_RULE")
  <2> DEFINE A == [F EXCEPT !.autoState = "OFF"]
  <2>1. A \in ForceRule /\ A.rule = F.rule /\ A.status = F.status BY AutoStates, PutAutoState
  <2>2. AutoStarted(F) = [A EXCEPT !.kfCounter = F.rule.autoKf] BY <1>5, Zenon DEF AutoStarted
  <2> HIDE DEF A
  <2> QED BY <1>2, <2>1, <2>2, PutKfCounter
<1> QED BY <1>3, <1>4, <1>5

LEMMA StdStartedSame ==
  ASSUME NEW F \in ForceRule
  PROVE  LET G == StdStarted(F)
         IN /\ G \in ForceRule /\ G.rule = F.rule
            /\ \A x \in {"VALID", "START_RULE"} : x \in G.status <=> x \in F.status
<1> DEFINE n == IF F.rule.burst THEN F.rule.ratio ELSE F.counter
           s == IF F.rule.burst THEN F.status \cup {"BURST_ON"} ELSE F.status
           A == [F EXCEPT !.delayCount = F.rule.delay]
           B == [A EXCEPT !.counter = n]
<1>1. F.rule \in Rule /\ F.counter \in Counter /\ F.status \in SUBSET Status
  BY SMT DEF ForceRule
<1>2. F.rule.delay \in Counter /\ F.rule.ratio \in 0 .. Period BY <1>1, SMT DEF Rule
<1>3. n \in Counter BY <1>1, <1>2, DivertAssumption, SMT DEF Counter
<1>4. s \in SUBSET Status BY <1>1, SMT DEF Status
<1>5. \A x \in {"VALID", "START_RULE"} : x \in s <=> x \in F.status BY SMT
<1>6. StdStarted(F) = [B EXCEPT !.status = s] BY Zenon DEF StdStarted
<1> HIDE DEF n, s
<1>7. A \in ForceRule /\ A.rule = F.rule BY <1>2, PutDelayCount
<1> HIDE DEF A
<1>8. B \in ForceRule /\ B.rule = F.rule BY <1>3, <1>7, PutCounter
<1> HIDE DEF B
<1> QED BY <1>4, <1>5, <1>6, <1>8, PutStatus

LEMMA StartedSame == ASSUME NEW F \in ForceRule
                     PROVE  Same(F, Started(F)) /\ Is(Started(F), "RUNNING")
<1>1. CASE Is(F, "RUNNING") BY <1>1 DEF Started, Same
<1>2. CASE ~ Is(F, "RUNNING")
  <2> DEFINE G == IF IsAuto(F) THEN AutoStarted(F) ELSE StdStarted(F)
             s == G.status \cup {"RUNNING"}
  <2>1. /\ G \in ForceRule /\ G.rule = F.rule
        /\ \A x \in {"VALID", "START_RULE"} : x \in G.status <=> x \in F.status
    BY AutoStartedSame, StdStartedSame
  <2>2. Started(F) = [G EXCEPT !.status = s] BY <1>2, Zenon DEF Started
  <2> HIDE DEF G
  <2>3. G.status \in SUBSET Status BY <2>1, SMT DEF ForceRule
  <2>4. s \in SUBSET Status /\ "RUNNING" \in s BY <2>3, SMT DEF Status
  <2>5. \A x \in {"VALID", "START_RULE"} : x \in s <=> x \in F.status BY <2>1, SMT
  <2> HIDE DEF s
  <2> QED BY <2>1, <2>2, <2>4, <2>5, PutStatus DEF Same, Is
<1> QED BY <1>1, <1>2

LEMMA KfType == ASSUME NEW F \in ForceRule, NEW s PROVE KfCount(F, s) \in Counter
<1>1. F.kfCounter \in Counter /\ F.rule \in Rule BY SMT DEF ForceRule
<1>2. F.rule.autoKf \in Counter BY <1>1, SMT DEF Rule
<1> QED BY <1>1, <1>2, DivertAssumption, SMT DEF KfCount, Counter

LEMMA AutoNextSame ==
  ASSUME NEW F \in ForceRule
  PROVE  Same(F, AutoNext(F)) /\ (Is(AutoNext(F), "RUNNING") <=> Is(F, "RUNNING"))
<1> DEFINE waits == F.autoState \in {"MIN_ON", "MIN_OFF"}
           m == KfCount(F, Awaited(F))
           n == IF waits THEN Decr(F.counter) ELSE F.counter
           a == IF waits /\ F.counter = 1
                THEN IF F.autoState = "MIN_ON" THEN "ON" ELSE "OFF" ELSE F.autoState
           A == [F EXCEPT !.kfCounter = m]
           B == [A EXCEPT !.counter = n]
<1>1. /\ F.counter \in Counter /\ F.rule \in Rule
      /\ F.autoState \in AutoState
  BY SMT DEF ForceRule, AutoState
<1>2. F.rule.autoOn \in Counter /\ F.rule.autoOff \in Counter /\ F.rule.autoKf \in Counter
  BY <1>1, SMT DEF Rule
<1>3. m \in Counter BY KfType
<1>4. n \in Counter BY <1>1, DecrType
<1>5. a \in AutoState BY <1>1, SMT DEF AutoState
<1>6. CASE F.autoState = "IDLE" BY <1>6 DEF AutoNext, Same
<1>7. CASE F.autoState # "IDLE" /\ GoesOff(F)
  <2>1. AutoNext(F) = AutoPut(F, "MIN_OFF", F.rule.autoOff, F.rule.autoKf)
    BY <1>7, Zenon DEF AutoNext, AutoPut
  <2>2. "MIN_OFF" \in AutoState BY AutoStates
  <2>3. LET G == AutoPut(F, "MIN_OFF", F.rule.autoOff, F.rule.autoKf)
        IN G \in ForceRule /\ G.rule = F.rule /\ G.status = F.status
    BY <1>2, <2>2, PutAuto
  <2> QED BY <2>1, <2>3, Zenon DEF Same, Is
<1>8. CASE F.autoState # "IDLE" /\ ~ GoesOff(F) /\ GoesOn(F)
  <2>1. AutoNext(F) = AutoPut(F, "MIN_ON", F.rule.autoOn, F.rule.autoKf)
    BY <1>8, Zenon DEF AutoNext, AutoPut
  <2>2. "MIN_ON" \in AutoState BY AutoStates
  <2>3. LET G == AutoPut(F, "MIN_ON", F.rule.autoOn, F.rule.autoKf)
        IN G \in ForceRule /\ G.rule = F.rule /\ G.status = F.status
    BY <1>2, <2>2, PutAuto
  <2> QED BY <2>1, <2>3, Zenon DEF Same, Is
<1>9. CASE F.autoState # "IDLE" /\ ~ GoesOff(F) /\ ~ GoesOn(F)
  <2>1. AutoNext(F) = [B EXCEPT !.autoState = a] BY <1>9, Zenon DEF AutoNext
  <2> HIDE DEF m, n, a
  <2>2. A \in ForceRule /\ A.rule = F.rule /\ A.status = F.status BY <1>3, PutKfCounter
  <2> HIDE DEF A
  <2>3. B \in ForceRule /\ B.rule = F.rule /\ B.status = F.status BY <1>4, <2>2, PutCounter
  <2> HIDE DEF B
  <2>4. LET H == [B EXCEPT !.autoState = a]
        IN H \in ForceRule /\ H.rule = B.rule /\ H.status = B.status
    BY <1>5, <2>3, PutAutoState
  <2> QED BY <2>1, <2>3, <2>4, Zenon DEF Same, Is
<1> HIDE DEF waits, m, n, a, A, B
<1> QED BY <1>6, <1>7, <1>8, <1>9

-----------------------------------------------------------------------------
(***************************************************************************)
(* TypeOK is inductive.                                                    *)
(***************************************************************************)

LEMMA Chan == /\ Ssr \subseteq Channel /\ Ssr = {0, 1} /\ ChanMax \in Nat /\ ChanMax >= 2
              /\ \A c : c \in Channel <=> (c \in Nat /\ c < ChanMax)
              /\ \A f : f \in Forcing <=> (f \in Nat /\ f < ForceMax)
              /\ Empty \in Usage /\ Diverting \in Usage /\ Forcing \subseteq Usage
              /\ ~ Forced(Empty) /\ ~ Forced(Diverting) /\ ForceMax \in Nat /\ ForceMax > 0
  BY DivertAssumption, SMT DEF Ssr, Channel, Forcing, Usage, Empty, Diverting, Forced

LEMMA RuleChannel == ASSUME NEW F \in ForceRule PROVE F.rule.channel \in Channel /\ F.rule \in Rule
<1>1. F.rule \in Rule BY SMT DEF ForceRule
<1> QED BY <1>1, SMT DEF Rule

LEMMA IoType == ASSUME NEW F, NEW o \in {"off", "on", "div"}
                PROVE  /\ StopIo(F, o) \in {"off", "on", "div"}
                       /\ SecondIo(F, o) \in {"off", "on", "div"}
                       /\ StartIo(F, o) \in {"off", "on", "div"}
                       /\ NextIo(F, o) \in {"off", "on", "div"}
  BY Zenon DEF StopIo, SecondIo, StartIo, NextIo

LEMMA InitType == Init => TypeOK
<1> SUFFICES ASSUME Init PROVE TypeOK OBVIOUS
<1>1. force \in [Forcing -> ForceRule]
  <2>1. \A f \in Forcing : Fresh(Stored[f]) \in ForceRule BY StoredType, FreshType
  <2> QED BY <2>1, SMT DEF Init
<1>2. /\ age \in [Forcing -> 0 .. AgeMax] /\ dfStatus \in [Channel -> Usage]
      /\ tempStatus \in [Channel -> Usage]
  BY Chan, DivertAssumption, SMT DEF Init
<1>3. /\ diverterSwitch \in 0 .. 3 /\ diverterChannel \in 1 .. 3 /\ diverterIndex \in Ssr
      /\ ix \in Nat
  BY SMT DEF Init, SwitchIdle, SwitchNone, Ssr
<1>4. enabled \in BOOLEAN /\ bDiverterSet \in BOOLEAN BY Zenon DEF Init
<1> QED BY <1>1, <1>2, <1>3, <1>4, Zenon DEF Init, TypeOK

(* The type of force, and of out, after a change for one forcing.          *)
LEMMA ForceType ==
  ASSUME force \in [Forcing -> ForceRule], NEW f \in Forcing, NEW G \in ForceRule
  PROVE  [force EXCEPT ![f] = G] \in [Forcing -> ForceRule]
  BY Zenon

LEMMA LoopType ==
  ASSUME TypeOK, NEW last \in Nat, NEW next, Loop(last, next), ix < last \/ ix = last
  PROVE  ix' \in Nat /\ (\/ pc' = next /\ ix' = 0 
                         \/ pc' = pc /\ ix' = ix + 1 /\ ix' < last + 1)
  BY SMT DEF TypeOK, Loop

LEMMA StepType == TypeOK /\ [Next]_vars => TypeOK'
<1> SUFFICES ASSUME TypeOK, [Next]_vars PROVE TypeOK' OBVIOUS
<1>t. /\ force \in [Forcing -> ForceRule] /\ dfStatus \in [Channel -> Usage]
      /\ tempStatus \in [Channel -> Usage] /\ out \in [Channel -> {"off", "on", "div"}]
  BY DEF TypeOK
<1>1. CASE NextBegin
  <2>1. \A f \in Forcing : [force[f] EXCEPT !.status = @ \ {"START_RULE", "STOP_RULE"}] \in ForceRule
    <3> TAKE f \in Forcing
    <3> DEFINE F == force[f]
               s == F.status \ {"START_RULE", "STOP_RULE"}
    <3>1. F \in ForceRule BY <1>t
    <3>2. F.status \in SUBSET Status BY <3>1, SMT DEF ForceRule
    <3> HIDE DEF F
    <3>3. s \in SUBSET Status BY <3>2
    <3> HIDE DEF s
    <3>4. [F EXCEPT !.status = s] \in ForceRule BY <3>1, <3>3, PutStatus
    <3> QED BY <3>4 DEF F, s
  <2>2. force' \in [Forcing -> ForceRule] BY <1>1, <2>1, Zenon DEF NextBegin
  <2>3. age' \in [Forcing -> 0 .. AgeMax] BY <1>1, DivertAssumption, SMT DEF NextBegin, TypeOK
  <2> QED BY <1>1, <2>2, <2>3, Chan, SMT DEF NextBegin, TypeOK, handshake
<1>2. CASE NoStop
  BY <1>2, Chan, SMT DEF NoStop, TypeOK, Loop, handshake, forcing
<1>3. CASE NoStart
  BY <1>3, Chan, SMT DEF NoStart, TypeOK, Loop, handshake, forcing
<1>4. CASE Switched
  BY <1>4, Chan, SMT DEF Switched, TypeOK, handshake, forcing

<1>5. CASE Preempt
  <2>1. CASE Forced(tempStatus[ix]) /\ Forced(dfStatus[ix]) /\ tempStatus[ix] < dfStatus[ix]
    <3> DEFINE f == dfStatus[ix]
               G == Stopped(force[f])
    <3>1. f \in Forcing BY <2>1 DEF Forced
    <3>2. G \in ForceRule /\ force[f] \in ForceRule BY <3>1, <1>t, StoppedSame DEF Same
    <3>3. force' = [force EXCEPT ![f] = G] BY <1>5, <2>1, Zenon DEF Preempt
    <3> DEFINE c == force[f].rule.channel
               o == StopIo(force[f], out[c])
    <3>4. out' = [out EXCEPT ![c] = o] BY <1>5, <2>1, Zenon DEF Preempt
    <3>5. c \in Channel BY <3>2, RuleChannel
    <3>6. o \in {"off", "on", "div"} BY <1>t, <3>5, IoType, Zenon
    <3> HIDE DEF f, G, c, o
    <3>7. force' \in [Forcing -> ForceRule] BY <1>t, <3>1, <3>2, <3>3
    <3>8. out' \in [Channel -> {"off", "on", "div"}] BY <1>t, <3>4, <3>5, <3>6
    <3> QED BY <1>5, <3>7, <3>8, Chan, SMT DEF Preempt, TypeOK, Loop, handshake
  <2>2. CASE ~ (Forced(tempStatus[ix]) /\ Forced(dfStatus[ix]) /\ tempStatus[ix] < dfStatus[ix])
    BY <1>5, <2>2, Chan, SMT DEF Preempt, TypeOK, Loop, handshake
  <2> QED BY <2>1, <2>2
<1>6. CASE Begin
  <2>0. dfStatus' \in [Channel -> Usage] BY <1>6, <1>t, Zenon DEF Begin
  <2>1. CASE Forced(tempStatus[ix])
    <3> DEFINE f == tempStatus[ix]
               F == force[f]
               G == Started(F)
               H == IF IsAuto(F) THEN AutoNext(G) ELSE G
               c == F.rule.channel
               o == IF IsAuto(F) THEN NextIo(G, StartIo(F, out[c])) ELSE StartIo(F, out[c])
    <3>1. f \in Forcing /\ F \in ForceRule BY <1>t, <2>1 DEF Forced
    <3>2. force' = [force EXCEPT ![f] = H] BY <1>6, <2>1, Zenon DEF Begin
    <3>3. out' = [out EXCEPT ![c] = o] BY <1>6, <2>1, Zenon DEF Begin
    <3>4. age' = [age EXCEPT ![f] = 0] \/ age' = [age EXCEPT ![f] = age[f]]
      BY <1>6, <2>1, Zenon DEF Begin
    <3> HIDE DEF f, F
    <3>5. G \in ForceRule BY <3>1, StartedSame DEF Same
    <3> HIDE DEF G
    <3>6. H \in ForceRule BY <3>5, AutoNextSame DEF Same
    <3>7. c \in Channel BY <3>1, RuleChannel
    <3>8. o \in {"off", "on", "div"}
      <4>1. StartIo(F, out[c]) \in {"off", "on", "div"} BY <1>t, <3>7, IoType, Zenon
      <4> QED BY <4>1, IoType, Zenon
    <3> HIDE DEF H, c, o
    <3>9. force' \in [Forcing -> ForceRule] BY <1>t, <3>1, <3>2, <3>6
    <3>10. out' \in [Channel -> {"off", "on", "div"}] BY <1>t, <3>3, <3>7, <3>8
    <3>11. age' \in [Forcing -> 0 .. AgeMax]
      BY <3>1, <3>4, DivertAssumption, SMT DEF TypeOK
    <3> QED BY <1>6, <2>0, <3>9, <3>10, <3>11, Chan, SMT DEF Begin, TypeOK, Loop, handshake
  <2>2. CASE ~ Forced(tempStatus[ix])
    <3>1. force' = force /\ out' = out /\ age' = age BY <1>6, <2>2, Zenon DEF Begin
    <3> QED BY <1>6, <2>0, <3>1, Chan, SMT DEF Begin, TypeOK, Loop, handshake
  <2> QED BY <2>1, <2>2
<1>7. ASSUME NEW e \in BOOLEAN, StopCheck(e) PROVE TypeOK'
  <2> DEFINE f == tempStatus[ix]
             F == force[f]
             G == Second(F)
             T == Told(F, G)
             true == StopExpr(F, e) \/ Order(F)
             H == IF ~ true THEN G ELSE IF Ends(F) THEN Stopped(T) ELSE T
             c == F.rule.channel
             io == SecondIo(F, out[c])
             o == IF true /\ Ends(F) THEN StopIo(F, io) ELSE io
  <2>1. f \in Forcing /\ F \in ForceRule BY <1>7, <1>t DEF StopCheck, Forced
  <2>2. force' = [force EXCEPT ![f] = H] BY <1>7, Zenon DEF StopCheck
  <2>3. out' = [out EXCEPT ![c] = o] BY <1>7, Zenon DEF StopCheck
  <2>4. /\ tempStatus' = tempStatus \/ tempStatus' = [tempStatus EXCEPT ![ix] = Empty]
        /\ dfStatus' = dfStatus \/ dfStatus' = [dfStatus EXCEPT ![ix] = Empty]
    BY <1>7, Zenon DEF StopCheck
  <2>5. pc = "stop" /\ Loop(ChanMax - 1, "start") /\ UNCHANGED <<age, handshake, asked, web>>
    BY <1>7 DEF StopCheck
  <2> HIDE DEF f, F, true
  <2>6. G \in ForceRule BY <2>1, SecondSame DEF Same
  <2> HIDE DEF G
  <2>7. T \in ForceRule BY <2>1, <2>6, ToldSame DEF Same
  <2> HIDE DEF T
  <2>8. Stopped(T) \in ForceRule BY <2>7, StoppedSame DEF Same
  <2>9. H \in ForceRule BY <2>6, <2>7, <2>8
  <2>10. c \in Channel BY <2>1, RuleChannel
  <2>11. io \in {"off", "on", "div"} BY <1>t, <2>10, IoType, Zenon
  <2>12. o \in {"off", "on", "div"} BY <2>11, IoType, Zenon
  <2> HIDE DEF H, c, io, o
  <2>13. force' \in [Forcing -> ForceRule] BY <1>t, <2>1, <2>2, <2>9
  <2>14. out' \in [Channel -> {"off", "on", "div"}] BY <1>t, <2>3, <2>10, <2>12
  <2>15. tempStatus' \in [Channel -> Usage] /\ dfStatus' \in [Channel -> Usage]
    BY <1>t, <2>4, Chan, Zenon
  <2> QED BY <2>5, <2>13, <2>14, <2>15, Chan, SMT DEF TypeOK, Loop, handshake

<1>8. ASSUME NEW e \in BOOLEAN, StartCheck(e) PROVE TypeOK'
  <2> DEFINE F == force[ix]
             expr   == Is(F, "VALID") /\ F.on /\ e
             manual == Is(F, "MANUAL_ORDER") /\ ~ Is(F, "RUNNING")
             true   == (expr /\ ~ Is(F, "DMAX_WAITING")) \/ manual
             s == (F.status \ ((IF expr THEN {} ELSE {"DMAX_WAITING"}) \cup
                               (IF manual THEN {"MANUAL_ORDER"} ELSE {})))
                  \cup (IF true THEN {"START_RULE"} ELSE {})
             G == [F EXCEPT !.status = s]
             c == F.rule.channel
             u == IF true THEN Override(tempStatus[c], ix) ELSE tempStatus[c]
  <2>1. ix \in Forcing BY <1>8, Chan, SMT DEF StartCheck, TypeOK
  <2>2. F \in ForceRule BY <2>1, <1>t
  <2>3. F.status \in SUBSET Status BY <2>2, SMT DEF ForceRule
  <2>4. s \in SUBSET Status BY <2>3, SMT DEF Status
  <2>5. c \in Channel BY <2>2, RuleChannel
  <2>6. u \in Usage BY <1>t, <2>1, <2>5, Chan, Zenon DEF Override
  <2>7. force' = [force EXCEPT ![ix] = G] BY <1>8, Zenon DEF StartCheck
  <2>8. tempStatus' = [tempStatus EXCEPT ![c] = u] BY <1>8, Zenon DEF StartCheck
  <2>9. pc = "start" /\ Loop(ForceMax - 1, "divert")
        /\ UNCHANGED <<dfStatus, age, out, handshake, asked, web>>
    BY <1>8 DEF StartCheck
  <2> HIDE DEF F, s
  <2>10. G \in ForceRule BY <2>2, <2>4, PutStatus
  <2> HIDE DEF G, c, u
  <2>11. force' \in [Forcing -> ForceRule] /\ tempStatus' \in [Channel -> Usage]
    BY <1>t, <2>1, <2>5, <2>6, <2>7, <2>8, <2>10
  <2> QED BY <2>9, <2>11, Chan, SMT DEF TypeOK, Loop, handshake
<1>9. ASSUME NEW d \in [Ssr -> BOOLEAN], Divert(d) PROVE TypeOK'
  <2>1. tempStatus' \in [Channel -> Usage]
    <3> DEFINE div(c) == ~ Forced(tempStatus[c]) /\ d[c] /\ (c = 1 => Forced(tempStatus[0]) \/ ~ d[0])
    <3>1. tempStatus' = [c \in Channel |->
             IF c \notin Ssr \/ Forced(tempStatus[c]) THEN tempStatus[c]
             ELSE IF div(c) THEN Diverting ELSE Empty]
      BY <1>9, Zenon DEF Divert
    <3> HIDE DEF div
    <3> QED BY <1>t, <3>1, Chan, Zenon
  <2>2. PICK want \in {1, 2, 3} : ChangeTo(want)
    <3> DEFINE div(c) == ~ Forced(tempStatus[c]) /\ d[c] /\ (c = 1 => Forced(tempStatus[0]) \/ ~ d[0])
               w == IF div(0) THEN SwitchTo(0) ELSE IF div(1) THEN SwitchTo(1) ELSE SwitchNone
    <3>1. ChangeTo(w) BY <1>9, Zenon DEF Divert
    <3> HIDE DEF div
    <3>2. w \in {1, 2, 3} BY SMT DEF SwitchTo, SwitchNone
    <3> QED BY <3>1, <3>2
  <2>3. UNCHANGED <<force, dfStatus, age, out, enabled, bDiverterSet, diverterChannel,
                    diverterIndex, asked, web>> /\ ix' = 0
    BY <1>9 DEF Divert
  <2> QED BY <2>1, <2>2, <2>3, Chan, SMT DEF TypeOK, ChangeTo
<1>10. CASE Meter
  <2>1. \A o \in [Channel -> {"off", "on", "div"}] :
          \A x : SsrOff(o, x) \in [Channel -> {"off", "on", "div"}]
    BY Zenon DEF SsrOff
  <2> DEFINE on == enabled # bDiverterSet
             o  == IF bDiverterSet THEN SsrOff(out, Ssr) ELSE out
             sw == on /\ SwitchPending
             to == IF sw /\ diverterSwitch # SwitchNone THEN diverterSwitch - 1 ELSE diverterIndex
             p  == IF ~ sw THEN o
                   ELSE IF diverterSwitch = SwitchNone THEN SsrOff(o, Ssr) ELSE SsrOff(o, {1 - to})
             ch == IF sw THEN diverterSwitch ELSE diverterChannel
  <2>2. /\ enabled' = on /\ bDiverterSet' = FALSE /\ diverterIndex' = to /\ diverterChannel' = ch
        /\ diverterSwitch' = IF sw THEN SwitchIdle ELSE diverterSwitch
        /\ out' = IF on /\ ch # SwitchNone THEN [p EXCEPT ![to] = "div"] ELSE p
        /\ UNCHANGED <<forcing, pc, ix, asked, web>>
    BY <1>10, Zenon DEF Meter
  <2>3. to \in Ssr /\ ch \in 1 .. 3 /\ SwitchIdle = 0
    BY SMT DEF TypeOK, SwitchPending, SwitchNone, SwitchIdle, Ssr
  <2>4. p \in [Channel -> {"off", "on", "div"}] BY <1>t, <2>1, Zenon
  <2>5. on \in BOOLEAN BY Zenon
  <2> HIDE DEF on, o, sw, to, p, ch
  <2>6. out' \in [Channel -> {"off", "on", "div"}] BY <2>2, <2>3, <2>4, Chan, Zenon
  <2>7. enabled' \in BOOLEAN /\ bDiverterSet' \in BOOLEAN BY <2>2, <2>5, Zenon
  <2>8. diverterSwitch' \in 0 .. 3 BY <2>2, <2>3, SMT DEF TypeOK
  <2> QED BY <2>2, <2>3, <2>6, <2>7, <2>8, SMT DEF TypeOK, forcing

<1>11. \A f \in Forcing : /\ force[f] \in ForceRule /\ Stopped(force[f]) \in ForceRule
                          /\ RemovedFrom(dfStatus, f) \in [Channel -> Usage]
  BY <1>t, StoppedSame, Chan, Zenon DEF Same, RemovedFrom
<1>12. \A f \in Forcing : Invalidate(f) => /\ out' \in [Channel -> {"off", "on", "div"}]
                                           /\ dfStatus' \in [Channel -> Usage]
  <2> SUFFICES ASSUME NEW f \in Forcing, Invalidate(f)
               PROVE  /\ out' \in [Channel -> {"off", "on", "div"}]
                      /\ dfStatus' \in [Channel -> Usage]
    OBVIOUS
  <2> DEFINE c == force[f].rule.channel
             o == StopIo(force[f], out[c])
  <2>1. c \in Channel BY <1>11, RuleChannel
  <2>2. o \in {"off", "on", "div"} BY <1>t, <2>1, IoType, Zenon
  <2>3. \/ out' = [out EXCEPT ![c] = o] /\ dfStatus' = RemovedFrom(dfStatus, f)
        \/ out' = out /\ dfStatus' = dfStatus
    BY Zenon DEF Invalidate
  <2> HIDE DEF c, o
  <2> QED BY <1>t, <1>11, <2>1, <2>2, <2>3, Zenon
<1>13. ASSUME NEW f \in Forcing, NEW r \in Rules, SetRule(f, r) PROVE TypeOK'
  <2>1. Fresh(r) \in ForceRule BY StoredType, FreshType
  <2>2. force' \in [Forcing -> ForceRule] BY <1>13, <1>t, <2>1 DEF SetRule
  <2>3. out' \in [Channel -> {"off", "on", "div"}] /\ dfStatus' \in [Channel -> Usage]
    BY <1>12, <1>13 DEF SetRule
  <2> QED BY <1>13, <2>2, <2>3, SMT DEF SetRule, TypeOK, handshake
<1>14. ASSUME NEW f \in Forcing, NEW r \in Rules, WebInvalidate(f, r) PROVE TypeOK'
  <2> DEFINE G == Stopped(force[f])
             K == Invalid(G)
  <2>1. G \in ForceRule BY <1>11
  <2>2. K \in ForceRule
    <3> HIDE DEF G
    <3>1. G.status \ {"VALID"} \in SUBSET Status BY <2>1, SMT DEF ForceRule
    <3> QED BY <2>1, <3>1, PutStatus DEF Invalid
  <2>3. force' = [force EXCEPT ![f] = K] \/ force' = [force EXCEPT ![f] = force[f]]
    <3>1. CASE Is(force[f], "VALID") BY <1>14, <3>1, Zenon DEF WebInvalidate
    <3>2. CASE ~ Is(force[f], "VALID") BY <1>14, <3>2, Zenon DEF WebInvalidate
    <3> QED BY <3>1, <3>2
  <2> HIDE DEF K
  <2>4. force' \in [Forcing -> ForceRule] BY <1>t, <2>2, <2>3
  <2>5. out' \in [Channel -> {"off", "on", "div"}] /\ dfStatus' \in [Channel -> Usage]
    BY <1>12, <1>14 DEF WebInvalidate
  <2>6. web'.index \in Forcing /\ web'.rule \in Rules BY <1>14 DEF WebInvalidate
  <2> QED BY <1>14, <2>4, <2>5, <2>6, SMT DEF WebInvalidate, TypeOK, handshake
<1>15. CASE WebSet
  <2>1. web.index \in Forcing /\ web.rule \in Rules BY <1>15 DEF WebSet, TypeOK
  <2>2. Fresh(web.rule) \in ForceRule BY <2>1, StoredType, FreshType
  <2>3. force' \in [Forcing -> ForceRule] BY <1>15, <1>t, <2>1, <2>2 DEF WebSet
  <2> QED BY <1>15, <2>3, SMT DEF WebSet, TypeOK, handshake
<1>16. ASSUME NEW f \in Forcing, NEW on \in BOOLEAN, Enable(f, on) PROVE TypeOK'
  <2>1. \A F \in ForceRule, b \in BOOLEAN : [F EXCEPT !.on = b] \in ForceRule
    BY Zenon DEF ForceRule
  <2>2. \/ force' = [force EXCEPT ![f] = [force[f] EXCEPT !.on = TRUE]]
        \/ force' = [force EXCEPT ![f] = [Stopped(force[f]) EXCEPT !.on = FALSE]]
    BY <1>16, Zenon DEF Enable
  <2>3. force' \in [Forcing -> ForceRule] BY <1>t, <1>11, <2>1, <2>2, Zenon
  <2> DEFINE c == force[f].rule.channel
             o == StopIo(force[f], out[c])
  <2>4. c \in Channel BY <1>11, RuleChannel
  <2>5. o \in {"off", "on", "div"} BY <1>t, <2>4, IoType, Zenon
  <2>6. \/ out' = [out EXCEPT ![c] = o] /\ dfStatus' = RemovedFrom(dfStatus, f)
        \/ out' = out /\ dfStatus' = dfStatus
    BY <1>16, Zenon DEF Enable
  <2> HIDE DEF c, o
  <2>7. out' \in [Channel -> {"off", "on", "div"}] /\ dfStatus' \in [Channel -> Usage]
    BY <1>t, <1>11, <2>4, <2>5, <2>6, Zenon
  <2> QED BY <1>16, <2>3, <2>7, SMT DEF Enable, TypeOK, handshake
<1>17. ASSUME NEW f \in Forcing, Manual(f) PROVE TypeOK'
  <2> DEFINE F == force[f]
             s == F.status \cup {"MANUAL_ORDER"}
             G == [F EXCEPT !.status = s]
  <2>1. F \in ForceRule BY <1>11
  <2>2. force' = [force EXCEPT ![f] = G] BY <1>17, Zenon DEF Manual
  <2> HIDE DEF F
  <2>3. F.status \in SUBSET Status BY <2>1, SMT DEF ForceRule
  <2>4. s \in SUBSET Status BY <2>3, SMT DEF Status
  <2> HIDE DEF s
  <2>5. G \in ForceRule BY <2>1, <2>4, PutStatus
  <2> HIDE DEF G
  <2>6. force' \in [Forcing -> ForceRule] BY <1>t, <2>2, <2>5
  <2> QED BY <1>17, <2>6, SMT DEF Manual, TypeOK, handshake
<1>18. CASE ReadCfg
  BY <1>18, SMT DEF ReadCfg, TypeOK, forcing, SwitchNone
<1>19. \A cfg : (\A f \in Forcing : cfg[f] \in Rule) /\ Load(cfg)
                => force' \in [Forcing -> ForceRule] /\ dfStatus' \in [Channel -> Usage]
  BY FreshType, Chan, Zenon DEF Load
<1>20. CASE ReadCfgEnd
  <2>1. force' \in [Forcing -> ForceRule] /\ dfStatus' \in [Channel -> Usage]
    BY <1>19, <1>20, StoredType DEF ReadCfgEnd
  <2>2. out' \in [Channel -> {"off", "on", "div"}] BY <1>20, <1>t, Zenon DEF ReadCfgEnd
  <2> QED BY <1>20, <2>1, <2>2, SMT DEF ReadCfgEnd, TypeOK, handshake
<1>21. CASE DefaultCfg
  <2>1. \A f \in Forcing : [g \in Forcing |-> NoRule][f] \in Rule BY StoredType
  <2>2. force' \in [Forcing -> ForceRule] /\ dfStatus' \in [Channel -> Usage]
    BY <1>19, <1>21, <2>1, Zenon DEF DefaultCfg
  <2> QED BY <1>21, <2>2, SMT DEF DefaultCfg, TypeOK, handshake
<1>22. CASE Toggle BY <1>22, SMT DEF Toggle, TypeOK, forcing
<1>23. ASSUME NEW client \in Client, NEW s \in {"on", "off"}, Ask(client, s) PROVE TypeOK'
  BY <1>23, SMT DEF Ask, TypeOK, forcing, handshake, MainWaits
<1>24. ASSUME NEW client \in Client, AskSet(client) PROVE TypeOK'
  BY <1>24, SMT DEF AskSet, TypeOK, forcing, MainWaits
<1>25. CASE UNCHANGED vars BY <1>25, Zenon DEF vars, forcing, handshake, TypeOK
<1> QED BY <1>1, <1>2, <1>3, <1>4, <1>5, <1>6, <1>7, <1>8, <1>9, <1>10, <1>13, <1>14, <1>15,
          <1>16, <1>17, <1>18, <1>20, <1>21, <1>22, <1>23, <1>24, <1>25
          DEF Next, DiverterNext, RuleResults, DivRuleResults, Users

(* Every variable has its type in every reachable state.                   *)
THEOREM TypeCorrect == Spec => []TypeOK
<1> QED BY InitType, StepType, PTL DEF Spec

-----------------------------------------------------------------------------
(***************************************************************************)
(* RegInv is inductive, for a configured device.                           *)
(***************************************************************************)

(* What a step that replaces the record of one forcing keeps of them all.  *)
Kept(g) == /\ On(g)' = On(g)
           /\ Is(force[g], "VALID")' <=> Is(force[g], "VALID")
           /\ Is(force[g], "START_RULE")' <=> Is(force[g], "START_RULE")
LEMMA PutSame ==
  ASSUME force \in [Forcing -> ForceRule], NEW f \in Forcing, NEW G, Same(force[f], G),
         force' = [force EXCEPT ![f] = G]
  PROVE  /\ \A g \in Forcing : Kept(g) /\ (g # f => (Runs(g)' <=> Runs(g)))
         /\ Runs(f)' <=> Is(G, "RUNNING")
<1>1. \A g \in Forcing : force'[g] = IF g = f THEN G ELSE force[g] BY Zenon
<1> QED BY <1>1, Zenon DEF Kept, On, Runs, Same, Is

LEMMA FreshRuns == \A r : ~ Is(Fresh(r), "RUNNING") /\ (r.mode # "none" => Is(Fresh(r), "VALID"))
                          /\ ~ Is(Fresh(r), "START_RULE")
  BY Zenon DEF Fresh, Is

LEMMA InitReg == Configured /\ Init => RegInv
<1> SUFFICES ASSUME Configured, Init PROVE RegInv OBVIOUS
<1>1. \A f \in Forcing : Is(force[f], "VALID") /\ ~ Runs(f)
  <2>1. \A f \in Forcing : force[f] = Fresh(Stored[f]) BY Zenon DEF Init
  <2>2. \A f \in Forcing : Stored[f].mode # "none" BY DivertAssumption, Zenon DEF Configured
  <2> QED BY <2>1, <2>2, FreshRuns, Zenon DEF Runs
<1>2. /\ pc = "idle" /\ web = NoCall
      /\ \A c \in Channel : dfStatus[c] = Empty BY Zenon DEF Init
<1>3. \A f \in Forcing : f # Empty BY Chan, Zenon DEF Forced
<1> QED BY <1>1, <1>2, <1>3, SMT DEF RegInv, AllValid, DfExact, TempOfChannel, TempPrevails,
        Displaced, Chosen, InPass

(* Between two seconds.                                                    *)
LEMMA IdleReg == ASSUME pc' \in {"idle", "cfgSwitch", "sd"}, AllValid', DfExact' PROVE RegInv'
  BY SMT DEF RegInv, TempOfChannel, TempPrevails, Displaced, Chosen, InPass

LEMMA OnChannel == TypeOK => \A f \in Forcing : On(f) \in Channel /\ force[f] \in ForceRule
  BY RuleChannel, Zenon DEF TypeOK, On

LEMMA StepReg1 ==
  ASSUME TypeOK, RegInv, NextBegin \/ NoStop \/ NoStart \/ Switched PROVE RegInv'
<1>1. CASE NextBegin
  <2>1. \A g \in Forcing : On(g)' = On(g) /\ (Runs(g)' <=> Runs(g))
                           /\ (Is(force[g], "VALID")' <=> Is(force[g], "VALID"))
    <3> SUFFICES ASSUME NEW g \in Forcing
                 PROVE  /\ On(g)' = On(g) /\ (Runs(g)' <=> Runs(g))
                        /\ Is(force[g], "VALID")' <=> Is(force[g], "VALID")
      OBVIOUS
    <3> DEFINE F == force[g]
               s == F.status \ {"START_RULE", "STOP_RULE"}
               G == [F EXCEPT !.status = s]
    <3>1. F \in ForceRule BY DEF TypeOK
    <3>2. force'[g] = G BY <1>1, Zenon DEF NextBegin
    <3>3. F.status \in SUBSET Status BY <3>1, SMT DEF ForceRule
    <3>4. \A x \in {"RUNNING", "VALID"} : x \in s <=> x \in F.status BY SMT
    <3>5. s \in SUBSET Status BY <3>3, SMT
    <3> HIDE DEF F, s
    <3>6. G.rule = F.rule /\ G.status = s BY <3>1, <3>5, PutStatus
    <3> QED BY <3>2, <3>4, <3>6 DEF F, On, Runs, Is
  <2>2. pc = "idle" /\ pc' = "stop" /\ tempStatus' = dfStatus /\ dfStatus' = dfStatus /\ web' = web
    BY <1>1 DEF NextBegin
  <2>3. AllValid' BY <2>1, <2>2 DEF AllValid, RegInv
  <2>4. DfExact' BY <2>1, <2>2 DEF DfExact, RegInv
  <2>5. TempOfChannel' BY <2>2, <2>4 DEF DfExact, TempOfChannel, Forced
  <2>6. TempPrevails' /\ Displaced' /\ Chosen' BY <2>2, SMT DEF TempPrevails, Displaced, Chosen
  <2> QED BY <2>3, <2>4, <2>5, <2>6 DEF RegInv
<1>2. CASE NoStop \/ NoStart \/ Switched
  <2>1. /\ force' = force /\ dfStatus' = dfStatus /\ tempStatus' = tempStatus /\ web' = web
        /\ \/ pc = "stop" /\ pc' \in {"stop", "start"}
           \/ pc = "start" /\ pc' \in {"start", "divert"}
           \/ pc = "switch" /\ pc' = "preempt" /\ ix' = ix /\ ix = 0
    <3>1. CASE NoStop BY <3>1, SMT DEF NoStop, Loop, forcing
    <3>2. CASE NoStart BY <3>2, SMT DEF NoStart, Loop, forcing
    <3>3. CASE Switched BY <3>3, SMT DEF Switched, forcing, TypeOK
    <3> QED BY <1>2, <3>1, <3>2, <3>3
  <2>2. \A g \in Forcing : On(g)' = On(g) /\ (Runs(g)' <=> Runs(g))
    BY <2>1 DEF On, Runs
  <2>3. AllValid' BY <2>1 DEF AllValid, RegInv
  <2>4. DfExact' BY <2>1, <2>2 DEF DfExact, RegInv
  <2>5. TempOfChannel'
    <3>1. tempStatus \in [Channel -> Usage] BY DEF TypeOK
    <3> QED BY <2>1, <2>2, <3>1 DEF TempOfChannel, RegInv, Forced, InPass
  <2>6. TempPrevails' BY <2>1, Chan DEF TempPrevails, RegInv, Forced
  <2>7. Displaced'
    <3>1. \A f \in Forcing : On(f) \in Channel BY OnChannel
    <3> QED BY <2>1, <2>2, <3>1, Chan DEF Displaced, DfExact, RegInv
  <2>8. Chosen' BY <2>1 DEF Chosen
  <2> QED BY <2>3, <2>4, <2>5, <2>6, <2>7, <2>8 DEF RegInv
<1> QED BY <1>1, <1>2

LEMMA StopReg ==
  ASSUME TypeOK, RegInv, NEW e \in BOOLEAN, StopCheck(e)
  PROVE  RegInv' /\ \A g \in Forcing : Kept(g)
<1>0. pc = "stop" /\ tempStatus[ix] \in Forcing BY Zenon DEF StopCheck, Forced
<1> PICK f \in Forcing : f = tempStatus[ix] BY <1>0
<1> DEFINE F == force[f]
           G == Second(F)
           T == Told(F, G)
           true == StopExpr(F, e) \/ Order(F)
           H == IF ~ true THEN G ELSE IF Ends(F) THEN Stopped(T) ELSE T
<1>1. /\ f \in Forcing /\ F \in ForceRule /\ ix \in Channel /\ dfStatus[ix] = f
      /\ force \in [Forcing -> ForceRule]
      /\ tempStatus \in [Channel -> Usage] /\ dfStatus \in [Channel -> Usage]
      /\ pc = "stop" /\ \A c \in Channel : tempStatus[c] = dfStatus[c]
  <2>1. ix \in Channel BY <1>0, Chan DEF TypeOK
  <2> QED BY <1>0, <2>1, Zenon DEF TypeOK, RegInv, TempPrevails
<1>2. /\ force' = [force EXCEPT ![f] = H] /\ web' = web
      /\ \/ true /\ Ends(F) /\ tempStatus' = [tempStatus EXCEPT ![ix] = Empty]
            /\ dfStatus' = [dfStatus EXCEPT ![ix] = Empty]
         \/ ~ (true /\ Ends(F)) /\ tempStatus' = tempStatus /\ dfStatus' = dfStatus
  BY Zenon DEF StopCheck
<1>3. pc' \in {"stop", "start"} BY <1>1, Zenon DEF StopCheck, Loop
<1>4. \A g \in Forcing, c \in Channel : dfStatus[c] = g <=> Runs(g) /\ On(g) = c
  BY <1>1, SMT DEF RegInv, DfExact
<1>5. Runs(f) /\ On(f) = ix BY <1>1, <1>4
<1> HIDE DEF F, true
<1>6. Same(F, G) /\ G \in ForceRule /\ (Is(G, "RUNNING") <=> Is(F, "RUNNING"))
  BY <1>1, SecondSame DEF Same
<1> HIDE DEF G
<1>7. Same(G, T) /\ T \in ForceRule /\ (Is(T, "RUNNING") <=> Is(G, "RUNNING"))
  BY <1>1, <1>6, ToldSame DEF Same
<1> HIDE DEF T
<1>8. Same(T, Stopped(T)) /\ ~ Is(Stopped(T), "RUNNING") BY <1>7, StoppedSame
<1>9. Same(F, H) /\ (Is(H, "RUNNING") <=> Is(F, "RUNNING") /\ ~ (true /\ Ends(F)))
  <2>1. CASE ~ true BY <1>6, <2>1
  <2>2. CASE true /\ ~ Ends(F) BY <1>6, <1>7, <2>2, Zenon DEF Same
  <2>3. CASE true /\ Ends(F) BY <1>6, <1>7, <1>8, <2>3, Zenon DEF Same
  <2> QED BY <2>1, <2>2, <2>3
<1> HIDE DEF H
<1>10. /\ \A g \in Forcing : Kept(g) /\ (g # f => (Runs(g)' <=> Runs(g)))
       /\ Runs(f)' <=> Is(H, "RUNNING")
  <2>1. force' = [force EXCEPT ![f] = H] /\ Same(force[f], H) BY <1>2, <1>9 DEF F
  <2> QED BY <1>1, <2>1, PutSame
<1>11. \A g \in Forcing : On(g)' = On(g) /\ (Runs(g)' <=> Runs(g) /\ ~ (g = f /\ true /\ Ends(F)))
  <2>1. Runs(f) <=> Is(F, "RUNNING") BY DEF Runs, F
  <2> QED BY <1>9, <1>10, <2>1, Zenon DEF Kept
<1>12. Empty \notin Forcing BY Chan DEF Forced
<1>13. DfExact'
  <2>1. CASE true /\ Ends(F)
    <3>1. dfStatus' = [dfStatus EXCEPT ![ix] = Empty] BY <1>2, <2>1
    <3> QED BY <1>1, <1>4, <1>5, <1>11, <1>12, <2>1, <3>1, SMT DEF DfExact
  <2>2. CASE ~ (true /\ Ends(F))
    <3>1. dfStatus' = dfStatus BY <1>2, <2>2
    <3> QED BY <1>1, <1>4, <1>11, <2>2, <3>1, SMT DEF DfExact
  <2> QED BY <2>1, <2>2
<1>14. \A c \in Channel : tempStatus'[c] = dfStatus'[c] BY <1>1, <1>2, SMT
<1>15. TempOfChannel' BY <1>3, <1>13, <1>14, SMT DEF TempOfChannel, DfExact, Forced
<1>16. TempPrevails' BY <1>3, <1>14, Chan, SMT DEF TempPrevails, Forced
<1>17. AllValid' BY <1>2, <1>10 DEF RegInv, AllValid, Kept
<1>18. Displaced' /\ Chosen' BY <1>3 DEF Displaced, Chosen
<1> QED BY <1>10, <1>13, <1>15, <1>16, <1>17, <1>18 DEF RegInv

LEMMA StartReg ==
  ASSUME TypeOK, RegInv, NEW e \in BOOLEAN, StartCheck(e) PROVE RegInv'
<1> DEFINE F == force[ix]
           expr   == Is(F, "VALID") /\ F.on /\ e
           manual == Is(F, "MANUAL_ORDER") /\ ~ Is(F, "RUNNING")
           true   == (expr /\ ~ Is(F, "DMAX_WAITING")) \/ manual
           s == (F.status \ ((IF expr THEN {} ELSE {"DMAX_WAITING"}) \cup
                             (IF manual THEN {"MANUAL_ORDER"} ELSE {})))
                \cup (IF true THEN {"START_RULE"} ELSE {})
           G == [F EXCEPT !.status = s]
           c0 == F.rule.channel
<1>1. pc = "start" /\ ix \in Forcing /\ F \in ForceRule BY Chan, SMT DEF StartCheck, TypeOK
<1>2. /\ force' = [force EXCEPT ![ix] = G] /\ web' = web /\ dfStatus' = dfStatus
      /\ \/ tempStatus' = [tempStatus EXCEPT ![c0] = tempStatus[c0]]
         \/ tempStatus' = [tempStatus EXCEPT ![c0] = ix] /\ ix < tempStatus[c0]
  BY Zenon DEF StartCheck, Override
<1>3. pc' \in {"start", "divert"} BY <1>1, Zenon DEF StartCheck, Loop
<1>4. F.status \in SUBSET Status BY <1>1, SMT DEF ForceRule
<1>5. s \in SUBSET Status BY <1>4, SMT DEF Status
<1>6. \A x \in {"RUNNING", "VALID"} : x \in s <=> x \in F.status BY SMT
<1> HIDE DEF F, s
<1>7. G.rule = F.rule /\ G.status = s BY <1>1, <1>5, PutStatus
<1>8. \A g \in Forcing : force'[g] = IF g = ix THEN G ELSE force[g] BY <1>2, Zenon DEF TypeOK
<1>9. \A g \in Forcing : On(g)' = On(g) /\ (Runs(g)' <=> Runs(g))
                         /\ (Is(force[g], "VALID")' <=> Is(force[g], "VALID"))
  BY <1>6, <1>7, <1>8, Zenon DEF On, Runs, Is, F
<1>10. AllValid' BY <1>2, <1>9 DEF RegInv, AllValid
<1>11. DfExact' BY <1>1, <1>2, <1>9, SMT DEF RegInv, DfExact
<1>12. On(ix) = c0 /\ c0 \in Channel BY <1>1, OnChannel DEF On, F
<1> HIDE DEF c0
<1>13. /\ tempStatus \in [Channel -> Usage]
       /\ \A c \in Channel : \/ tempStatus'[c] = tempStatus[c]
                             \/ c = c0 /\ tempStatus'[c] = ix /\ ix < tempStatus[c]
  BY <1>2, <1>12, SMT DEF TypeOK
<1>14. TempOfChannel' BY <1>1, <1>9, <1>12, <1>13, SMT DEF RegInv, TempOfChannel, InPass, Forced
<1>15. TempPrevails'
  <2> SUFFICES ASSUME NEW c \in Channel, Forced(dfStatus[c]) PROVE tempStatus'[c] <= dfStatus[c]
    BY <1>2, <1>3, SMT DEF TempPrevails
  <2>1. tempStatus[c] <= dfStatus[c] BY <1>1, Zenon DEF RegInv, TempPrevails
  <2>2. tempStatus[c] \in Nat /\ dfStatus[c] \in Nat /\ ix \in Nat
    BY <1>1, <1>13, Chan, SMT DEF Usage, Forced, Diverting, Empty
  <2> QED BY <1>13, <2>1, <2>2, SMT
<1>16. Displaced' /\ Chosen' BY <1>3 DEF Displaced, Chosen
<1> QED BY <1>10, <1>11, <1>14, <1>15, <1>16 DEF RegInv

(* dfStatus and tempStatus, and the forcings they name.                    *)
LEMMA UsageOrder ==
  ASSUME TypeOK, NEW c \in Channel
  PROVE  /\ tempStatus[c] \in Nat /\ dfStatus[c] \in Nat
         /\ Forced(dfStatus[c]) /\ tempStatus[c] <= dfStatus[c] => Forced(tempStatus[c])
<1>1. tempStatus[c] \in Usage /\ dfStatus[c] \in Usage BY Zenon DEF TypeOK
<1> QED BY <1>1, Chan, SMT DEF Usage, Forced, Diverting, Empty

LEMMA DivertReg ==
  ASSUME TypeOK, RegInv, NEW d \in [Ssr -> BOOLEAN], Divert(d) PROVE RegInv'
<1>1. /\ pc = "divert" /\ pc' \in {"switch", "preempt"} /\ ix' = 0
      /\ force' = force /\ dfStatus' = dfStatus /\ web' = web
  <2>1. pc = "divert" /\ ix' = 0 /\ force' = force /\ dfStatus' = dfStatus /\ web' = web
    BY Zenon DEF Divert
  <2>2. pc' \in {"switch", "preempt"} BY Zenon DEF Divert, ChangeTo
  <2> QED BY <2>1, <2>2
<1>2. \A g \in Forcing : On(g)' = On(g) /\ (Runs(g)' <=> Runs(g)) BY <1>1, Zenon DEF On, Runs
<1>3. \A c \in Channel : \/ tempStatus'[c] = tempStatus[c]
                         \/ ~ Forced(tempStatus[c]) /\ ~ Forced(tempStatus'[c])
  <2> DEFINE div(c) == ~ Forced(tempStatus[c]) /\ d[c] /\ (c = 1 => Forced(tempStatus[0]) \/ ~ d[0])
  <2>1. tempStatus' = [c \in Channel |->
             IF c \notin Ssr \/ Forced(tempStatus[c]) THEN tempStatus[c]
             ELSE IF div(c) THEN Diverting ELSE Empty]
    BY Zenon DEF Divert
  <2> HIDE DEF div
  <2> QED BY <2>1, Chan, Zenon
<1>4. AllValid' BY <1>1, Zenon DEF RegInv, AllValid
<1>5. DfExact' BY <1>1, <1>2, SMT DEF RegInv, DfExact
<1>6. TempOfChannel'
  <2> SUFFICES ASSUME NEW c \in Channel, Forced(tempStatus[c])' PROVE (On(tempStatus[c]) = c)'
    BY Zenon DEF TempOfChannel
  <2>1. tempStatus'[c] = tempStatus[c] /\ Forced(tempStatus[c]) BY <1>3 DEF Forced
  <2>2. On(tempStatus[c]) = c BY <1>1, <2>1, SMT DEF RegInv, TempOfChannel, InPass
  <2> QED BY <1>1, <2>1, <2>2, Zenon DEF On
<1>7. TempPrevails'
  <2> SUFFICES ASSUME NEW c \in Channel, Forced(dfStatus[c]) PROVE tempStatus'[c] <= dfStatus[c]
    BY <1>1, SMT DEF TempPrevails
  <2>1. tempStatus[c] <= dfStatus[c] BY <1>1, Zenon DEF RegInv, TempPrevails
  <2> QED BY <1>3, <2>1, UsageOrder
<1>8. Displaced'
  <2>1. \A f \in Forcing : On(f) \in Channel BY OnChannel
  <2> QED BY <1>1, <1>2, <2>1, Chan, SMT DEF RegInv, DfExact, Displaced
<1>9. Chosen' BY <1>1 DEF Chosen
<1> QED BY <1>4, <1>5, <1>6, <1>7, <1>8, <1>9 DEF RegInv

LEMMA PreemptReg == ASSUME TypeOK, RegInv, Preempt
                    PROVE  RegInv' /\ \A g \in Forcing : Kept(g)
<1>1. /\ pc = "preempt" /\ ix \in Channel /\ web' = web
      /\ tempStatus' = tempStatus /\ dfStatus' = dfStatus
      /\ \/ pc' = "begin" /\ ix' = 0 /\ ix = ChanMax - 1
         \/ pc' = "preempt" /\ ix' = ix + 1
  <2>1. pc = "preempt" BY DEF Preempt
  <2>2. ix \in Channel BY <2>1, Chan DEF TypeOK
  <2> QED BY <2>1, <2>2, SMT DEF Preempt, Loop
<1> DEFINE stops == Forced(tempStatus[ix]) /\ Forced(dfStatus[ix]) /\ tempStatus[ix] < dfStatus[ix]
<1>2. \A f \in Forcing : Runs(f) => dfStatus[On(f)] = f /\ (On(f) < ix => tempStatus[On(f)] = f)
  BY <1>1, Zenon DEF RegInv, Displaced
<1>3. \A g \in Forcing : /\ Kept(g)
                         /\ (Runs(g)' <=> Runs(g) /\ ~ (stops /\ g = dfStatus[ix]))
  <2>1. CASE stops
    <3> PICK f \in Forcing : f = dfStatus[ix] BY <2>1 DEF Forced
    <3>1. force[f] \in ForceRule BY OnChannel
    <3>2. Same(force[f], Stopped(force[f])) /\ ~ Is(Stopped(force[f]), "RUNNING")
      BY <3>1, StoppedSame
    <3>3. force' = [force EXCEPT ![f] = Stopped(force[f])] BY <2>1, Zenon DEF Preempt
    <3>4. force \in [Forcing -> ForceRule] BY DEF TypeOK
    <3> DEFINE G == Stopped(force[f])
    <3> HIDE DEF G
    <3>5. Same(force[f], G) /\ ~ Is(G, "RUNNING") /\ force' = [force EXCEPT ![f] = G]
      BY <3>2, <3>3 DEF G
    <3>6. /\ \A g \in Forcing : Kept(g) /\ (g # f => (Runs(g)' <=> Runs(g)))
          /\ Runs(f)' <=> Is(G, "RUNNING")
      BY <3>4, <3>5, PutSame
    <3> QED BY <2>1, <3>5, <3>6, Zenon
  <2>2. CASE ~ stops
    <3>1. force' = force BY <2>2, Zenon DEF Preempt
    <3> QED BY <2>2, <3>1, Zenon DEF Kept, On, Runs
  <2> QED BY <2>1, <2>2
<1>4. \A f \in Forcing : Runs(f)' /\ On(f) = ix => tempStatus[ix] = f
  <2> SUFFICES ASSUME NEW f \in Forcing, Runs(f)', On(f) = ix PROVE tempStatus[ix] = f OBVIOUS
  <2>1. dfStatus[ix] = f /\ ~ stops BY <1>2, <1>3
  <2>2. tempStatus[ix] <= f BY <1>1, <2>1, Zenon DEF RegInv, TempPrevails, Forced
  <2> HIDE DEF stops
  <2>3. tempStatus[ix] \in Nat /\ f \in Nat /\ Forced(tempStatus[ix]) /\ Forced(f)
    BY <1>1, <2>1, <2>2, UsageOrder, Chan DEF Forced
  <2> QED BY <2>1, <2>2, <2>3, SMT DEF stops
<1> HIDE DEF stops
<1>5. \A f \in Forcing : On(f) \in Channel BY OnChannel
<1>6. AllValid' BY <1>1, <1>3, Zenon DEF RegInv, AllValid, Kept
<1>7. DfExact' BY <1>1, Zenon DEF DfExact
<1>8. TempOfChannel'
  BY <1>1, <1>3, SMT DEF RegInv, TempOfChannel, InPass, Forced, Kept
<1>9. TempPrevails' BY <1>1, Zenon DEF RegInv, TempPrevails
<1>10. \A f \in Forcing : Runs(f)' => /\ dfStatus[On(f)] = f
                                      /\ On(f) < ix + 1 => tempStatus[On(f)] = f
  BY <1>1, <1>2, <1>3, <1>4, <1>5, Chan, SMT
<1>11. Displaced' BY <1>1, <1>3, <1>10, SMT DEF Displaced, Kept
<1>12. Chosen'
  <2> SUFFICES ASSUME pc' = "begin" PROVE Chosen' BY DEF Chosen
  <2>1. ix' = 0 /\ ix = ChanMax - 1 BY <1>1
  <2>2. \A c \in Channel : ~ (c < ix') /\ c < ix + 1 BY <2>1, Chan, SMT
  <2> QED BY <1>1, <1>3, <1>5, <1>10, <2>2, Zenon DEF Chosen, Kept
<1> QED BY <1>3, <1>6, <1>7, <1>8, <1>9, <1>11, <1>12 DEF RegInv

LEMMA BeginReg == ASSUME TypeOK, RegInv, Begin
                    PROVE  RegInv' /\ \A g \in Forcing : Kept(g)
<1>1. /\ pc = "begin" /\ ix \in Channel /\ web' = web /\ tempStatus' = tempStatus
      /\ \/ pc' = "idle" /\ ix = ChanMax - 1 /\ dfStatus' = tempStatus
         \/ pc' = "begin" /\ ix' = ix + 1
  <2>1. pc = "begin" BY DEF Begin
  <2>2. ix \in Channel BY <2>1, Chan DEF TypeOK
  <2> QED BY <2>1, <2>2, SMT DEF Begin, Loop
<1>2. \A f \in Forcing : Runs(f) => tempStatus[On(f)] = f BY <1>1, Zenon DEF RegInv, Chosen
<1>3. \A c \in Channel : Forced(tempStatus[c]) => /\ On(tempStatus[c]) = c
                                                  /\ c < ix => Runs(tempStatus[c])
  BY <1>1, SMT DEF RegInv, Chosen, TempOfChannel, InPass
<1>4. \A g \in Forcing : /\ Kept(g)
                         /\ (Runs(g)' <=> Runs(g) \/ g = tempStatus[ix])
  <2>1. CASE Forced(tempStatus[ix])
    <3> PICK f \in Forcing : f = tempStatus[ix] BY <2>1 DEF Forced
    <3> DEFINE F == force[f]
               S == Started(F)
               G == IF IsAuto(F) THEN AutoNext(S) ELSE S
    <3>1. F \in ForceRule BY OnChannel
    <3>2. force' = [force EXCEPT ![f] = G] BY <2>1, Zenon DEF Begin
    <3> HIDE DEF F
    <3>3. Same(F, S) /\ S \in ForceRule /\ Is(S, "RUNNING") BY <3>1, StartedSame DEF Same
    <3> HIDE DEF S
    <3>4. Same(S, AutoNext(S)) /\ Is(AutoNext(S), "RUNNING") BY <3>3, AutoNextSame
    <3>5. Same(F, G) /\ Is(G, "RUNNING") BY <3>3, <3>4, Zenon DEF Same
    <3> HIDE DEF G
    <3>6. force \in [Forcing -> ForceRule] /\ Same(force[f], G) BY <3>5 DEF TypeOK, F
    <3>7. /\ \A g \in Forcing : Kept(g) /\ (g # f => (Runs(g)' <=> Runs(g)))
          /\ Runs(f)' <=> Is(G, "RUNNING")
      BY <3>2, <3>6, PutSame
    <3> QED BY <3>5, <3>7, Zenon
  <2>2. CASE ~ Forced(tempStatus[ix])
    <3>1. force' = force BY <2>2, Zenon DEF Begin
    <3> QED BY <2>2, <3>1, Zenon DEF Kept, On, Runs, Forced
  <2> QED BY <2>1, <2>2
<1>5. \A f \in Forcing : On(f) \in Channel BY OnChannel
<1>6. \A f \in Forcing : Runs(f)' => tempStatus[On(f)] = f
  BY <1>1, <1>2, <1>3, <1>4, Zenon DEF Forced
<1>7. ASSUME NEW c \in Channel, NEW f \in Forcing, tempStatus[c] = f, c < ix + 1
      PROVE  Runs(f)' /\ On(f) = c
  <2>1. On(f) = c /\ (c < ix => Runs(f)) BY <1>3, <1>7 DEF Forced
  <2>2. c < ix \/ c = ix BY <1>1, <1>7, Chan, SMT
  <2> QED BY <1>4, <1>7, <2>1, <2>2
<1>8. AllValid' BY <1>1, <1>4, Zenon DEF RegInv, AllValid, Kept
<1>9. DfExact'
  <2> SUFFICES ASSUME pc' = "idle", NEW f \in Forcing, NEW c \in Channel
               PROVE  dfStatus'[c] = f <=> Runs(f)' /\ On(f)' = c
    BY <1>1, Zenon DEF DfExact
  <2>1. dfStatus' = tempStatus /\ c < ix + 1 BY <1>1, Chan, SMT
  <2> QED BY <1>4, <1>6, <1>7, <2>1, Zenon DEF Kept
<1>10. TempOfChannel' BY <1>1, <1>3, <1>4, SMT DEF TempOfChannel, Forced, Kept
<1>11. TempPrevails' /\ Displaced' BY <1>1, SMT DEF TempPrevails, Displaced
<1>12. Chosen'
  <2>1. CASE pc' = "begin" /\ ix' = ix + 1
    BY <1>1, <1>4, <1>6, <1>7, <2>1, SMT DEF Chosen, Forced, Kept
  <2>2. CASE pc' # "begin" BY <2>2 DEF Chosen
  <2> QED BY <1>1, <2>1, <2>2
<1> QED BY <1>4, <1>8, <1>9, <1>10, <1>11, <1>12 DEF RegInv

LEMMA QuietReg ==
  ASSUME RegInv, UNCHANGED <<force, dfStatus, tempStatus, pc, ix, web>> PROVE RegInv'
<1>1. \A g \in Forcing : On(g)' = On(g) /\ (Runs(g)' <=> Runs(g)) BY Zenon DEF On, Runs
<1>2. AllValid' BY Zenon DEF RegInv, AllValid
<1>3. DfExact' BY <1>1, SMT DEF RegInv, DfExact
<1>4. TempOfChannel' BY <1>1, SMT DEF RegInv, TempOfChannel, InPass, Forced
<1>5. TempPrevails' BY Zenon DEF RegInv, TempPrevails
<1>6. Displaced' BY <1>1, SMT DEF RegInv, Displaced
<1>7. Chosen' BY <1>1, SMT DEF RegInv, Chosen, Forced
<1> QED BY <1>2, <1>3, <1>4, <1>5, <1>6, <1>7 DEF RegInv

LEMMA ManualReg == ASSUME TypeOK, RegInv, NEW f \in Forcing, Manual(f)
                   PROVE  RegInv' /\ \A g \in Forcing : Kept(g)
<1> DEFINE F == force[f]
           s == F.status \cup {"MANUAL_ORDER"}
           G == [F EXCEPT !.status = s]
<1>1. F \in ForceRule BY OnChannel
<1>2. force' = [force EXCEPT ![f] = G] BY Zenon DEF Manual
<1> HIDE DEF F
<1>3. F.status \in SUBSET Status BY <1>1, SMT DEF ForceRule
<1>4. s \in SUBSET Status BY <1>3, SMT DEF Status
<1>5. \A x \in {"RUNNING", "VALID", "START_RULE"} : x \in s <=> x \in F.status BY SMT
<1> HIDE DEF s
<1>6. Same(F, G) /\ (Is(G, "RUNNING") <=> Is(F, "RUNNING")) BY <1>1, <1>4, <1>5, PutStatus DEF Same, Is
<1> HIDE DEF G
<1>7. force \in [Forcing -> ForceRule] /\ Same(force[f], G) BY <1>6 DEF TypeOK, F
<1>8. /\ \A g \in Forcing : Kept(g) /\ (g # f => (Runs(g)' <=> Runs(g)))
      /\ Runs(f)' <=> Is(G, "RUNNING")
  BY <1>2, <1>7, PutSame
<1>9. Runs(f)' <=> Runs(f) BY <1>6, <1>8 DEF Runs, F
<1>10. \A g \in Forcing : /\ On(g)' = On(g) /\ (Runs(g)' <=> Runs(g))
                          /\ (Is(force[g], "VALID")' <=> Is(force[g], "VALID"))
  BY <1>8, <1>9, Zenon DEF Kept
<1>11. UNCHANGED <<dfStatus, tempStatus, pc, ix, web>> BY Zenon DEF Manual
<1>12. AllValid' BY <1>10, <1>11, Zenon DEF RegInv, AllValid
<1>13. DfExact' BY <1>10, <1>11, SMT DEF RegInv, DfExact
<1>14. TempOfChannel' BY <1>10, <1>11, SMT DEF RegInv, TempOfChannel, InPass, Forced
<1>15. TempPrevails' BY <1>11, Zenon DEF RegInv, TempPrevails
<1>16. Displaced' BY <1>10, <1>11, SMT DEF RegInv, Displaced
<1>17. Chosen' BY <1>10, <1>11, SMT DEF RegInv, Chosen, Forced
<1> QED BY <1>8, <1>12, <1>13, <1>14, <1>15, <1>16, <1>17 DEF RegInv

(* A forcing that is stopped is no longer registered.                      *)
LEMMA RemoveExact ==
  ASSUME TypeOK, RegInv, pc = "idle", NEW f \in Forcing,
         dfStatus' = RemovedFrom(dfStatus, f), ~ Runs(f)',
         \A g \in Forcing \ {f} : On(g)' = On(g) /\ (Runs(g)' <=> Runs(g))
  PROVE  DfExact'
<1> SUFFICES ASSUME NEW g \in Forcing, NEW c \in Channel
             PROVE  dfStatus'[c] = g <=> Runs(g)' /\ On(g)' = c
  BY Zenon DEF DfExact
<1>1. \A h \in Forcing : dfStatus[c] = h <=> Runs(h) /\ On(h) = c BY SMT DEF RegInv, DfExact
<1>2. dfStatus'[c] = IF Runs(f) /\ dfStatus[c] = f THEN Empty ELSE dfStatus[c]
  BY Zenon DEF RemovedFrom, Runs
<1>3. Empty \notin Forcing BY Chan DEF Forced
<1>4. CASE g = f BY <1>1, <1>2, <1>3, <1>4
<1>5. CASE g # f BY <1>1, <1>2, <1>3, <1>5
<1> QED BY <1>4, <1>5

LEMMA SetRuleReg ==
  ASSUME TypeOK, RegInv, NEW f \in Forcing, NEW r \in Rules, SetRule(f, r) PROVE RegInv'
<1>1. /\ pc = "idle" /\ pc' = "idle" /\ web' = web
      /\ force' = [force EXCEPT ![f] = Fresh(r)] /\ Invalidate(f)
  BY Zenon DEF SetRule
<1>2. \A g \in Forcing : force'[g] = IF g = f THEN Fresh(r) ELSE force[g] BY <1>1, Zenon DEF TypeOK
<1>3. r.mode # "none" BY DivertAssumption
<1>4. AllValid' BY <1>1, <1>2, <1>3, FreshRuns, Zenon DEF RegInv, AllValid
<1>5. dfStatus' = RemovedFrom(dfStatus, f) BY <1>1, Zenon DEF Invalidate, RegInv, AllValid
<1>6. ~ Runs(f)' /\ \A g \in Forcing \ {f} : On(g)' = On(g) /\ (Runs(g)' <=> Runs(g))
  BY <1>2, FreshRuns, Zenon DEF On, Runs
<1>7. DfExact' BY <1>1, <1>5, <1>6, RemoveExact
<1> QED BY <1>1, <1>4, <1>7, IdleReg

LEMMA EnableReg ==
  ASSUME TypeOK, RegInv, NEW f \in Forcing, NEW on \in BOOLEAN, Enable(f, on) PROVE RegInv'
<1>1. pc = "idle" /\ pc' = "idle" /\ web' = web BY Zenon DEF Enable
<1>2. \A F \in ForceRule, b \in BOOLEAN :
        Same(F, [F EXCEPT !.on = b]) /\ [F EXCEPT !.on = b].status = F.status
  <2> SUFFICES ASSUME NEW F \in ForceRule, NEW b \in BOOLEAN
               PROVE  Same(F, [F EXCEPT !.on = b]) /\ [F EXCEPT !.on = b].status = F.status
    OBVIOUS
  <2>1. LET G == [F EXCEPT !.on = b]
        IN G \in ForceRule /\ G.rule = F.rule /\ G.status = F.status
    BY SMT DEF ForceRule
  <2> QED BY <2>1, Zenon DEF Same, Is
<1>3. force[f] \in ForceRule /\ force \in [Forcing -> ForceRule] BY OnChannel DEF TypeOK
<1>4. CASE on
  <2> DEFINE G == [force[f] EXCEPT !.on = TRUE]
  <2>1. force' = [force EXCEPT ![f] = G] /\ dfStatus' = dfStatus BY <1>4, Zenon DEF Enable
  <2>2. Same(force[f], G) /\ (Is(G, "RUNNING") <=> Runs(f)) BY <1>2, <1>3, Zenon DEF Is, Runs
  <2> HIDE DEF G
  <2>3. /\ \A g \in Forcing : Kept(g) /\ (g # f => (Runs(g)' <=> Runs(g)))
        /\ Runs(f)' <=> Is(G, "RUNNING")
    BY <1>3, <2>1, <2>2, PutSame
  <2>4. AllValid' BY <1>1, <2>3, Zenon DEF RegInv, AllValid, Kept
  <2>5. DfExact'
    <3>1. \A g \in Forcing : On(g)' = On(g) /\ (Runs(g)' <=> Runs(g)) BY <2>2, <2>3, Zenon DEF Kept
    <3> QED BY <1>1, <2>1, <3>1, SMT DEF RegInv, DfExact
  <2> QED BY <1>1, <2>4, <2>5, IdleReg
<1>5. CASE ~ on
  <2> DEFINE S == Stopped(force[f])
             G == [S EXCEPT !.on = FALSE]
  <2>1. force' = [force EXCEPT ![f] = G] /\ dfStatus' = RemovedFrom(dfStatus, f)
    BY <1>5, Zenon DEF Enable
  <2>2. Same(force[f], S) /\ S \in ForceRule /\ ~ Is(S, "RUNNING") BY <1>3, StoppedSame DEF Same
  <2> HIDE DEF S
  <2>3. Same(S, G) /\ ~ Is(G, "RUNNING") BY <1>2, <2>2, Zenon DEF Is
  <2> HIDE DEF G
  <2>4. Same(force[f], G) BY <2>2, <2>3, Zenon DEF Same
  <2>5. /\ \A g \in Forcing : Kept(g) /\ (g # f => (Runs(g)' <=> Runs(g)))
        /\ Runs(f)' <=> Is(G, "RUNNING")
    BY <1>3, <2>1, <2>4, PutSame
  <2>6. AllValid' BY <1>1, <2>5, Zenon DEF RegInv, AllValid, Kept
  <2>7. ~ Runs(f)' /\ \A g \in Forcing \ {f} : On(g)' = On(g) /\ (Runs(g)' <=> Runs(g))
    BY <2>3, <2>5, Zenon DEF Kept
  <2>8. DfExact' BY <1>1, <2>1, <2>7, RemoveExact
  <2> QED BY <1>1, <2>6, <2>8, IdleReg
<1> QED BY <1>4, <1>5

LEMMA ReadCfgReg == ASSUME Configured, RegInv, ReadCfgEnd PROVE RegInv'
<1>1. /\ pc' = "idle" /\ web' = web
      /\ force' = [f \in Forcing |-> Fresh(Stored[f])] /\ dfStatus' = [c \in Channel |-> Empty]
  BY Zenon DEF ReadCfgEnd, Load
<1>2. \A f \in Forcing : Is(force[f], "VALID")' /\ ~ Runs(f)'
  <2>1. \A f \in Forcing : force'[f] = Fresh(Stored[f]) BY <1>1, Zenon
  <2>2. \A f \in Forcing : Stored[f].mode # "none" BY DivertAssumption, Zenon DEF Configured
  <2> QED BY <2>1, <2>2, FreshRuns, Zenon DEF Runs
<1>3. AllValid' BY <1>1, <1>2, Zenon DEF RegInv, AllValid
<1>4. DfExact'
  <2>1. \A f \in Forcing : f # Empty BY Chan, Zenon DEF Forced
  <2> QED BY <1>1, <1>2, <2>1, Zenon DEF DfExact
<1> QED BY <1>1, <1>3, <1>4, IdleReg

LEMMA StepReg == Configured /\ TypeOK /\ RegInv /\ [Next]_vars => RegInv'
<1> SUFFICES ASSUME Configured, TypeOK, RegInv, [Next]_vars PROVE RegInv' OBVIOUS
<1>1. ASSUME pc \in {"idle", "cfgSwitch", "sd"}, pc' \in {"idle", "cfgSwitch", "sd"},
             UNCHANGED <<force, dfStatus, web>>
      PROVE  RegInv'
  <2>1. AllValid' BY <1>1, Zenon DEF RegInv, AllValid
  <2>2. \A g \in Forcing : On(g)' = On(g) /\ (Runs(g)' <=> Runs(g)) BY <1>1, Zenon DEF On, Runs
  <2>3. DfExact' BY <1>1, <2>2, SMT DEF RegInv, DfExact
  <2> QED BY <1>1, <2>1, <2>3, IdleReg
<1>2. CASE Meter \/ Toggle \/ UNCHANGED vars
  BY <1>2, QuietReg, Zenon DEF Meter, Toggle, vars, forcing
<1>3. CASE ReadCfg BY <1>1, <1>3, Zenon DEF ReadCfg, forcing
<1>4. ASSUME NEW client \in Client, NEW s \in {"on", "off"}, Ask(client, s) PROVE RegInv'
  <2>1. CASE client = "web" BY <1>4, <2>1, QuietReg, Zenon DEF Ask, forcing
  <2>2. CASE client # "web" BY <1>1, <1>4, <2>2, Zenon DEF Ask, forcing
  <2> QED BY <2>1, <2>2
<1>5. ASSUME NEW client \in Client, AskSet(client) PROVE RegInv'
  <2>1. CASE client = "web" BY <1>5, <2>1, QuietReg, Zenon DEF AskSet, forcing
  <2>2. CASE client # "web" BY <1>1, <1>5, <2>2, Zenon DEF AskSet, forcing
  <2> QED BY <2>1, <2>2
<1>6. ~ DefaultCfg /\ ~ WebSet /\ \A f \in Forcing, r \in Rules : ~ WebInvalidate(f, r)
  BY Zenon DEF Configured, DefaultCfg, WebSet, WebInvalidate, RegInv, AllValid
<1> QED BY <1>2, <1>3, <1>4, <1>5, <1>6, StepReg1, StopReg, StartReg, DivertReg, PreemptReg,
        BeginReg, ManualReg, SetRuleReg, EnableReg, ReadCfgReg
        DEF Next, DiverterNext, RuleResults, DivRuleResults, Users

(* On a configured device whose rules the main task alone replaces, the    *)
(* forcing registered for a channel is, between two seconds, the one that  *)
(* runs on it.                                                             *)
THEOREM RegisteredHolds == ASSUME Configured PROVE Spec => []Registered
<1>1. RegInv => Registered BY SMT DEF RegInv, DfExact, Registered, RunsOn, Runs, On
<1>2. Init => RegInv BY InitReg
<1>3. TypeOK /\ RegInv /\ [Next]_vars => RegInv' BY StepReg
<1> QED BY <1>1, <1>2, <1>3, TypeCorrect, PTL DEF Spec

-----------------------------------------------------------------------------
(***************************************************************************)
(* MeterInv is inductive: what is diverted to, and where forcings run.     *)
(***************************************************************************)

(* No forcing starts in a step that registers none.                        *)
LEMMA NoNewRuns ==
  ASSUME TypeOK', RegInv, RegInv',
         pc \notin {"preempt", "begin"}, pc' \notin {"preempt", "begin"},
         \A c \in Channel : dfStatus'[c] \in Forcing => dfStatus'[c] = dfStatus[c]
  PROVE  \A f \in Forcing : Runs(f)' => Runs(f) /\ On(f)' = On(f)
<1> SUFFICES ASSUME NEW f \in Forcing, Runs(f)' PROVE Runs(f) /\ On(f)' = On(f) OBVIOUS
<1>1. \A g \in Forcing : On(g)' \in Channel BY RuleChannel, Zenon DEF TypeOK, On
<1>2. PICK c \in Channel : c = On(f)' BY <1>1
<1>3. dfStatus'[c] = f BY <1>2, Zenon DEF RegInv, DfExact
<1>4. dfStatus[c] = f BY <1>3
<1> QED BY <1>2, <1>4, SMT DEF RegInv, DfExact

LEMMA RunsChosen ==
  TypeOK /\ RegInv /\ pc \in {"preempt", "begin"} =>
    \A f \in Forcing : Runs(f) => On(f) \in Channel /\ Forced(tempStatus[On(f)])
<1> SUFFICES ASSUME TypeOK, RegInv, pc \in {"preempt", "begin"}, NEW f \in Forcing, Runs(f)
             PROVE  On(f) \in Channel /\ Forced(tempStatus[On(f)])
  OBVIOUS
<1>1. On(f) \in Channel BY OnChannel
<1>2. CASE pc = "preempt"
  <2>1. dfStatus[On(f)] = f BY <1>2, Zenon DEF RegInv, Displaced
  <2>2. tempStatus[On(f)] <= dfStatus[On(f)]
    BY <1>1, <1>2, <2>1, Zenon DEF RegInv, TempPrevails, Forced
  <2> QED BY <1>1, <2>1, <2>2, UsageOrder DEF Forced
<1>3. CASE pc = "begin" BY <1>1, <1>3, Zenon DEF RegInv, Chosen, Forced
<1> QED BY <1>2, <1>3

LEMMA NotDivIo == \A F, o : /\ StopIo(F, o) = "div" => o = "div"
                            /\ SecondIo(F, o) = "div" => o = "div"
                            /\ StartIo(F, o) = "div" => o = "div"
                            /\ NextIo(F, o) = "div" => o = "div"
  BY SMT DEF StopIo, SecondIo, StartIo, NextIo

LEMMA InitMeter == Init => MeterInv
<1> SUFFICES ASSUME Init PROVE MeterInv OBVIOUS
<1>1. \A f \in Forcing : ~ Runs(f)
  <2>1. \A f \in Forcing : force[f] = Fresh(Stored[f]) BY Zenon DEF Init
  <2> QED BY <2>1, FreshRuns, Zenon DEF Runs
<1>2. /\ pc = "idle" /\ diverterSwitch = SwitchIdle /\ diverterChannel = SwitchNone
      /\ \A c \in Channel : out[c] = "off"
  BY Zenon DEF Init
<1> QED BY <1>1, <1>2, SMT DEF MeterInv, IndexIsChannel, OnlyOneDiverts, NotWhereRuns,
        NotWhereChosen, NoneAsked

(* The main task changes neither what is diverted to nor what is asked.    *)
MainStep ==
  /\ UNCHANGED <<diverterSwitch, diverterChannel, diverterIndex>>
  /\ \A c \in Channel : out'[c] = "div" => out[c] = "div"
  /\ pc' \in {"switch", "preempt", "begin"} =>
       pc \in {"switch", "preempt", "begin"} /\ tempStatus' = tempStatus
  /\ pc' \notin {"switch", "cfgSwitch"} =>
       pc \notin {"switch", "cfgSwitch"} \/ diverterSwitch = SwitchIdle
LEMMA MainMeter ==
  ASSUME MeterInv, MainStep, NotWhereRuns' PROVE MeterInv'
<1>1. IndexIsChannel' BY Zenon DEF MainStep, MeterInv, IndexIsChannel
<1>2. OnlyOneDiverts' BY Zenon DEF MainStep, MeterInv, OnlyOneDiverts
<1>3. NotWhereChosen' BY SMT DEF MainStep, MeterInv, NotWhereChosen
<1>4. NoneAsked' BY Zenon DEF MainStep, MeterInv, NoneAsked
<1> QED BY <1>1, <1>2, <1>3, <1>4 DEF MeterInv

LEMMA NoneStarts ==
  ASSUME MeterInv, MainStep, \A f \in Forcing : Runs(f)' => Runs(f) /\ On(f)' = On(f)
  PROVE  MeterInv'
<1>1. NotWhereRuns' BY SMT DEF MainStep, MeterInv, NotWhereRuns
<1> QED BY <1>1, MainMeter

LEMMA PutIo ==
  ASSUME TypeOK, NEW o, NEW c, out' = [out EXCEPT ![c] = o], o = "div" => out[c] = "div"
  PROVE  \A b \in Channel : out'[b] = "div" => out[b] = "div"
  BY Zenon DEF TypeOK

LEMMA DivertMeter ==
  ASSUME TypeOK, RegInv, MeterInv, NEW d \in [Ssr -> BOOLEAN], Divert(d) PROVE MeterInv'
<1>1. /\ pc = "divert" /\ UNCHANGED <<force, dfStatus, out, diverterChannel, diverterIndex>>
  BY Zenon DEF Divert
<1> DEFINE div(c) == ~ Forced(tempStatus[c]) /\ d[c] /\ (c = 1 => Forced(tempStatus[0]) \/ ~ d[0])
           want   == IF div(0) THEN SwitchTo(0) ELSE IF div(1) THEN SwitchTo(1) ELSE SwitchNone
<1>2. ChangeTo(want) BY Zenon DEF Divert
<1>3. \A c \in Ssr : Forced(tempStatus[c]) => ~ div(c) BY Zenon
<1>4. \A c \in Ssr : Forced(tempStatus[c])' => Forced(tempStatus[c])
  <2>1. tempStatus' = [c \in Channel |->
             IF c \notin Ssr \/ Forced(tempStatus[c]) THEN tempStatus[c]
             ELSE IF div(c) THEN Diverting ELSE Empty]
    BY Zenon DEF Divert
  <2> HIDE DEF div
  <2> QED BY <2>1, Chan, Zenon
<1>5. \A c \in Ssr : Forced(tempStatus[c]) => want # SwitchTo(c)
  <2> HIDE DEF div
  <2> QED BY <1>3, Chan, SMT DEF SwitchTo, SwitchNone
<1> HIDE DEF div, want
<1>6. diverterSwitch = SwitchIdle BY <1>1, Zenon DEF MeterInv, NoneAsked
<1>7. \/ pc' = "switch" /\ diverterSwitch' = want
      \/ pc' = "preempt" /\ want = diverterChannel /\ diverterSwitch' = diverterSwitch
  BY <1>2, Zenon DEF ChangeTo
<1>8. IndexIsChannel' /\ OnlyOneDiverts'
  BY <1>1, Zenon DEF MeterInv, IndexIsChannel, OnlyOneDiverts
<1>9. \A c \in Ssr : SwitchIdle # SwitchTo(c) BY SMT DEF SwitchIdle, SwitchTo, Ssr
<1>10. NoneAsked' BY <1>6, <1>7, Zenon DEF NoneAsked
<1>11. \A f \in Forcing : Runs(f) => Forced(tempStatus[On(f)])
  <2> SUFFICES ASSUME NEW f \in Forcing, Runs(f) PROVE Forced(tempStatus[On(f)]) OBVIOUS
  <2>1. On(f) \in Channel BY OnChannel
  <2>2. dfStatus[On(f)] = f BY <1>1, <2>1, SMT DEF RegInv, DfExact
  <2>3. tempStatus[On(f)] <= dfStatus[On(f)]
    BY <1>1, <2>1, <2>2, Zenon DEF RegInv, TempPrevails, Forced
  <2> QED BY <2>1, <2>2, <2>3, UsageOrder DEF Forced
<1>12. NotWhereRuns'
  <2> SUFFICES ASSUME NEW f \in Forcing, Runs(f), On(f) \in Ssr
               PROVE  diverterChannel # SwitchTo(On(f)) /\ diverterSwitch' # SwitchTo(On(f))
    BY <1>1, Zenon DEF NotWhereRuns, Runs, On
  <2>1. diverterChannel # SwitchTo(On(f)) BY Zenon DEF MeterInv, NotWhereRuns
  <2> QED BY <1>5, <1>6, <1>7, <1>9, <1>11, <2>1, Zenon
<1>13. NotWhereChosen'
  <2> SUFFICES ASSUME NEW c \in Ssr, Forced(tempStatus[c])'
               PROVE  /\ diverterSwitch' # SwitchTo(c)
                      /\ diverterSwitch' = SwitchIdle => diverterChannel # SwitchTo(c)
    BY <1>1, Zenon DEF NotWhereChosen
  <2>1. want # SwitchTo(c) BY <1>4, <1>5
  <2>2. want # SwitchIdle
    BY DEF want, SwitchTo, SwitchNone, SwitchIdle
  <2> QED BY <1>6, <1>7, <1>9, <2>1, <2>2, Zenon
<1> QED BY <1>8, <1>10, <1>12, <1>13 DEF MeterInv

LEMMA MeterMeter == ASSUME TypeOK, MeterInv, Meter PROVE MeterInv'
<1> DEFINE on == enabled # bDiverterSet
           o  == IF bDiverterSet THEN SsrOff(out, Ssr) ELSE out
           sw == on /\ SwitchPending
           to == IF sw /\ diverterSwitch # SwitchNone THEN diverterSwitch - 1 ELSE diverterIndex
           p  == IF ~ sw THEN o
                 ELSE IF diverterSwitch = SwitchNone THEN SsrOff(o, Ssr) ELSE SsrOff(o, {1 - to})
           ch == IF sw THEN diverterSwitch ELSE diverterChannel
<1>1. /\ diverterIndex' = to /\ diverterChannel' = ch
      /\ diverterSwitch' = IF sw THEN SwitchIdle ELSE diverterSwitch
      /\ out' = IF on /\ ch # SwitchNone THEN [p EXCEPT ![to] = "div"] ELSE p
      /\ UNCHANGED <<force, tempStatus, pc>>
  BY Zenon DEF Meter, forcing
<1>2. /\ diverterSwitch \in 0 .. 3 /\ diverterChannel \in 1 .. 3 /\ diverterIndex \in Ssr
      /\ out \in [Channel -> {"off", "on", "div"}]
  BY DEF TypeOK
<1>3. sw => diverterSwitch # SwitchIdle BY DEF SwitchPending
<1>4. ch # SwitchNone => to = ch - 1 /\ to \in Ssr
  <2>1. CASE sw /\ diverterSwitch # SwitchNone
    <3>1. to = diverterSwitch - 1 /\ ch = diverterSwitch BY <2>1, Zenon
    <3> HIDE DEF to, ch
    <3> QED BY <1>2, <1>3, <2>1, <3>1, SMT DEF SwitchNone, SwitchIdle, Ssr
  <2>2. CASE ~ sw
    <3>1. to = diverterIndex /\ ch = diverterChannel BY <2>2, Zenon
    <3> HIDE DEF to, ch
    <3> QED BY <1>2, <3>1, Zenon DEF MeterInv, IndexIsChannel
  <2> QED BY <2>1, <2>2, Zenon
<1>5. \A x \in [Channel -> {"off", "on", "div"}] : \A cs :
        /\ SsrOff(x, cs) \in [Channel -> {"off", "on", "div"}]
        /\ \A c \in Channel : SsrOff(x, cs)[c] = "div" => x[c] = "div" /\ c \notin Ssr \cap cs
  BY SMT DEF SsrOff
<1>6. /\ o \in [Channel -> {"off", "on", "div"}]
      /\ \A c \in Channel : o[c] = "div" => c \in Ssr /\ diverterChannel = SwitchTo(c)
  BY <1>2, <1>5, SMT DEF MeterInv, OnlyOneDiverts
<1> HIDE DEF on, o
<1>7. /\ p \in [Channel -> {"off", "on", "div"}]
      /\ \A c \in Channel : p[c] = "div" => c \in Ssr /\ ch = SwitchTo(c)
  <2>1. CASE ~ sw BY <1>6, <2>1
  <2>2. CASE sw /\ diverterSwitch = SwitchNone
    <3>1. p = SsrOff(o, Ssr) BY <2>2
    <3> QED BY <1>5, <1>6, <3>1, Zenon
  <2>3. CASE sw /\ diverterSwitch # SwitchNone
    <3>1. p = SsrOff(o, {1 - to}) /\ ch = to + 1 /\ to \in Ssr BY <1>2, <1>4, <2>3, SMT DEF SwitchNone
    <3>2. \A c \in Ssr : c # 1 - to => c = to BY <3>1, SMT DEF Ssr
    <3> HIDE DEF p, ch, to
    <3> QED BY <1>5, <1>6, <3>1, <3>2, SMT DEF SwitchTo
  <2> QED BY <2>1, <2>2, <2>3
<1> HIDE DEF p
<1>8. IndexIsChannel' BY <1>1, <1>4, Zenon DEF IndexIsChannel
<1>9. OnlyOneDiverts'
  <2> SUFFICES ASSUME NEW c \in Channel, out'[c] = "div" PROVE c \in Ssr /\ ch = SwitchTo(c)
    BY <1>1, Zenon DEF OnlyOneDiverts
  <2>1. CASE out' = p BY <1>7, <2>1
  <2>2. CASE ch # SwitchNone /\ out' = [p EXCEPT ![to] = "div"]
    <3>1. CASE c = to
      <4> HIDE DEF to, ch
      <4>1. to = ch - 1 /\ to \in Ssr BY <1>4, <2>2
      <4>2. ch \in 1 .. 3 BY <1>2, <1>3, SMT DEF ch, SwitchIdle
      <4> QED BY <3>1, <4>1, <4>2, SMT DEF SwitchTo, Ssr
    <3>2. CASE c # to BY <1>7, <2>2, <3>2
    <3> QED BY <3>1, <3>2
  <2> QED BY <1>1, <2>1, <2>2
<1>10. diverterChannel' \in {diverterChannel, diverterSwitch}
       /\ (diverterChannel' = diverterSwitch \/ diverterSwitch' = diverterSwitch)
       /\ diverterSwitch' \in {SwitchIdle, diverterSwitch}
       /\ (~ sw => diverterChannel' = diverterChannel /\ diverterSwitch' = diverterSwitch)
  BY <1>1
<1>11. \A c \in Ssr : SwitchIdle # SwitchTo(c) BY SMT DEF SwitchIdle, SwitchTo, Ssr
<1>12. NotWhereRuns' BY <1>1, <1>10, <1>11, SMT DEF MeterInv, NotWhereRuns, Runs, On
<1>13. NotWhereChosen'
  <2> SUFFICES ASSUME NEW c \in Ssr, Forced(tempStatus[c]), pc \in {"switch", "preempt", "begin"}
               PROVE  /\ diverterSwitch' # SwitchTo(c)
                      /\ diverterSwitch' = SwitchIdle => diverterChannel' # SwitchTo(c)
    BY <1>1, Zenon DEF NotWhereChosen
  <2>1. /\ diverterSwitch # SwitchTo(c)
        /\ diverterSwitch = SwitchIdle => diverterChannel # SwitchTo(c)
    BY Zenon DEF MeterInv, NotWhereChosen
  <2>2. CASE sw BY <1>1, <1>11, <2>1, <2>2
  <2>3. CASE ~ sw BY <1>10, <2>1, <2>3
  <2> QED BY <2>2, <2>3
<1>14. NoneAsked' BY <1>1, <1>10, Zenon DEF MeterInv, NoneAsked
<1> QED BY <1>8, <1>9, <1>12, <1>13, <1>14 DEF MeterInv

(* Where the chosen forcings replace the others.                           *)
LEMMA ChangeMeter ==
  ASSUME TypeOK, TypeOK', RegInv, RegInv', MeterInv, Preempt \/ Begin PROVE MeterInv'
<1>1. /\ pc \in {"preempt", "begin"} /\ tempStatus' = tempStatus
      /\ UNCHANGED <<diverterSwitch, diverterChannel, diverterIndex>>
      /\ pc' \in {"preempt", "begin"} \/ (pc = "begin" /\ pc' = "idle" /\ dfStatus' = tempStatus)
  <2>1. CASE Preempt BY <2>1, SMT DEF Preempt, Loop, handshake
  <2>2. CASE Begin BY <2>2, SMT DEF Begin, Loop, handshake
  <2> QED BY <2>1, <2>2
<1>2. \A f \in Forcing : Runs(f)' => On(f)' \in Channel /\ Forced(tempStatus[On(f)])'
  <2>1. \A f \in Forcing : On(f)' \in Channel BY RuleChannel, Zenon DEF TypeOK, On
  <2>2. CASE pc' \in {"preempt", "begin"}
    <3>1. (TypeOK /\ RegInv /\ pc \in {"preempt", "begin"} =>
            \A f \in Forcing : Runs(f) => On(f) \in Channel /\ Forced(tempStatus[On(f)]))'
      BY RunsChosen, PTL
    <3> QED BY <2>2, <3>1
  <2>3. CASE pc' = "idle" /\ dfStatus' = tempStatus
    BY <1>1, <2>1, <2>3, Zenon DEF RegInv, DfExact, Forced
  <2> QED BY <1>1, <2>2, <2>3
<1>3. NotWhereRuns'
  <2> SUFFICES ASSUME NEW f \in Forcing, Runs(f)', On(f)' \in Ssr
               PROVE  diverterChannel' # SwitchTo(On(f)') /\ diverterSwitch' # SwitchTo(On(f)')
    BY Zenon DEF NotWhereRuns
  <2>1. PICK c \in Ssr : c = On(f)' OBVIOUS
  <2>2. Forced(tempStatus[c]) BY <1>1, <1>2, <2>1, Zenon DEF Forced
  <2>3. diverterSwitch = SwitchIdle BY <1>1, Zenon DEF MeterInv, NoneAsked
  <2>4. SwitchTo(On(f)') = SwitchTo(c) BY <2>1
  <2> QED BY <1>1, <2>2, <2>3, <2>4, Zenon DEF MeterInv, NotWhereChosen
<1>4. \A c \in Channel : out'[c] = "div" => out[c] = "div"
  <2>1. CASE Preempt
    <3> DEFINE F == force[dfStatus[ix]]
               c == F.rule.channel
               o == StopIo(F, out[c])
    <3>1. out' = out \/ out' = [out EXCEPT ![c] = o] BY <2>1, Zenon DEF Preempt
    <3>2. o = "div" => out[c] = "div" BY NotDivIo, Zenon
    <3> HIDE DEF o, c
    <3> QED BY <3>1, <3>2, PutIo
  <2>2. CASE Begin
    <3> DEFINE F == force[tempStatus[ix]]
               c == F.rule.channel
               o == IF IsAuto(F) THEN NextIo(Started(F), StartIo(F, out[c])) ELSE StartIo(F, out[c])
    <3>1. out' = out \/ out' = [out EXCEPT ![c] = o] BY <2>2, Zenon DEF Begin
    <3>2. o = "div" => out[c] = "div" BY NotDivIo, Zenon
    <3> HIDE DEF o, c
    <3> QED BY <3>1, <3>2, PutIo
  <2> QED BY <2>1, <2>2
<1>5. MainStep
  BY <1>1, <1>4, Zenon DEF MainStep
<1> QED BY <1>3, <1>5, MainMeter

(* The other steps of diverterNext, and the calls.                         *)
LEMMA StepMeter ==
  Configured /\ TypeOK /\ TypeOK' /\ RegInv /\ RegInv' /\ MeterInv /\ [Next]_vars => MeterInv'
<1> SUFFICES ASSUME Configured, TypeOK, TypeOK', RegInv, RegInv', MeterInv, [Next]_vars
             PROVE  MeterInv'
  OBVIOUS
<1>1. ASSUME pc \notin {"preempt", "begin"}, pc' \notin {"preempt", "begin"}, MainStep,
             \A c \in Channel : dfStatus'[c] \in Forcing => dfStatus'[c] = dfStatus[c]
      PROVE  MeterInv'
  BY <1>1, NoNewRuns, NoneStarts
<1>2. ASSUME force' = force, MainStep PROVE MeterInv'
  <2>1. \A f \in Forcing : Runs(f)' => Runs(f) /\ On(f)' = On(f) BY <1>2, Zenon DEF Runs, On
  <2> QED BY <1>2, <2>1, NoneStarts
<1>3. CASE NextBegin \/ NoStop \/ NoStart
  <2>1. /\ pc \in {"idle", "stop", "start"} /\ pc' \in {"stop", "start", "divert"}
        /\ UNCHANGED <<dfStatus, out, handshake>>
    <3>1. CASE NextBegin BY <1>3, <3>1, Zenon DEF NextBegin
    <3>2. CASE NoStop BY <1>3, <3>2, Zenon DEF NoStop, Loop, forcing
    <3>3. CASE NoStart BY <1>3, <3>3, Zenon DEF NoStart, Loop, forcing
    <3> QED BY <1>3, <3>1, <3>2, <3>3
  <2>2. MainStep BY <2>1, SMT DEF MainStep, handshake
  <2> QED BY <1>1, <2>1, <2>2
<1>4. CASE Switched
  <2>1. MainStep BY <1>4, SMT DEF Switched, MainStep, handshake, forcing
  <2>2. force' = force BY <1>4 DEF Switched, forcing
  <2> QED BY <1>2, <2>1, <2>2
<1>5. ASSUME NEW e \in BOOLEAN, StopCheck(e) PROVE MeterInv'
  <2> DEFINE F == force[tempStatus[ix]]
             c == F.rule.channel
             io == SecondIo(F, out[c])
             o == IF (StopExpr(F, e) \/ Order(F)) /\ Ends(F) THEN StopIo(F, io) ELSE io
  <2>1. /\ pc = "stop" /\ pc' \in {"stop", "start"} /\ UNCHANGED handshake
        /\ out' = [out EXCEPT ![c] = o]
        /\ dfStatus' = dfStatus \/ dfStatus' = [dfStatus EXCEPT ![ix] = Empty]
    BY <1>5, Zenon DEF StopCheck, Loop
  <2>2. o = "div" => out[c] = "div" BY NotDivIo, Zenon
  <2> HIDE DEF c, o
  <2>3. \A b \in Channel : out'[b] = "div" => out[b] = "div" BY <2>1, <2>2, PutIo
  <2>4. MainStep BY <2>1, <2>3, SMT DEF MainStep, handshake
  <2>5. \A b \in Channel : dfStatus'[b] \in Forcing => dfStatus'[b] = dfStatus[b]
    BY <2>1, Chan, Zenon DEF Forced, TypeOK
  <2> QED BY <1>1, <2>1, <2>4, <2>5
<1>6. ASSUME NEW e \in BOOLEAN, StartCheck(e) PROVE MeterInv'
  <2>1. /\ pc = "start" /\ pc' \in {"start", "divert"} /\ UNCHANGED <<handshake, out, dfStatus>>
    BY <1>6, Zenon DEF StartCheck, Loop
  <2>2. MainStep BY <2>1, SMT DEF MainStep, handshake
  <2> QED BY <1>1, <2>1, <2>2
<1>7. ASSUME NEW f \in Forcing, UNCHANGED <<handshake, tempStatus>>, pc' = pc, pc = "idle",
             out' = out \/ out' = [out EXCEPT ![force[f].rule.channel] =
                                     StopIo(force[f], out[force[f].rule.channel])],
             dfStatus' = dfStatus \/ dfStatus' = RemovedFrom(dfStatus, f)
      PROVE  MeterInv'
  <2> DEFINE c == force[f].rule.channel
             o == StopIo(force[f], out[c])
  <2>1. out' = out \/ out' = [out EXCEPT ![c] = o] BY <1>7
  <2>2. o = "div" => out[c] = "div" BY NotDivIo, Zenon
  <2> HIDE DEF c, o
  <2>3. \A b \in Channel : out'[b] = "div" => out[b] = "div" BY <2>1, <2>2, PutIo
  <2>4. MainStep BY <1>7, <2>3, SMT DEF MainStep, handshake
  <2>5. \A b \in Channel : RemovedFrom(dfStatus, f)[b] \in Forcing =>
                             RemovedFrom(dfStatus, f)[b] = dfStatus[b]
    BY Chan, Zenon DEF RemovedFrom, Forced
  <2> QED BY <1>1, <1>7, <2>4, <2>5
<1>8. ASSUME NEW f \in Forcing, NEW r \in Rules, SetRule(f, r) PROVE MeterInv'
  BY <1>7, <1>8, Zenon DEF SetRule, Invalidate
<1>9. ASSUME NEW f \in Forcing, NEW on \in BOOLEAN, Enable(f, on) PROVE MeterInv'
  BY <1>7, <1>9, Zenon DEF Enable
<1>10. ASSUME NEW f \in Forcing, Manual(f) PROVE MeterInv'
  <2>1. /\ pc \in {"idle", "switch", "cfgSwitch"} /\ pc' = pc
        /\ UNCHANGED <<handshake, out, dfStatus, tempStatus>>
    BY <1>10, Zenon DEF Manual, MainWaits
  <2>2. MainStep BY <2>1, SMT DEF MainStep, handshake, MeterInv, NoneAsked
  <2> QED BY <1>1, <2>1, <2>2
<1>11. CASE ReadCfg
  <2>1. /\ UNCHANGED <<force, out, diverterIndex, diverterChannel>> /\ pc = "idle" /\ pc' = "cfgSwitch"
        /\ diverterSwitch' \in {diverterSwitch, SwitchNone}
    BY <1>11, Zenon DEF ReadCfg, forcing
  <2>2. IndexIsChannel' /\ OnlyOneDiverts' /\ NotWhereChosen' /\ NoneAsked'
    BY <2>1, SMT DEF MeterInv, IndexIsChannel, OnlyOneDiverts, NotWhereChosen, NoneAsked
  <2>3. \A c \in Ssr : SwitchNone # SwitchTo(c) BY SMT DEF Ssr, SwitchTo, SwitchNone
  <2>4. NotWhereRuns' BY <2>1, <2>3, Zenon DEF MeterInv, NotWhereRuns, Runs, On
  <2> QED BY <2>2, <2>4 DEF MeterInv
<1>12. CASE ReadCfgEnd
  <2>1. /\ pc = "cfgSwitch" /\ diverterSwitch = SwitchIdle /\ pc' = "idle" /\ UNCHANGED handshake
        /\ dfStatus' = [c \in Channel |-> Empty]
    BY <1>12, Zenon DEF ReadCfgEnd, Load
  <2>2. \A c \in Channel : out'[c] = "div" => out[c] = "div" BY <1>12, SMT DEF ReadCfgEnd
  <2>3. MainStep BY <2>1, <2>2, SMT DEF MainStep, handshake
  <2>4. \A c \in Channel : dfStatus'[c] \notin Forcing BY <2>1, Chan, Zenon DEF Forced
  <2> QED BY <1>1, <2>1, <2>3, <2>4
<1>13. ASSUME UNCHANGED <<force, tempStatus, out, diverterSwitch, diverterChannel, diverterIndex>>,
              pc' = pc \/ (pc = "idle" /\ pc' = "sd") \/ (pc = "sd" /\ pc' = "idle")
       PROVE  MeterInv'
  <2>1. MainStep BY <1>13, SMT DEF MainStep, MeterInv, NoneAsked
  <2> QED BY <1>2, <1>13, <2>1
<1>14. CASE Toggle \/ UNCHANGED vars
  BY <1>13, <1>14, Zenon DEF Toggle, vars, forcing, handshake
<1>15. ASSUME NEW client \in Client, NEW s \in {"on", "off"}, Ask(client, s) PROVE MeterInv'
  BY <1>13, <1>15, Zenon DEF Ask, forcing, handshake
<1>16. ASSUME NEW client \in Client, AskSet(client) PROVE MeterInv'
  BY <1>13, <1>16, Zenon DEF AskSet, forcing
<1>17. ~ DefaultCfg /\ ~ WebSet /\ \A f \in Forcing, r \in Rules : ~ WebInvalidate(f, r)
  BY Zenon DEF Configured, DefaultCfg, WebSet, WebInvalidate, RegInv, AllValid
<1> QED BY <1>3, <1>4, <1>5, <1>6, <1>8, <1>9, <1>10, <1>11, <1>12, <1>14, <1>15, <1>16, <1>17,
        MeterMeter, DivertMeter, ChangeMeter DEF Next, DiverterNext, RuleResults, DivRuleResults, Users

(* On such a device the meter task never modulates an SSR a forcing runs   *)
(* on.                                                                     *)
THEOREM NeverDiverted == ASSUME Configured PROVE Spec => []NotDiverted
<1>1. MeterInv => NotDiverted
  <2> SUFFICES ASSUME MeterInv, NEW f \in Forcing, NEW c \in Ssr, RunsOn(f, c)
               PROVE  out[c] # "div"
    BY Zenon DEF NotDiverted
  <2>1. c \in Channel BY Chan
  <2> QED BY <2>1, Zenon DEF MeterInv, OnlyOneDiverts, NotWhereRuns, RunsOn, Runs, On
<1>2. Init => RegInv /\ MeterInv BY InitReg, InitMeter
<1>3. TypeOK /\ TypeOK' /\ RegInv /\ MeterInv /\ [Next]_vars => (RegInv /\ MeterInv)'
  BY StepReg, StepMeter
<1> QED BY <1>1, <1>2, <1>3, TypeCorrect, PTL DEF Spec

-----------------------------------------------------------------------------
(***************************************************************************)
(* StartsHeeded is inductive.                                              *)
(***************************************************************************)

(* tempStatus is not changed, and no start rule is checked.                *)
LEMMA KeptStarts ==
  ASSUME StartsHeeded, \A g \in Forcing : Kept(g),
         \A c \in Channel : tempStatus[c] \in Forcing => tempStatus'[c] = tempStatus[c],
         TypeOK,
         \/ pc' = pc /\ ix' = ix
         \/ pc = "stop"
         \/ pc \in {"divert", "switch", "preempt", "begin"} /\ pc' \notin {"stop", "start"}
  PROVE  StartsHeeded'
<1> SUFFICES ASSUME NEW f \in Forcing, Is(force[f], "START_RULE")'
             PROVE  /\ pc' # "stop" /\ (pc' = "start" => f < ix')
                    /\ pc' \in {"start", "divert", "switch", "preempt", "begin"} =>
                         tempStatus'[On(f)'] <= f
  BY Zenon DEF StartsHeeded
<1>1. Is(force[f], "START_RULE") /\ On(f)' = On(f) BY Zenon DEF Kept
<1>2. /\ pc # "stop" /\ (pc = "start" => f < ix)
      /\ pc \in {"start", "divert", "switch", "preempt", "begin"} => tempStatus[On(f)] <= f
  BY <1>1, Zenon DEF StartsHeeded
<1>3. On(f) \in Channel BY OnChannel
<1>4. tempStatus[On(f)] <= f => tempStatus'[On(f)] = tempStatus[On(f)]
  <2>1. tempStatus[On(f)] \in Usage BY <1>3, Zenon DEF TypeOK
  <2> QED BY <1>3, <2>1, Chan, SMT DEF Usage, Diverting, Empty
<1> QED BY <1>1, <1>2, <1>4, Zenon

LEMMA StartStarts ==
  ASSUME TypeOK, StartsHeeded, NEW e \in BOOLEAN, StartCheck(e) PROVE StartsHeeded'
<1>1. PICK i \in Forcing : i = ix /\ pc = "start" BY Chan, SMT DEF StartCheck, TypeOK
<1> DEFINE F == force[i]
           expr   == Is(F, "VALID") /\ F.on /\ e
           manual == Is(F, "MANUAL_ORDER") /\ ~ Is(F, "RUNNING")
           true   == (expr /\ ~ Is(F, "DMAX_WAITING")) \/ manual
           s == (F.status \ ((IF expr THEN {} ELSE {"DMAX_WAITING"}) \cup
                             (IF manual THEN {"MANUAL_ORDER"} ELSE {})))
                \cup (IF true THEN {"START_RULE"} ELSE {})
           G == [F EXCEPT !.status = s]
           c0 == F.rule.channel
<1>2. /\ force' = [force EXCEPT ![i] = G]
      /\ tempStatus' = [tempStatus EXCEPT ![c0] = IF true THEN Override(tempStatus[c0], i)
                                                  ELSE tempStatus[c0]]
  BY <1>1, Zenon DEF StartCheck
<1>3. \/ pc' = "start" /\ ix' = i + 1
      \/ pc' = "divert"
  BY <1>1, Zenon DEF StartCheck, Loop
<1>4. F \in ForceRule /\ c0 \in Channel BY OnChannel DEF On
<1>5. F.status \in SUBSET Status BY <1>4, SMT DEF ForceRule
<1>6. s \in SUBSET Status BY <1>5, SMT DEF Status
<1>7. "START_RULE" \in s => "START_RULE" \in F.status \/ true BY Zenon
<1>8. ~ Is(F, "START_RULE") BY <1>1, SMT DEF StartsHeeded, Forcing
<1> HIDE DEF F, s, true
<1>9. G.rule = F.rule /\ G.status = s BY <1>4, <1>6, PutStatus
<1>10. \A g \in Forcing : force'[g] = IF g = i THEN G ELSE force[g] BY <1>2, Zenon DEF TypeOK
<1>11. \A g \in Forcing : /\ On(g)' = On(g)
                          /\ Is(force[g], "START_RULE")' =>
                               Is(force[g], "START_RULE") \/ (g = i /\ true)
  BY <1>7, <1>9, <1>10, Zenon DEF On, Is, F
<1>12. On(i) = c0 BY DEF On, F
<1> HIDE DEF c0
<1>13. \A c \in Channel : tempStatus[c] \in Nat BY UsageOrder
<1>14. \A c \in Channel : /\ tempStatus'[c] <= tempStatus[c]
                          /\ c = c0 /\ true => tempStatus'[c] <= i
  BY <1>2, <1>4, <1>13, Chan, SMT DEF Override, TypeOK
<1>15. \A c \in Channel : tempStatus'[c] \in Nat
  BY <1>2, <1>4, <1>13, Chan, SMT DEF Override, TypeOK
<1> SUFFICES ASSUME NEW f \in Forcing, Is(force[f], "START_RULE")'
             PROVE  f < i + 1 /\ tempStatus'[On(f)'] <= f
  BY <1>3, Zenon DEF StartsHeeded
<1>16. On(f) \in Channel /\ On(f)' = On(f) BY <1>11, OnChannel
<1>17. CASE f = i /\ true BY <1>12, <1>14, <1>16, <1>17, Chan, SMT
<1>18. CASE Is(force[f], "START_RULE")
  <2>1. f < i /\ tempStatus[On(f)] <= f BY <1>1, <1>18, Zenon DEF StartsHeeded
  <2>2. tempStatus'[On(f)] <= tempStatus[On(f)] BY <1>14, <1>16
  <2> QED BY <1>13, <1>15, <1>16, <2>1, <2>2, Chan, SMT
<1> QED BY <1>11, <1>17, <1>18

LEMMA StepStarts ==
  Configured /\ TypeOK /\ RegInv /\ StartsHeeded /\ [Next]_vars => StartsHeeded'
<1> SUFFICES ASSUME Configured, TypeOK, RegInv, StartsHeeded, [Next]_vars PROVE StartsHeeded'
  OBVIOUS
<1>1. ASSUME pc' \in {"idle", "cfgSwitch", "sd"} PROVE StartsHeeded'
  BY <1>1, SMT DEF StartsHeeded
<1>2. force' = force => \A g \in Forcing : Kept(g) BY Zenon DEF Kept, On
<1>3. CASE NextBegin
  <2>1. \A f \in Forcing : ~ Is(force[f], "START_RULE")'
    <3> SUFFICES ASSUME NEW f \in Forcing PROVE ~ Is(force[f], "START_RULE")' OBVIOUS
    <3> DEFINE F == force[f]
               s == F.status \ {"START_RULE", "STOP_RULE"}
               G == [F EXCEPT !.status = s]
    <3>1. force'[f] = G BY <1>3, Zenon DEF NextBegin
    <3>2. F \in ForceRule BY OnChannel
    <3>3. F.status \in SUBSET Status BY <3>2, SMT DEF ForceRule
    <3>4. s \in SUBSET Status /\ "START_RULE" \notin s BY <3>3, SMT
    <3> HIDE DEF F, s
    <3>5. G.status = s BY <3>2, <3>4, PutStatus
    <3> QED BY <3>1, <3>4, <3>5, Zenon DEF Is
  <2> QED BY <2>1, Zenon DEF StartsHeeded
<1>4. CASE NoStop
  <2>1. pc = "stop" /\ force' = force /\ tempStatus' = tempStatus BY <1>4, Zenon DEF NoStop, forcing
  <2> QED BY <1>2, <2>1, KeptStarts
<1>5. CASE NoStart
  <2>1. /\ pc = "start" /\ ((pc' = "start" /\ ix' = ix + 1) \/ pc' = "divert")
        /\ force' = force /\ tempStatus' = tempStatus
    BY <1>5, Zenon DEF NoStart, Loop, forcing
  <2>2. \A f \in Forcing : On(f)' = On(f) BY <2>1 DEF On
  <2> QED BY <2>1, <2>2, Chan, SMT DEF StartsHeeded, TypeOK
<1>6. CASE Switched
  <2>1. pc = "switch" /\ pc' = "preempt" /\ force' = force /\ tempStatus' = tempStatus
    BY <1>6, Zenon DEF Switched, forcing
  <2> QED BY <1>2, <2>1, KeptStarts
<1>7. CASE Preempt
  <2>1. pc = "preempt" /\ pc' \in {"preempt", "begin"} /\ tempStatus' = tempStatus
    BY <1>7, Zenon DEF Preempt, Loop
  <2> QED BY <1>7, <2>1, PreemptReg, KeptStarts
<1>8. CASE Begin
  <2>1. pc = "begin" /\ pc' \in {"begin", "idle"} /\ tempStatus' = tempStatus
    BY <1>8, Zenon DEF Begin, Loop
  <2> QED BY <1>8, <2>1, BeginReg, KeptStarts
<1>9. ASSUME NEW e \in BOOLEAN, StopCheck(e) PROVE StartsHeeded'
  <2>1. pc = "stop" BY <1>9, Zenon DEF StopCheck
  <2>2. \A f \in Forcing : ~ Is(force[f], "START_RULE") BY <2>1, Zenon DEF StartsHeeded
  <2>3. \A f \in Forcing : ~ Is(force[f], "START_RULE")' BY <1>9, <2>2, StopReg, Zenon DEF Kept
  <2> QED BY <2>3, Zenon DEF StartsHeeded
<1>10. ASSUME NEW d \in [Ssr -> BOOLEAN], Divert(d) PROVE StartsHeeded'
  <2>1. pc = "divert" /\ force' = force BY <1>10, Zenon DEF Divert
  <2>2. pc' \in {"switch", "preempt"} BY <1>10, Zenon DEF Divert, ChangeTo
  <2>3. \A c \in Channel : tempStatus[c] \in Forcing => tempStatus'[c] = tempStatus[c]
    BY <1>10, Zenon DEF Divert, Forced
  <2> QED BY <1>2, <2>1, <2>2, <2>3, KeptStarts
<1>11. ASSUME NEW f \in Forcing, Manual(f) PROVE StartsHeeded'
  <2>1. UNCHANGED <<pc, ix, tempStatus>> BY <1>11, Zenon DEF Manual
  <2> QED BY <1>11, <2>1, ManualReg, KeptStarts
<1>12. ASSUME UNCHANGED <<force, tempStatus, pc, ix>> PROVE StartsHeeded'
  BY <1>2, <1>12, KeptStarts
<1>13. CASE Meter \/ UNCHANGED vars
  BY <1>12, <1>13, Zenon DEF Meter, vars, forcing
<1>14. CASE ReadCfg \/ ReadCfgEnd \/ Toggle
  BY <1>1, <1>14, Zenon DEF ReadCfg, ReadCfgEnd, Toggle
<1>15. ASSUME NEW client \in Client, NEW s \in {"on", "off"}, Ask(client, s) PROVE StartsHeeded'
  BY <1>1, <1>12, <1>15, Zenon DEF Ask, forcing
<1>16. ASSUME NEW client \in Client, AskSet(client) PROVE StartsHeeded'
  BY <1>1, <1>12, <1>16, Zenon DEF AskSet, forcing
<1>17. ASSUME NEW f \in Forcing, NEW r \in Rules, SetRule(f, r) PROVE StartsHeeded'
  BY <1>1, <1>17, Zenon DEF SetRule
<1>18. ASSUME NEW f \in Forcing, NEW on \in BOOLEAN, Enable(f, on) PROVE StartsHeeded'
  BY <1>1, <1>18, Zenon DEF Enable
<1>19. ~ DefaultCfg /\ ~ WebSet /\ \A f \in Forcing, r \in Rules : ~ WebInvalidate(f, r)
  BY Zenon DEF Configured, DefaultCfg, WebSet, WebInvalidate, RegInv, AllValid
<1> QED BY <1>3, <1>4, <1>5, <1>6, <1>7, <1>8, <1>9, <1>10, <1>11, <1>13, <1>14, <1>15, <1>16,
        <1>17, <1>18, <1>19, StartStarts DEF Next, DiverterNext, RuleResults, DivRuleResults, Users

(* On such a device, every forcing whose start rule is true has its        *)
(* channel when the forcings are started, or one of higher priority has.   *)
THEOREM HighestIsFirst == ASSUME Configured PROVE Spec => []HighestFirst
<1>1. StartsHeeded => HighestFirst BY Zenon DEF StartsHeeded, HighestFirst, On
<1>2. Init => RegInv /\ StartsHeeded
  <2>1. Init => StartsHeeded BY SMT DEF Init, StartsHeeded
  <2> QED BY <2>1, InitReg
<1>3. TypeOK /\ RegInv /\ StartsHeeded /\ [Next]_vars => (RegInv /\ StartsHeeded)'
  BY StepReg, StepStarts
<1> QED BY <1>1, <1>2, <1>3, TypeCorrect, PTL DEF Spec

-----------------------------------------------------------------------------
(***************************************************************************)
(* What the operations on one forcing do to the fields that the outputs    *)
(* and the delays depend on.                                               *)
(***************************************************************************)

(* The fields of a forcing that its status does not hold.                  *)
SameCounts(F, G) ==
  /\ G \in ForceRule /\ G.rule = F.rule /\ G.autoState = F.autoState
  /\ G.delayCount = F.delayCount /\ G.counter = F.counter /\ G.kfCounter = F.kfCounter

(* A change of the status alone.                                           *)
LEMMA StatusCounts ==
  ASSUME NEW F \in ForceRule, NEW s \in SUBSET Status
  PROVE  LET G == [F EXCEPT !.status = s] IN SameCounts(F, G) /\ G.status = s
<1>1. LET G == [F EXCEPT !.status = s]
      IN  /\ G.autoState = F.autoState /\ G.delayCount = F.delayCount
          /\ G.counter = F.counter /\ G.kfCounter = F.kfCounter
  BY SMT DEF ForceRule
<1> QED BY <1>1, PutStatus DEF SameCounts

(* A forcing that is stopped is at rest.                                   *)
LEMMA StoppedRests ==
  ASSUME NEW F \in ForceRule, Fit(F) PROVE Fit(Stopped(F))
<1>1. Stopped(F).rule = F.rule /\ Stopped(F) \in ForceRule BY StoppedSame DEF Same
<1>2. Stopped(F).autoState = "IDLE"
  <2>1. CASE ~ Is(F, "RUNNING") BY <2>1 DEF Stopped, Fit
  <2>2. CASE Is(F, "RUNNING") /\ IsAuto(F) BY <2>2, SMT DEF Stopped, ForceRule
  <2>3. CASE Is(F, "RUNNING") /\ ~ IsAuto(F)
    <3>1. F.autoState = "IDLE" BY <2>3 DEF Fit
    <3> QED BY <2>3, <3>1, SMT DEF Stopped, ForceRule
  <2> QED BY <2>1, <2>2, <2>3
<1> QED BY <1>1, <1>2 DEF Fit, IsStd

(* What a second does to a forcing whose stop rule is checked.             *)
LEMMA SecondIs ==
  ASSUME NEW F \in ForceRule, Is(F, "VALID")
  PROVE  LET G == Second(F) IN
         /\ G.autoState = F.autoState /\ G.kfCounter = F.kfCounter
         /\ G.delayCount = IF Counting(F) THEN F.delayCount - 1 ELSE F.delayCount
         /\ ~ F.rule.burst => G.counter = F.counter
         /\ Is(G, "BURST_ON") <=> IF PhaseEnds(F) THEN ~ Is(F, "BURST_ON") ELSE Is(F, "BURST_ON")
<1> DEFINE n == IF ~ Bursts(F) THEN F.counter
                ELSE IF F.counter # 1 THEN Decr(F.counter)
                ELSE IF PhaseEnds(F) /\ Is(F, "BURST_ON") THEN Period - F.rule.ratio
                ELSE F.rule.ratio
           d == IF Counting(F) THEN F.delayCount - 1 ELSE F.delayCount
           s == IF ~ PhaseEnds(F) THEN F.status
                ELSE IF Is(F, "BURST_ON") THEN F.status \ {"BURST_ON"}
                     ELSE F.status \cup {"BURST_ON"}
           G == [F EXCEPT !.delayCount = d, !.counter = n, !.status = s]
<1>1. Second(F) = G BY Zenon DEF Second
<1>2. "BURST_ON" \in s <=> IF PhaseEnds(F) THEN ~ Is(F, "BURST_ON") ELSE Is(F, "BURST_ON")
  BY Zenon DEF Is
<1>3. ~ F.rule.burst => n = F.counter BY DEF Bursts
<1> HIDE DEF n, d, s
<1>4. /\ G.autoState = F.autoState /\ G.kfCounter = F.kfCounter
      /\ G.delayCount = d /\ G.counter = n /\ G.status = s
  BY SMT DEF ForceRule
<1> HIDE DEF G
<1> QED BY <1>1, <1>2, <1>3, <1>4 DEF Is, d

(* The result of the stop rule goes into the status.                       *)
LEMMA ToldCounts ==
  ASSUME NEW F \in ForceRule, NEW G \in ForceRule
  PROVE  /\ SameCounts(G, Told(F, G))
         /\ Is(Told(F, G), "BURST_ON") <=> Is(G, "BURST_ON")
<1> DEFINE s == (G.status \cup {"STOP_RULE"}) \ (IF Served(F) THEN {"MANUAL_ORDER"} ELSE {})
<1>1. G.status \in SUBSET Status BY SMT DEF ForceRule
<1>2. s \in SUBSET Status BY <1>1, SMT DEF Status
<1>3. Told(F, G) = [G EXCEPT !.status = s] BY Zenon DEF Told
<1>4. "BURST_ON" \in s <=> "BURST_ON" \in G.status BY SMT
<1> HIDE DEF s
<1> QED BY <1>2, <1>3, <1>4, StatusCounts DEF Is

(* A forcing of a standard rule is started with its delay and its burst.   *)
LEMMA StdStartedIs ==
  ASSUME NEW F \in ForceRule, ~ Is(F, "RUNNING"), ~ IsAuto(F)
  PROVE  LET G == Started(F) IN
         /\ G.autoState = F.autoState /\ G.delayCount = F.rule.delay
         /\ F.rule.burst => Is(G, "BURST_ON")
<1> DEFINE n == IF F.rule.burst THEN F.rule.ratio ELSE F.counter
           s == IF F.rule.burst THEN F.status \cup {"BURST_ON"} ELSE F.status
           A == [F EXCEPT !.delayCount = F.rule.delay, !.counter = n, !.status = s]
           t == A.status \cup {"RUNNING"}
           G == [A EXCEPT !.status = t]
<1>1. Started(F) = G BY Zenon DEF Started, StdStarted
<1>2. A.autoState = F.autoState /\ A.delayCount = F.rule.delay /\ A.status = s
  <2> HIDE DEF n, s
  <2> QED BY SMT DEF ForceRule
<1>3. A \in ForceRule BY StdStartedSame, Zenon DEF StdStarted
<1>4. F.rule.burst => "BURST_ON" \in t BY <1>2
<1> HIDE DEF A
<1>5. A.status \in SUBSET Status BY <1>3, SMT DEF ForceRule
<1>6. t \in SUBSET Status BY <1>5, SMT DEF Status
<1> HIDE DEF t
<1>7. SameCounts(A, G) /\ G.status = t BY <1>3, <1>6, StatusCounts
<1> HIDE DEF G
<1> QED BY <1>1, <1>2, <1>4, <1>7 DEF SameCounts, Is

(* The automaton is started in MIN_ON if the start rule is true.           *)
LEMMA AutoStartedIs ==
  ASSUME NEW F \in ForceRule, ~ Is(F, "RUNNING"), IsAuto(F), F.autoState = "IDLE"
  PROVE  LET G == Started(F) IN
         /\ G.kfCounter = F.rule.autoKf
         /\ IF Is(F, "START_RULE") THEN G.autoState = "MIN_ON" /\ G.counter = F.rule.autoOn
                                   ELSE G.autoState = "OFF"
<1> DEFINE A == AutoStarted(F)
           t == A.status \cup {"RUNNING"}
           G == [A EXCEPT !.status = t]
<1>1. Started(F) = G BY Zenon DEF Started
<1>2. A \in ForceRule BY AutoStartedSame
<1>3. /\ A.kfCounter = F.rule.autoKf
      /\ IF Is(F, "START_RULE") THEN A.autoState = "MIN_ON" /\ A.counter = F.rule.autoOn
                                ELSE A.autoState = "OFF"
  <2>1. CASE Is(F, "START_RULE") BY <2>1, SMT DEF AutoStarted, ForceRule
  <2>2. CASE ~ Is(F, "START_RULE") BY <2>2, SMT DEF AutoStarted, ForceRule
  <2> QED BY <2>1, <2>2
<1> HIDE DEF A
<1>4. A.status \in SUBSET Status BY <1>2, SMT DEF ForceRule
<1>5. t \in SUBSET Status BY <1>4, SMT DEF Status
<1> HIDE DEF t
<1>6. SameCounts(A, G) BY <1>2, <1>5, StatusCounts
<1> HIDE DEF G
<1> QED BY <1>1, <1>3, <1>6 DEF SameCounts

(* One step of the automaton.                                              *)
LEMMA AutoNextIs ==
  ASSUME NEW F \in ForceRule, F.autoState # "IDLE"
  PROVE  LET G == AutoNext(F) IN
         /\ G.status = F.status
         /\ IF GoesOff(F) THEN /\ G.autoState = "MIN_OFF" /\ G.counter = F.rule.autoOff
                               /\ G.kfCounter = F.rule.autoKf
            ELSE IF GoesOn(F) THEN /\ G.autoState = "MIN_ON" /\ G.counter = F.rule.autoOn
                                   /\ G.kfCounter = F.rule.autoKf
            ELSE LET waits == F.autoState \in {"MIN_ON", "MIN_OFF"} IN
                 /\ G.kfCounter = KfCount(F, Awaited(F))
                 /\ G.counter = IF waits THEN Decr(F.counter) ELSE F.counter
                 /\ G.autoState = IF waits /\ F.counter = 1
                                  THEN IF F.autoState = "MIN_ON" THEN "ON" ELSE "OFF"
                                  ELSE F.autoState
<1>1. CASE GoesOff(F) BY <1>1, SMT DEF AutoNext, ForceRule
<1>2. CASE ~ GoesOff(F) /\ GoesOn(F) BY <1>2, SMT DEF AutoNext, ForceRule
<1>3. CASE ~ GoesOff(F) /\ ~ GoesOn(F)
  <2> DEFINE waits == F.autoState \in {"MIN_ON", "MIN_OFF"}
             m == KfCount(F, Awaited(F))
             n == IF waits THEN Decr(F.counter) ELSE F.counter
             a == IF waits /\ F.counter = 1
                  THEN IF F.autoState = "MIN_ON" THEN "ON" ELSE "OFF" ELSE F.autoState
             G == [F EXCEPT !.kfCounter = m, !.counter = n, !.autoState = a]
  <2>1. AutoNext(F) = G BY <1>3, Zenon DEF AutoNext
  <2> HIDE DEF m, n, a
  <2>2. G.status = F.status /\ G.kfCounter = m /\ G.counter = n /\ G.autoState = a
    BY SMT DEF ForceRule
  <2> HIDE DEF G
  <2> QED BY <1>3, <2>1, <2>2 DEF m, n, a
<1> QED BY <1>1, <1>2, <1>3

-----------------------------------------------------------------------------
(***************************************************************************)
(* OutInv is inductive: what is on, and what is driven.                    *)
(***************************************************************************)

(* A forcing that changes from F to H, its output from o to p.             *)
Move(F, o, H, p) ==
  /\ H \in ForceRule /\ (Is(H, "RUNNING") => H.rule = F.rule) /\ Fit(H)
  /\ p = "on" => Driving(H) \/ (o = "on" /\ ~ Driving(F))
  /\ Driving(H) /\ (Driving(F) => o = "on") => p = "on"
  /\ ~ Is(F, "RUNNING") /\ ~ Is(H, "RUNNING") => p = o

(* No two forcings run on one channel.                                     *)
LEMMA Alone ==
  TypeOK /\ RegInv => \A g, h \in Forcing : Runs(g) /\ Runs(h) /\ On(g) = On(h) => g = h
<1> SUFFICES ASSUME TypeOK, RegInv, NEW g \in Forcing, NEW h \in Forcing,
                    Runs(g), Runs(h), On(g) = On(h)
             PROVE  g = h
  OBVIOUS
<1>1. PICK c \in Channel : c = On(g) BY OnChannel
<1>2. CASE pc = "preempt" BY <1>1, <1>2, Zenon DEF RegInv, Displaced
<1>3. CASE pc = "begin" BY <1>1, <1>3, Zenon DEF RegInv, Chosen
<1>4. CASE pc \notin {"preempt", "begin"} BY <1>1, <1>4, Zenon DEF RegInv, DfExact
<1> QED BY <1>2, <1>3, <1>4

(* ... and neither after the step.                                         *)
LEMMA AloneNext ==
  (TypeOK /\ RegInv => \A g, h \in Forcing : Runs(g) /\ Runs(h) /\ On(g) = On(h) => g = h)'
  BY Alone, PTL

(* A step that moves one forcing keeps OutInv.                             *)
LEMMA MoveOut ==
  ASSUME TypeOK, TypeOK', RegInv, RegInv', OutInv, NEW f \in Forcing, NEW H, NEW p,
         force' = [force EXCEPT ![f] = H], out' = [out EXCEPT ![On(f)] = p],
         Move(force[f], out[On(f)], H, p)
  PROVE  OutInv'
<1>1. \A g \in Forcing : force'[g] = IF g = f THEN H ELSE force[g] BY Zenon DEF TypeOK
<1>2. /\ On(f) \in Channel
      /\ \A c \in Channel : out'[c] = IF c = On(f) THEN p ELSE out[c]
  BY OnChannel, Zenon DEF TypeOK
<1>3. \A g \in Forcing : g # f => On(g)' = On(g) /\ (Runs(g)' <=> Runs(g))
  BY <1>1, Zenon DEF On, Runs
<1>4. /\ Runs(f)' <=> Is(H, "RUNNING")
      /\ Runs(f)' => On(f)' = On(f)
  BY <1>1, Zenon DEF On, Runs, Move
<1>5. \A g \in Forcing : g # f /\ Runs(g) /\ On(g) = On(f) => ~ Runs(f) /\ ~ Runs(f)'
  <2>1. \A g, h \in Forcing : Runs(g) /\ Runs(h) /\ On(g) = On(h) => g = h BY Alone
  <2>3. \A g, h \in Forcing : Runs(g)' /\ Runs(h)' /\ On(g)' = On(h)' => g = h
    BY AloneNext, Zenon
  <2> QED BY <1>3, <1>4, <2>1, <2>3, Zenon
<1>6. Driving(H) => Is(H, "RUNNING") BY DEF Driving
<1>7. AllFit' BY <1>1, Zenon DEF OutInv, AllFit, Move
<1>8. OnIsDriven'
  <2> SUFFICES ASSUME NEW c \in Channel, out'[c] = "on"
               PROVE  \E g \in Forcing : Runs(g)' /\ On(g)' = c /\ Driving(force'[g])
    BY Zenon DEF OnIsDriven
  <2>1. CASE c = On(f) /\ Driving(H) BY <1>1, <1>4, <1>6, <2>1, Zenon
  <2>2. CASE c = On(f) /\ ~ Driving(H)
    <3>1. out[c] = "on" /\ ~ Driving(force[f]) BY <1>2, <2>2, Zenon DEF Move
    <3>2. PICK g \in Forcing : Runs(g) /\ On(g) = c /\ Driving(force[g])
      BY <3>1, Zenon DEF OutInv, OnIsDriven
    <3>3. g # f BY <3>1, <3>2
    <3> QED BY <1>1, <1>3, <3>2, <3>3, Zenon
  <2>3. CASE c # On(f)
    <3>1. PICK g \in Forcing : Runs(g) /\ On(g) = c /\ Driving(force[g])
      BY <1>2, <2>3, Zenon DEF OutInv, OnIsDriven
    <3>2. g # f BY <2>3, <3>1
    <3> QED BY <1>1, <1>3, <3>1, <3>2, Zenon
  <2> QED BY <2>1, <2>2, <2>3
<1>9. DrivenIsOn'
  <2> SUFFICES ASSUME NEW g \in Forcing, Runs(g)', On(g)' \notin Ssr, Driving(force'[g])
               PROVE  out'[On(g)'] = "on"
    BY Zenon DEF DrivenIsOn
  <2>1. CASE g = f
    <3>1. Driving(H) /\ On(f)' = On(f) /\ On(f) \notin Ssr BY <1>1, <1>4, <2>1
    <3>2. Driving(force[f]) => out[On(f)] = "on"
      BY <3>1, Zenon DEF OutInv, DrivenIsOn, Driving, Runs
    <3>3. p = "on" BY <3>1, <3>2, Zenon DEF Move
    <3> QED BY <1>2, <2>1, <3>1, <3>3
  <2>2. CASE g # f
    <3>1. Runs(g) /\ On(g)' = On(g) /\ Driving(force[g]) BY <1>1, <1>3, <2>2
    <3>2. out[On(g)] = "on" /\ On(g) \in Channel
      BY <3>1, OnChannel, Zenon DEF OutInv, DrivenIsOn
    <3>3. On(g) = On(f) => p = out[On(f)]
      BY <1>4, <1>5, <2>2, <3>1, Zenon DEF Move, Runs
    <3> QED BY <1>2, <3>1, <3>2, <3>3
  <2> QED BY <2>1, <2>2
<1> QED BY <1>7, <1>8, <1>9 DEF OutInv

(* The forcings in the same phase, no output switched on, no relay off.    *)
LEMMA QuietOut ==
  ASSUME OutInv,
         \A g \in Forcing : /\ On(g)' = On(g) /\ (Runs(g)' <=> Runs(g)) /\ Fit(force'[g])
                            /\ Driving(force'[g]) <=> Driving(force[g]),
         \A c \in Channel : out'[c] = "on" => out[c] = "on",
         \A g \in Forcing : On(g) \notin Ssr => out'[On(g)] = out[On(g)]
  PROVE  OutInv'
<1>1. AllFit' BY Zenon DEF AllFit
<1>2. OnIsDriven'
  <2> SUFFICES ASSUME NEW c \in Channel, out'[c] = "on"
               PROVE  \E g \in Forcing : Runs(g)' /\ On(g)' = c /\ Driving(force'[g])
    BY Zenon DEF OnIsDriven
  <2> QED BY Zenon DEF OutInv, OnIsDriven
<1>3. DrivenIsOn'
  <2> SUFFICES ASSUME NEW g \in Forcing, Runs(g)', On(g)' \notin Ssr, Driving(force'[g])
               PROVE  out'[On(g)'] = "on"
    BY Zenon DEF DrivenIsOn
  <2> QED BY Zenon DEF OutInv, DrivenIsOn
<1> QED BY <1>1, <1>2, <1>3 DEF OutInv

(* A forcing of which the output does not depend on what changes.          *)
SamePhase(F, H) ==
  /\ H.rule = F.rule /\ H.autoState = F.autoState
  /\ (Is(H, "RUNNING") <=> Is(F, "RUNNING")) /\ (Is(H, "BURST_ON") <=> Is(F, "BURST_ON"))

(* ... then it drives its output if it did.                                *)
LEMMA PhaseIs == ASSUME NEW F, NEW H, SamePhase(F, H)
                 PROVE  (Driving(H) <=> Driving(F)) /\ (Fit(F) => Fit(H))
  BY Zenon DEF SamePhase, Driving, Fit, IsStd, IsAuto

(* forceStop.                                                              *)
LEMMA StopMove ==
  ASSUME NEW F \in ForceRule, Fit(F), NEW o PROVE Move(F, o, Stopped(F), StopIo(F, o))
<1>1. /\ Stopped(F) \in ForceRule /\ Stopped(F).rule = F.rule /\ ~ Is(Stopped(F), "RUNNING")
      /\ Fit(Stopped(F)) /\ ~ Driving(Stopped(F))
  BY StoppedSame, StoppedRests DEF Same, Driving
<1>2. CASE Is(F, "RUNNING")
  <2>1. StopIo(F, o) = "off" BY <1>2 DEF StopIo
  <2> QED BY <1>1, <1>2, <2>1 DEF Move
<1>3. CASE ~ Is(F, "RUNNING")
  <2>1. StopIo(F, o) = o /\ ~ Driving(F) BY <1>3 DEF StopIo, Driving
  <2> QED BY <1>1, <2>1, Zenon DEF Move
<1> QED BY <1>2, <1>3

(* The check of the stop rule of a forcing that runs.                      *)
LEMMA SecondMove ==
  ASSUME NEW F \in ForceRule, Fit(F), Is(F, "VALID"), Is(F, "RUNNING"), NEW o
  PROVE  LET G == Second(F)
             T == Told(F, G)
         IN /\ Move(F, o, G, SecondIo(F, o)) /\ Move(F, o, T, SecondIo(F, o))
            /\ Move(F, o, Stopped(T), StopIo(F, SecondIo(F, o)))
<1> DEFINE G == Second(F)
           T == Told(F, G)
           io == SecondIo(F, o)
<1>1. /\ G \in ForceRule /\ G.rule = F.rule /\ Is(G, "RUNNING") /\ G.autoState = F.autoState
      /\ Is(G, "BURST_ON") <=> IF PhaseEnds(F) THEN ~ Is(F, "BURST_ON") ELSE Is(F, "BURST_ON")
  BY SecondSame, SecondIs, Zenon DEF Same
<1>2. io = IF PhaseEnds(F) THEN IF Is(F, "BURST_ON") THEN "off" ELSE "on" ELSE o
  BY Zenon DEF SecondIo
<1>3. PhaseEnds(F) => F.rule.burst /\ ~ IsAuto(F) BY DEF PhaseEnds, Bursts, Fit, IsStd, IsAuto
<1> HIDE DEF G, io
<1>4. T \in ForceRule /\ SamePhase(G, T)
  BY <1>1, ToldSame, ToldCounts, Zenon DEF Same, SameCounts, SamePhase
<1> HIDE DEF T
<1>5. Fit(G) BY <1>1, Zenon DEF Fit, IsStd, IsAuto
<1>6. Fit(T) /\ (Driving(T) <=> Driving(G)) /\ Is(T, "RUNNING") /\ T.rule = F.rule
  BY <1>1, <1>4, <1>5, PhaseIs, Zenon DEF SamePhase
<1>7. /\ io = "on" => Driving(G) \/ (o = "on" /\ ~ Driving(F))
      /\ Driving(G) /\ (Driving(F) => o = "on") => io = "on"
  <2>1. CASE PhaseEnds(F)
    <3>1. (Driving(G) <=> Is(G, "BURST_ON")) /\ (Driving(F) <=> Is(F, "BURST_ON"))
      BY <1>1, <1>3, <2>1, Zenon DEF Driving, IsAuto
    <3> QED BY <1>1, <1>2, <2>1, <3>1
  <2>2. CASE ~ PhaseEnds(F)
    <3>1. Driving(G) <=> Driving(F) BY <1>1, <2>2, Zenon DEF Driving, IsAuto
    <3> QED BY <1>2, <2>2, <3>1
  <2> QED BY <2>1, <2>2
<1>8. Move(F, o, G, io) BY <1>1, <1>5, <1>7 DEF Move
<1>9. Move(F, o, T, io) BY <1>4, <1>6, <1>7 DEF Move
<1>10. Move(F, o, Stopped(T), StopIo(F, io))
  <2>1. /\ Stopped(T) \in ForceRule /\ Stopped(T).rule = T.rule /\ ~ Driving(Stopped(T))
        /\ Fit(Stopped(T))
    BY <1>4, <1>6, StoppedSame, StoppedRests DEF Same, Driving
  <2>2. StopIo(F, io) = "off" BY DEF StopIo
  <2> QED BY <1>6, <2>1, <2>2 DEF Move
<1> QED BY <1>8, <1>9, <1>10 DEF G, T, io

(* forceStart.                                                             *)
LEMMA StartMove ==
  ASSUME NEW F \in ForceRule, Fit(F), NEW o
  PROVE  Move(F, o, Started(F), StartIo(F, o))
<1> DEFINE S == Started(F)
           p == StartIo(F, o)
<1>1. S \in ForceRule /\ S.rule = F.rule /\ Is(S, "RUNNING") BY StartedSame DEF Same
<1>2. CASE Is(F, "RUNNING")
  <2>1. S = F /\ p = o BY <1>2, Zenon DEF Started, StartIo
  <2> QED BY <1>2, <2>1, Zenon DEF Move
<1>3. CASE ~ Is(F, "RUNNING") /\ ~ IsAuto(F)
  <2>1. p = "on" BY <1>3, Zenon DEF StartIo
  <2>2. /\ S.autoState = F.autoState /\ F.autoState = "IDLE"
        /\ F.rule.burst => Is(S, "BURST_ON")
    BY <1>3, StdStartedIs DEF Fit
  <2> HIDE DEF S, p
  <2>3. Driving(S) /\ Fit(S) BY <1>1, <1>3, <2>2, Zenon DEF Driving, Fit, IsAuto, IsStd
  <2> QED BY <1>1, <2>1, <2>3 DEF Move, S, p
<1>4. CASE ~ Is(F, "RUNNING") /\ IsAuto(F)
  <2>1. F.autoState = "IDLE" /\ ~ F.rule.burst /\ ~ Driving(F)
    BY <1>4 DEF Fit, IsAuto, IsStd, Driving
  <2>2. p = IF Is(F, "START_RULE") THEN "on" ELSE o BY <1>4, <2>1, Zenon DEF StartIo
  <2>3. S.autoState = IF Is(F, "START_RULE") THEN "MIN_ON" ELSE "OFF"
    BY <1>4, <2>1, AutoStartedIs
  <2> HIDE DEF S, p
  <2>4. Fit(S) /\ (Driving(S) <=> Is(F, "START_RULE"))
    BY <1>1, <1>4, <2>1, <2>3 DEF Driving, Fit, IsAuto, IsStd
  <2> QED BY <1>1, <2>1, <2>2, <2>4 DEF Move, S, p
<1> QED BY <1>2, <1>3, <1>4

(* forceAutoNext.                                                          *)
LEMMA NextMove ==
  ASSUME NEW F \in ForceRule, Fit(F), Is(F, "RUNNING"), IsAuto(F), NEW o
  PROVE  Move(F, o, AutoNext(F), NextIo(F, o)) /\ Is(AutoNext(F), "RUNNING")
<1> DEFINE G == AutoNext(F)
           p == NextIo(F, o)
<1>1. G \in ForceRule /\ G.rule = F.rule /\ Is(G, "RUNNING") BY AutoNextSame DEF Same
<1>2. ~ F.rule.burst BY DEF Fit, IsAuto, IsStd
<1>3. CASE F.autoState = "IDLE"
  <2>1. G = F /\ p = o BY <1>3, Zenon DEF AutoNext, NextIo, GoesOff, GoesOn
  <2> QED BY <2>1, Zenon DEF Move
<1>4. CASE F.autoState # "IDLE"
  <2>1. /\ GoesOff(F) => G.autoState = "MIN_OFF" /\ F.autoState = "ON" /\ p = "off"
        /\ ~ GoesOff(F) /\ GoesOn(F) => G.autoState = "MIN_ON" /\ F.autoState = "OFF" /\ p = "on"
        /\ ~ GoesOff(F) /\ ~ GoesOn(F) =>
             /\ p = o
             /\ \/ G.autoState = F.autoState
                \/ F.autoState = "MIN_ON" /\ G.autoState = "ON"
                \/ F.autoState = "MIN_OFF" /\ G.autoState = "OFF"
    <3>1. p = IF GoesOff(F) THEN "off" ELSE IF GoesOn(F) THEN "on" ELSE o BY DEF NextIo
    <3> HIDE DEF p
    <3>2. (GoesOff(F) => F.autoState = "ON") /\ (GoesOn(F) => F.autoState = "OFF")
      BY DEF GoesOff, GoesOn
    <3>3. GoesOff(F) => G.autoState = "MIN_OFF" BY <1>4, AutoNextIs, Zenon
    <3>4. ~ GoesOff(F) /\ GoesOn(F) => G.autoState = "MIN_ON" BY <1>4, AutoNextIs, Zenon
    <3>5. ~ GoesOff(F) /\ ~ GoesOn(F) =>
            G.autoState = IF F.autoState \in {"MIN_ON", "MIN_OFF"} /\ F.counter = 1
                          THEN IF F.autoState = "MIN_ON" THEN "ON" ELSE "OFF"
                          ELSE F.autoState
      BY <1>4, AutoNextIs, Zenon
    <3> HIDE DEF G
    <3> QED BY <3>1, <3>2, <3>3, <3>4, <3>5
  <2> HIDE DEF G, p
  <2>2. /\ Driving(F) <=> F.autoState \in {"MIN_ON", "ON"}
        /\ Driving(G) <=> G.autoState \in {"MIN_ON", "ON"}
        /\ Fit(G)
    BY <1>1, <1>2, Zenon DEF Driving, Fit, IsAuto, IsStd
  <2>3. CASE GoesOff(F) BY <1>1, <2>1, <2>2, <2>3 DEF Move, G, p
  <2>4. CASE ~ GoesOff(F) /\ GoesOn(F) BY <1>1, <2>1, <2>2, <2>4 DEF Move, G, p
  <2>5. CASE ~ GoesOff(F) /\ ~ GoesOn(F)
    <3>1. p = o /\ (Driving(G) <=> Driving(F)) BY <2>1, <2>2, <2>5
    <3> QED BY <1>1, <2>2, <3>1 DEF Move, G, p
  <2> QED BY <2>3, <2>4, <2>5
<1> QED BY <1>1, <1>3, <1>4

(* forceStart and forceAutoNext, one after the other.                      *)
LEMMA BeginMove ==
  ASSUME NEW F \in ForceRule, Fit(F), NEW o
  PROVE  LET G == Started(F)
         IN Move(F, o, IF IsAuto(F) THEN AutoNext(G) ELSE G,
                 IF IsAuto(F) THEN NextIo(G, StartIo(F, o)) ELSE StartIo(F, o))
<1> DEFINE G == Started(F)
           q == StartIo(F, o)
<1>1. G \in ForceRule /\ G.rule = F.rule /\ Is(G, "RUNNING") BY StartedSame DEF Same
<1>2. Move(F, o, G, q) BY StartMove
<1> HIDE DEF G, q
<1>3. CASE IsAuto(F)
  <2> DEFINE H == AutoNext(G)
             p == NextIo(G, q)
  <2>1. Move(G, q, H, p) /\ Is(H, "RUNNING")
    <3>1. IsAuto(G) /\ Fit(G) BY <1>1, <1>2, <1>3, Zenon DEF IsAuto, Move
    <3> QED BY <1>1, <3>1, NextMove
  <2> HIDE DEF H, p
  <2>2. Move(F, o, H, p) BY <1>1, <1>2, <2>1, Zenon DEF Move
  <2> QED BY <1>3, <2>2 DEF G, q, H, p
<1>4. CASE ~ IsAuto(F) BY <1>2, <1>4 DEF G, q
<1> QED BY <1>3, <1>4

(* A forcing as compiled or as read.                                       *)
LEMMA FreshFits ==
  ASSUME NEW r, r.burst => r.mode = "std"
  PROVE  Fit(Fresh(r)) /\ ~ Is(Fresh(r), "RUNNING")
<1>1. Fresh(r).autoState = "IDLE" /\ Fresh(r).rule = r BY SMT DEF Fresh
<1> DEFINE G == Fresh(r)
<1>2. ~ Is(G, "RUNNING") BY FreshRuns
<1> HIDE DEF G
<1>3. G.autoState = "IDLE" /\ G.rule = r BY <1>1 DEF G
<1>4. Fit(G) BY <1>3 DEF Fit, IsStd
<1> QED BY <1>2, <1>4 DEF G

(* No forcing runs at first, and no output is on.                          *)
LEMMA InitOut == Configured /\ Exclusive /\ Init => OutInv
<1> SUFFICES ASSUME Exclusive, Init PROVE OutInv OBVIOUS
<1>1. \A f \in Forcing : ~ Runs(f) /\ Fit(force[f])
  <2>1. \A f \in Forcing : force[f] = Fresh(Stored[f]) BY Zenon DEF Init
  <2>2. \A f \in Forcing : Stored[f].burst => Stored[f].mode = "std"
    BY Zenon DEF Exclusive, UserRules
  <2>3. \A f \in Forcing : Fit(Fresh(Stored[f])) /\ ~ Is(Fresh(Stored[f]), "RUNNING")
    BY <2>2, FreshFits
  <2> QED BY <2>1, <2>3, Zenon DEF Runs
<1>2. \A c \in Channel : out[c] # "on" BY Zenon DEF Init
<1> QED BY <1>1, <1>2, Zenon DEF OutInv, AllFit, OnIsDriven, DrivenIsOn

(* The check of a stop rule.                                               *)
LEMMA StopOut ==
  ASSUME TypeOK, TypeOK', RegInv, RegInv', OutInv, NEW e \in BOOLEAN, StopCheck(e)
  PROVE  OutInv'
<1>0. pc = "stop" /\ tempStatus[ix] \in Forcing BY Zenon DEF StopCheck, Forced
<1> PICK f \in Forcing : f = tempStatus[ix] BY <1>0
<1> DEFINE F == force[f]
           o == out[F.rule.channel]
           G == Second(F)
           T == Told(F, G)
           true == StopExpr(F, e) \/ Order(F)
           H == IF ~ true THEN G ELSE IF Ends(F) THEN Stopped(T) ELSE T
           p == IF true /\ Ends(F) THEN StopIo(F, SecondIo(F, o)) ELSE SecondIo(F, o)
<1>1. force' = [force EXCEPT ![f] = H] /\ out' = [out EXCEPT ![F.rule.channel] = p]
  BY Zenon DEF StopCheck
<1>2. F \in ForceRule /\ Fit(F) /\ Is(F, "VALID") /\ Is(F, "RUNNING")
  <2>1. ix \in Channel BY <1>0, Chan DEF TypeOK
  <2>2. dfStatus[ix] = f BY <1>0, <2>1, Zenon DEF RegInv, TempPrevails
  <2>3. Runs(f) BY <1>0, <2>1, <2>2, SMT DEF RegInv, DfExact
  <2> QED BY <2>3, OnChannel, Zenon DEF Runs, OutInv, AllFit, RegInv, AllValid
<1> HIDE DEF F, o, true
<1>3. /\ Move(F, o, G, SecondIo(F, o)) /\ Move(F, o, T, SecondIo(F, o))
      /\ Move(F, o, Stopped(T), StopIo(F, SecondIo(F, o)))
  BY <1>2, SecondMove
<1> HIDE DEF G, T
<1>4. Move(F, o, H, p) BY <1>3
<1> HIDE DEF H, p
<1> QED BY <1>1, <1>4, MoveOut DEF F, o, On

(* A forcing is displaced.                                                 *)
LEMMA PreemptOut ==
  ASSUME TypeOK, TypeOK', RegInv, RegInv', OutInv, Preempt PROVE OutInv'
<1>1. CASE Forced(tempStatus[ix]) /\ Forced(dfStatus[ix]) /\ tempStatus[ix] < dfStatus[ix]
  <2> PICK f \in Forcing : f = dfStatus[ix] BY <1>1 DEF Forced
  <2> DEFINE H == Stopped(force[f])
             p == StopIo(force[f], out[On(f)])
  <2>1. force' = [force EXCEPT ![f] = H] /\ out' = [out EXCEPT ![On(f)] = p]
    BY <1>1, Zenon DEF Preempt, On
  <2>2. force[f] \in ForceRule /\ Fit(force[f]) BY OnChannel, Zenon DEF OutInv, AllFit
  <2>3. Move(force[f], out[On(f)], H, p) BY <2>2, StopMove
  <2> HIDE DEF H, p
  <2> QED BY <2>1, <2>3, MoveOut
<1>2. CASE ~ (Forced(tempStatus[ix]) /\ Forced(dfStatus[ix]) /\ tempStatus[ix] < dfStatus[ix])
  <2>1. force' = force /\ out' = out BY <1>2, Zenon DEF Preempt
  <2> QED BY <2>1, QuietOut, Zenon DEF Runs, On, OutInv, AllFit
<1> QED BY <1>1, <1>2

(* A forcing is started, or its automaton makes a step.                    *)
LEMMA BeginOut ==
  ASSUME TypeOK, TypeOK', RegInv, RegInv', OutInv, Begin PROVE OutInv'
<1>1. CASE Forced(tempStatus[ix])
  <2> PICK f \in Forcing : f = tempStatus[ix] BY <1>1 DEF Forced
  <2> DEFINE F == force[f]
             G == Started(F)
             H == IF IsAuto(F) THEN AutoNext(G) ELSE G
             o == out[F.rule.channel]
             p == IF IsAuto(F) THEN NextIo(G, StartIo(F, o)) ELSE StartIo(F, o)
  <2>1. force' = [force EXCEPT ![f] = H] /\ out' = [out EXCEPT ![F.rule.channel] = p]
    BY <1>1, Zenon DEF Begin
  <2>2. F \in ForceRule /\ Fit(F) BY OnChannel, Zenon DEF OutInv, AllFit
  <2> HIDE DEF F
  <2>3. Move(F, o, H, p) BY <2>2, BeginMove
  <2> HIDE DEF H, p
  <2> QED BY <2>1, <2>3, MoveOut DEF F, On
<1>2. CASE ~ Forced(tempStatus[ix])
  <2>1. force' = force /\ out' = out BY <1>2, Zenon DEF Begin
  <2> QED BY <2>1, QuietOut, Zenon DEF Runs, On, OutInv, AllFit
<1> QED BY <1>1, <1>2

(* A forcing gets another rule.                                            *)
LEMMA SetRuleOut ==
  ASSUME Exclusive, TypeOK, TypeOK', RegInv, RegInv', OutInv,
         NEW f \in Forcing, NEW r \in Rules, SetRule(f, r)
  PROVE  OutInv'
<1> DEFINE H == Fresh(r)
           p == StopIo(force[f], out[On(f)])
<1>1. force' = [force EXCEPT ![f] = H] BY Zenon DEF SetRule
<1>2. out' = [out EXCEPT ![On(f)] = p]
  <2>1. Invalidate(f) /\ Is(force[f], "VALID") BY Zenon DEF SetRule, RegInv, AllValid
  <2> QED BY <2>1, Zenon DEF Invalidate, On
<1>3. H \in ForceRule /\ ~ Is(H, "RUNNING") /\ Fit(H)
  <2>1. r.burst => r.mode = "std" BY Zenon DEF Exclusive, UserRules
  <2> QED BY <2>1, FreshFits, FreshType, StoredType
<1>4. Move(force[f], out[On(f)], H, p)
  <2> HIDE DEF H
  <2>1. ~ Driving(H) /\ (p = "on" => p = out[On(f)] /\ ~ Is(force[f], "RUNNING"))
    BY <1>3, SMT DEF Driving, StopIo
  <2>2. ~ Is(force[f], "RUNNING") => p = out[On(f)] /\ ~ Driving(force[f])
    BY DEF Driving, StopIo
  <2> HIDE DEF p
  <2> QED BY <1>3, <2>1, <2>2, Zenon DEF Move
<1> HIDE DEF H, p
<1> QED BY <1>1, <1>2, <1>4, MoveOut

(* A forcing is enabled, or disabled.                                      *)
LEMMA PutOn ==
  ASSUME NEW F \in ForceRule, NEW b \in BOOLEAN
  PROVE  LET G == [F EXCEPT !.on = b] IN G \in ForceRule /\ SamePhase(F, G)
<1>1. LET G == [F EXCEPT !.on = b]
      IN G \in ForceRule /\ G.rule = F.rule /\ G.autoState = F.autoState /\ G.status = F.status
  BY SMT DEF ForceRule
<1> QED BY <1>1, Zenon DEF SamePhase, Is

(* Command cfre.                                                           *)
LEMMA EnableOut ==
  ASSUME TypeOK, TypeOK', RegInv, RegInv', OutInv,
         NEW f \in Forcing, NEW on \in BOOLEAN, Enable(f, on)
  PROVE  OutInv'
<1>1. force[f] \in ForceRule /\ Fit(force[f]) /\ On(f) \in Channel
  BY OnChannel, Zenon DEF OutInv, AllFit
<1>2. CASE on
  <2> DEFINE H == [force[f] EXCEPT !.on = TRUE]
             p == out[On(f)]
  <2>1. force' = [force EXCEPT ![f] = H] /\ out' = out BY <1>2, Zenon DEF Enable
  <2>2. out' = [out EXCEPT ![On(f)] = p] BY <1>1, <2>1, Zenon DEF TypeOK
  <2>3. H \in ForceRule /\ SamePhase(force[f], H) BY <1>1, PutOn
  <2> HIDE DEF H
  <2>4. Move(force[f], out[On(f)], H, p)
    <3>1. (Driving(H) <=> Driving(force[f])) /\ Fit(H) BY <1>1, <2>3, PhaseIs
    <3> QED BY <2>3, <3>1, Zenon DEF Move, SamePhase
  <2> HIDE DEF p
  <2> QED BY <2>1, <2>2, <2>4, MoveOut
<1>3. CASE ~ on
  <2> DEFINE S == Stopped(force[f])
             H == [S EXCEPT !.on = FALSE]
             p == StopIo(force[f], out[On(f)])
  <2>1. force' = [force EXCEPT ![f] = H] /\ out' = [out EXCEPT ![On(f)] = p]
    BY <1>3, Zenon DEF Enable, On
  <2>2. Move(force[f], out[On(f)], S, p) BY <1>1, StopMove
  <2> HIDE DEF S, p
  <2>3. H \in ForceRule /\ SamePhase(S, H) BY <2>2, PutOn DEF Move
  <2> HIDE DEF H
  <2>4. Move(force[f], out[On(f)], H, p)
    <3>1. (Driving(H) <=> Driving(S)) /\ (Fit(S) => Fit(H)) BY <2>3, PhaseIs
    <3> QED BY <2>2, <2>3, <3>1, Zenon DEF Move, SamePhase
  <2> QED BY <2>1, <2>4, MoveOut
<1> QED BY <1>2, <1>3

(* A step that changes the status of forcings, but not their phases.       *)
LEMMA PhasesOut ==
  ASSUME TypeOK, OutInv, out' = out, \A g \in Forcing : SamePhase(force[g], force'[g])
  PROVE  OutInv'
<1>1. \A g \in Forcing : /\ On(g)' = On(g) /\ (Runs(g)' <=> Runs(g)) /\ Fit(force'[g])
                         /\ Driving(force'[g]) <=> Driving(force[g])
  <2> SUFFICES ASSUME NEW g \in Forcing
               PROVE  /\ On(g)' = On(g) /\ (Runs(g)' <=> Runs(g)) /\ Fit(force'[g])
                      /\ Driving(force'[g]) <=> Driving(force[g])
    OBVIOUS
  <2>1. SamePhase(force[g], force'[g]) /\ Fit(force[g]) BY Zenon DEF OutInv, AllFit
  <2>2. (Driving(force'[g]) <=> Driving(force[g])) /\ Fit(force'[g]) BY <2>1, PhaseIs
  <2> QED BY <2>1, <2>2, Zenon DEF On, Runs, SamePhase
<1> QED BY <1>1, QuietOut

(* A change of the status of one forcing.                                  *)
LEMMA StatusPhase ==
  ASSUME NEW F \in ForceRule, NEW s \in SUBSET Status,
         \A x \in {"RUNNING", "BURST_ON"} : x \in s <=> x \in F.status
  PROVE  SamePhase(F, [F EXCEPT !.status = s])
<1> DEFINE G == [F EXCEPT !.status = s]
<1>1. SameCounts(F, G) /\ G.status = s BY StatusCounts
<1> HIDE DEF G
<1> QED BY <1>1, Zenon DEF SameCounts, SamePhase, Is, G

(* Every step keeps OutInv.                                                *)
LEMMA StepOut ==
  Configured /\ Exclusive /\ TypeOK /\ TypeOK' /\ RegInv /\ RegInv' /\ OutInv /\ [Next]_vars => OutInv'
<1> SUFFICES ASSUME Configured, Exclusive, TypeOK, TypeOK', RegInv, RegInv', OutInv, [Next]_vars
             PROVE  OutInv'
  OBVIOUS
<1>1. ASSUME force' = force, out' = out PROVE OutInv'
  BY <1>1, PhasesOut, Zenon DEF SamePhase
<1>2. CASE NextBegin
  <2>1. \A g \in Forcing : SamePhase(force[g], force'[g])
    <3> SUFFICES ASSUME NEW g \in Forcing PROVE SamePhase(force[g], force'[g]) OBVIOUS
    <3> DEFINE F == force[g]
               s == F.status \ {"START_RULE", "STOP_RULE"}
    <3>1. force'[g] = [F EXCEPT !.status = s] BY <1>2, Zenon DEF NextBegin
    <3>2. F \in ForceRule BY OnChannel
    <3> HIDE DEF F
    <3>3. F.status \in SUBSET Status BY <3>2, SMT DEF ForceRule
    <3>4. s \in SUBSET Status /\ \A x \in {"RUNNING", "BURST_ON"} : x \in s <=> x \in F.status
      BY <3>3, SMT
    <3> HIDE DEF s
    <3>5. SamePhase(F, [F EXCEPT !.status = s]) BY <3>2, <3>4, StatusPhase
    <3> QED BY <3>1, <3>5 DEF F
  <2> QED BY <1>2, <2>1, PhasesOut DEF NextBegin
<1>3. CASE NoStop \/ NoStart \/ Switched
  BY <1>1, <1>3, Zenon DEF NoStop, NoStart, Switched, forcing
<1>4. ASSUME NEW e \in BOOLEAN, StartCheck(e) PROVE OutInv'
  <2> DEFINE F == force[ix]
             expr   == Is(F, "VALID") /\ F.on /\ e
             manual == Is(F, "MANUAL_ORDER") /\ ~ Is(F, "RUNNING")
             true   == (expr /\ ~ Is(F, "DMAX_WAITING")) \/ manual
             s == (F.status \ ((IF expr THEN {} ELSE {"DMAX_WAITING"}) \cup
                               (IF manual THEN {"MANUAL_ORDER"} ELSE {})))
                  \cup (IF true THEN {"START_RULE"} ELSE {})
             G == [F EXCEPT !.status = s]
  <2>1. ix \in Forcing BY <1>4, Chan, SMT DEF StartCheck, TypeOK
  <2>2. force' = [force EXCEPT ![ix] = G] /\ out' = out BY <1>4, Zenon DEF StartCheck
  <2>3. F \in ForceRule BY <2>1, OnChannel
  <2>4. F.status \in SUBSET Status BY <2>3, SMT DEF ForceRule
  <2>5. s \in SUBSET Status BY <2>4, SMT DEF Status
  <2>6. \A x \in {"RUNNING", "BURST_ON"} : x \in s <=> x \in F.status BY SMT
  <2> HIDE DEF F, s
  <2>7. SamePhase(F, G) BY <2>3, <2>5, <2>6, StatusPhase
  <2> HIDE DEF G
  <2>8. \A g \in Forcing : SamePhase(force[g], force'[g])
    <3>1. \A g \in Forcing : force'[g] = IF g = ix THEN G ELSE force[g] BY <2>2, Zenon DEF TypeOK
    <3>2. SamePhase(force[ix], G) BY <2>7 DEF F
    <3> QED BY <3>1, <3>2, Zenon DEF SamePhase
  <2> QED BY <2>2, <2>8, PhasesOut
<1>5. ASSUME NEW f \in Forcing, Manual(f) PROVE OutInv'
  <2> DEFINE F == force[f]
             s == F.status \cup {"MANUAL_ORDER"}
             G == [F EXCEPT !.status = s]
  <2>1. force' = [force EXCEPT ![f] = G] /\ out' = out BY <1>5, Zenon DEF Manual
  <2>2. F \in ForceRule BY OnChannel
  <2> HIDE DEF F
  <2>3. F.status \in SUBSET Status BY <2>2, SMT DEF ForceRule
  <2>4. s \in SUBSET Status BY <2>3, SMT DEF Status
  <2>5. \A x \in {"RUNNING", "BURST_ON"} : x \in s <=> x \in F.status BY SMT
  <2> HIDE DEF s
  <2>6. SamePhase(F, G) BY <2>2, <2>4, <2>5, StatusPhase
  <2> HIDE DEF G
  <2>7. \A g \in Forcing : SamePhase(force[g], force'[g])
    <3>1. \A g \in Forcing : force'[g] = IF g = f THEN G ELSE force[g] BY <2>1, Zenon DEF TypeOK
    <3>2. SamePhase(force[f], G) BY <2>6 DEF F
    <3> QED BY <3>1, <3>2, Zenon DEF SamePhase
  <2> QED BY <2>1, <2>7, PhasesOut
<1>6. ASSUME NEW d \in [Ssr -> BOOLEAN], Divert(d) PROVE OutInv'
  BY <1>1, <1>6, Zenon DEF Divert
<1>7. CASE Meter
  <2> DEFINE on == enabled # bDiverterSet
             o  == IF bDiverterSet THEN SsrOff(out, Ssr) ELSE out
             sw == on /\ SwitchPending
             to == IF sw /\ diverterSwitch # SwitchNone THEN diverterSwitch - 1 ELSE diverterIndex
             p  == IF ~ sw THEN o
                   ELSE IF diverterSwitch = SwitchNone THEN SsrOff(o, Ssr) ELSE SsrOff(o, {1 - to})
             ch == IF sw THEN diverterSwitch ELSE diverterChannel
  <2>1. /\ force' = force
        /\ out' = IF on /\ ch # SwitchNone THEN [p EXCEPT ![to] = "div"] ELSE p
    BY <1>7, Zenon DEF Meter, forcing
  <2>2. to \in Ssr
    <3>1. diverterSwitch \in 0 .. 3 /\ diverterIndex \in Ssr BY DEF TypeOK
    <3>2. sw => diverterSwitch # SwitchIdle BY DEF SwitchPending
    <3> HIDE DEF sw
    <3> QED BY <3>1, <3>2, SMT DEF Ssr, SwitchIdle, SwitchNone
  <2>3. \A x \in [Channel -> {"off", "on", "div"}] : \A cs :
          /\ SsrOff(x, cs) \in [Channel -> {"off", "on", "div"}]
          /\ \A c \in Channel : /\ SsrOff(x, cs)[c] = "on" => x[c] = "on"
                                /\ c \notin Ssr => SsrOff(x, cs)[c] = x[c]
    BY SMT DEF SsrOff
  <2>4. /\ o \in [Channel -> {"off", "on", "div"}]
        /\ \A c \in Channel : (o[c] = "on" => out[c] = "on") /\ (c \notin Ssr => o[c] = out[c])
    <3>1. out \in [Channel -> {"off", "on", "div"}] BY DEF TypeOK
    <3> QED BY <2>3, <3>1, Zenon
  <2> HIDE DEF on, o, sw, to, ch
  <2>5. /\ p \in [Channel -> {"off", "on", "div"}]
        /\ \A c \in Channel : (p[c] = "on" => out[c] = "on") /\ (c \notin Ssr => p[c] = out[c])
    <3>1. p = o \/ \E cs : p = SsrOff(o, cs) BY Zenon
    <3> HIDE DEF p
    <3>2. CASE p = o BY <2>4, <3>2
    <3>3. ASSUME NEW cs, p = SsrOff(o, cs)
          PROVE  /\ p \in [Channel -> {"off", "on", "div"}]
                 /\ \A c \in Channel : /\ p[c] = "on" => out[c] = "on"
                                       /\ c \notin Ssr => p[c] = out[c]
      <4>1. /\ SsrOff(o, cs) \in [Channel -> {"off", "on", "div"}]
            /\ \A c \in Channel : /\ SsrOff(o, cs)[c] = "on" => o[c] = "on"
                                  /\ c \notin Ssr => SsrOff(o, cs)[c] = o[c]
        BY <2>3, <2>4
      <4> QED BY <2>4, <3>3, <4>1
    <3> QED BY <3>1, <3>2, <3>3
  <2> HIDE DEF p
  <2>6. \A c \in Channel : (out'[c] = "on" => out[c] = "on") /\ (c \notin Ssr => out'[c] = out[c])
    BY <2>1, <2>2, <2>5, SMT
  <2> QED BY <2>1, <2>6, QuietOut, OnChannel, Zenon DEF On, Runs, OutInv, AllFit
<1>8. CASE ReadCfgEnd
  <2>1. \A f \in Forcing : Fit(force'[f]) /\ ~ Runs(f)'
    <3>1. \A f \in Forcing : force'[f] = Fresh(Stored[f]) BY <1>8, Zenon DEF ReadCfgEnd, Load
    <3>2. \A f \in Forcing : Stored[f].burst => Stored[f].mode = "std"
      BY Zenon DEF Exclusive, UserRules
    <3>3. \A f \in Forcing : Fit(Fresh(Stored[f])) /\ ~ Is(Fresh(Stored[f]), "RUNNING")
      BY <3>2, FreshFits
    <3> QED BY <3>1, <3>3, Zenon DEF Runs
  <2>2. \A c \in Channel : out'[c] # "on"
    <3> SUFFICES ASSUME NEW c \in Channel, out'[c] = "on" PROVE FALSE OBVIOUS
    <3>1. /\ out[c] = "on"
          /\ ~ \E f \in Forcing : Is(force[f], "RUNNING") /\ force[f].rule.channel = c
      BY <1>8, SMT DEF ReadCfgEnd
    <3> QED BY <3>1, Zenon DEF OutInv, OnIsDriven, Runs, On
  <2> QED BY <2>1, <2>2, Zenon DEF OutInv, AllFit, OnIsDriven, DrivenIsOn
<1>9. CASE ReadCfg \/ Toggle \/ UNCHANGED vars
  BY <1>1, <1>9, Zenon DEF ReadCfg, Toggle, vars, forcing
<1>10. ASSUME NEW client \in Client, NEW s \in {"on", "off"}, Ask(client, s) PROVE OutInv'
  BY <1>1, <1>10, Zenon DEF Ask, forcing
<1>11. ASSUME NEW client \in Client, AskSet(client) PROVE OutInv'
  BY <1>1, <1>11, Zenon DEF AskSet, forcing
<1>12. ~ DefaultCfg /\ ~ WebSet /\ \A f \in Forcing, r \in Rules : ~ WebInvalidate(f, r)
  BY Zenon DEF Configured, DefaultCfg, WebSet, WebInvalidate, RegInv, AllValid
<1> QED BY <1>2, <1>3, <1>4, <1>5, <1>6, <1>7, <1>8, <1>9, <1>10, <1>11, <1>12,
        StopOut, PreemptOut, BeginOut, SetRuleOut, EnableOut
        DEF Next, DiverterNext, RuleResults, DivRuleResults, Users

(* OutInv, with what it rests on.                                          *)
LEMMA Outputs == ASSUME Configured, Exclusive PROVE Spec => [](TypeOK /\ RegInv /\ OutInv)
<1>1. Init => RegInv /\ OutInv BY InitReg, InitOut
<1>2. TypeOK /\ TypeOK' /\ RegInv /\ OutInv /\ [Next]_vars => (RegInv /\ OutInv)'
  BY StepReg, StepOut
<1> QED BY <1>1, <1>2, TypeCorrect, PTL DEF Spec

(* On such a device, of which no rule in AUTO mode has a burst, no output  *)
(* is left on: a forcing that runs drives it.                              *)
THEOREM NothingIsLeftOn == ASSUME Configured, Exclusive PROVE Spec => []NoneLeftOn
<1>1. OutInv => NoneLeftOn BY Zenon DEF OutInv, OnIsDriven, NoneLeftOn, RunsOn, Runs, On
<1> QED BY <1>1, Outputs, PTL

(* On such a device a relay is on whenever a forcing that runs drives it.  *)
THEOREM RelaysFollow == ASSUME Configured, Exclusive PROVE Spec => []RelayFollows
<1>1. OutInv => RelayFollows
  <2> SUFFICES ASSUME OutInv, NEW f \in Forcing, NEW c \in Channel \ Ssr,
                      RunsOn(f, c), Driving(force[f])
               PROVE  out[c] = "on"
    BY Zenon DEF RelayFollows
  <2> QED BY Zenon DEF OutInv, DrivenIsOn, RunsOn, Runs, On
<1> QED BY <1>1, Outputs, PTL

-----------------------------------------------------------------------------
(***************************************************************************)
(* DelayInv is inductive: the age of a forcing and what is left of its     *)
(* delays.                                                                 *)
(***************************************************************************)

(* The counts are numbers.                                                 *)
LEMMA Nums ==
  ASSUME NEW F \in ForceRule
  PROVE  /\ F.delayCount \in Nat /\ F.counter \in Nat /\ F.kfCounter \in Nat
         /\ F.rule.delay \in Nat
         /\ F.rule.autoOn \in Nat /\ F.rule.autoOff \in Nat /\ F.rule.autoKf \in Nat
<1>1. Counter \subseteq Nat BY DivertAssumption, SMT DEF Counter
<1>2. F.delayCount \in Counter /\ F.counter \in Counter /\ F.kfCounter \in Counter
      /\ F.rule \in Rule
  BY SMT DEF ForceRule
<1>3. /\ F.rule.delay \in Counter
      /\ F.rule.autoOn \in Counter /\ F.rule.autoOff \in Counter /\ F.rule.autoKf \in Counter
  BY <1>2, SMT DEF Rule
<1> QED BY <1>1, <1>2, <1>3

(* What a second takes off a count, at most.                               *)
LEMMA Counts == /\ \A n \in Nat : Decr(n) + 1 >= n /\ Decr(n) \in Nat
                /\ \A F \in ForceRule : \A s : /\ KfCount(F, s) + 1 >= F.kfCounter
                                               /\ KfCount(F, s) \in Nat
<1>1. \A n \in Nat : Decr(n) + 1 >= n /\ Decr(n) \in Nat BY DivertAssumption, SMT DEF Decr
<1>2. ASSUME NEW F \in ForceRule, NEW s
      PROVE  KfCount(F, s) + 1 >= F.kfCounter /\ KfCount(F, s) \in Nat
  BY Nums, SMT DEF KfCount
<1> QED BY <1>1, <1>2

(* The fields the delays depend on are kept.                               *)
SameDelays(F, H) ==
  /\ H.rule = F.rule /\ H.autoState = F.autoState /\ H.delayCount = F.delayCount
  /\ H.counter = F.counter /\ H.kfCounter = F.kfCounter
  /\ Is(H, "RUNNING") <=> Is(F, "RUNNING")

(* ... and then so are the bounds.                                         *)
LEMMA KeepsDelays ==
  ASSUME NEW F \in ForceRule, NEW H, NEW a \in Nat, NEW e \in {0, 1}, NEW d \in {0, 1},
         SameDelays(F, H) \/ ~ Is(H, "RUNNING"), e <= d
  PROVE  /\ Limited(F, a, e) => Limited(H, a, e)
         /\ Cycled(F, a, e) => Cycled(H, a, d)
<1>1. CASE ~ Is(H, "RUNNING") BY <1>1 DEF Limited, Cycled
<1>2. CASE SameDelays(F, H)
  <2>1. Limited(F, a, e) => Limited(H, a, e) BY <1>2, Zenon DEF SameDelays, Limited, IsStd
  <2>2. Cycled(F, a, e) => Cycled(F, a, d) BY Nums, SMT DEF Cycled
  <2>3. Cycled(F, a, d) => Cycled(H, a, d) BY <1>2, Zenon DEF SameDelays, Cycled, IsAuto
  <2> QED BY <2>1, <2>2, <2>3
<1> QED BY <1>1, <1>2

(* What a second, or the end of one, asks of the delays of a forcing.      *)
Due(f)  == IF StopPending(f) THEN 1 ELSE 0
Done(f) == IF BeginPending(f) THEN 0 ELSE 1
DelaysOf(f) == Limited(force[f], age[f], Due(f)) /\ Cycled(force[f], age[f], Done(f))

(* DelaysCount, forcing by forcing.                                        *)
LEMMA DelaysOfAll == DelaysCount <=> \A f \in Forcing : DelaysOf(f)
  BY Zenon DEF DelaysCount, DelaysOf, Due, Done

(* ... and after a step.                                                   *)
LEMMA DelaysOfNext == (\A f \in Forcing : DelaysOf(f)') => DelaysCount'
  BY Zenon DEF DelaysCount, DelaysOf, Due, Done

(* A forcing that a step does not visit.                                   *)
LEMMA DelaysKept ==
  ASSUME TypeOK, NEW f \in Forcing, DelaysOf(f), age'[f] = age[f],
         SameDelays(force[f], force'[f]) \/ ~ Runs(f)',
         (StopPending(f)' <=> StopPending(f)) \/ ~ (Runs(f) /\ IsStd(force[f])),
         BeginPending(f)' => BeginPending(f)
  PROVE  DelaysOf(f)'
<1> DEFINE F == force[f]
           H == force'[f]
           a == age[f]
<1>1. F \in ForceRule /\ a \in Nat
  <2>1. age[f] \in 0 .. AgeMax BY Zenon DEF TypeOK
  <2> QED BY <2>1, OnChannel, DivertAssumption, SMT
<1>2. Due(f) \in {0, 1} /\ Done(f) \in {0, 1} /\ Due(f)' \in {0, 1} /\ Done(f)' \in {0, 1}
  BY Zenon DEF Due, Done
<1>3. Done(f) <= Done(f)' BY SMT DEF Done
<1>4. SameDelays(F, H) \/ ~ Is(H, "RUNNING") BY Zenon DEF Runs
<1>5. Limited(F, a, Due(f)) /\ Cycled(F, a, Done(f)) BY DEF DelaysOf
<1>6. Due(f)' = Due(f) \/ ~ (Is(F, "RUNNING") /\ IsStd(F)) BY Zenon DEF Due, Runs
<1> HIDE DEF F, H, a
<1>7. Cycled(H, a, Done(f)') BY <1>1, <1>2, <1>3, <1>4, <1>5, KeepsDelays
<1>8. Limited(H, a, Due(f)')
  <2>1. CASE Due(f)' = Due(f)
    <3>1. Due(f) <= Due(f) BY <1>2
    <3>2. Limited(H, a, Due(f)) BY <1>1, <1>2, <1>4, <1>5, <3>1, KeepsDelays
    <3> QED BY <2>1, <3>2
  <2>2. CASE ~ (Is(F, "RUNNING") /\ IsStd(F))
    <3>1. ~ (Is(H, "RUNNING") /\ IsStd(H)) BY <1>4, <2>2, Zenon DEF SameDelays, IsStd
    <3> QED BY <3>1 DEF Limited
  <2> QED BY <1>6, <2>1, <2>2
<1>9. age'[f] = a BY DEF a
<1> QED BY <1>7, <1>8, <1>9 DEF DelaysOf, H

(* A second counts down the delay of DMIN or DMAX.                         *)
LEMMA SecondDelays ==
  ASSUME NEW F \in ForceRule, Fit(F), Is(F, "VALID"), Is(F, "RUNNING"),
         NEW e \in BOOLEAN, NEW a \in Nat, NEW d \in {0, 1}, Limited(F, a, 1), Cycled(F, a, d)
  PROVE  LET G == Second(F)
             T == Told(F, G)
             true == StopExpr(F, e) \/ Order(F)
             H == IF ~ true THEN G ELSE IF Ends(F) THEN Stopped(T) ELSE T
         IN Limited(H, a, 0) /\ Cycled(H, a, d)
<1> DEFINE G == Second(F)
           T == Told(F, G)
           true == StopExpr(F, e) \/ Order(F)
           H == IF ~ true THEN G ELSE IF Ends(F) THEN Stopped(T) ELSE T
<1>1. /\ G \in ForceRule /\ G.rule = F.rule /\ Is(G, "RUNNING") /\ G.autoState = F.autoState
      /\ G.kfCounter = F.kfCounter
      /\ G.delayCount = IF Counting(F) THEN F.delayCount - 1 ELSE F.delayCount
      /\ ~ F.rule.burst => G.counter = F.counter
  BY SecondSame, SecondIs, Zenon DEF Same
<1>2. IsStd(F) /\ DmaxOver(F) => true /\ Ends(F) BY Zenon DEF StopExpr, Ends
<1> HIDE DEF G
<1>3. T \in ForceRule /\ SameDelays(G, T)
  BY <1>1, ToldSame, ToldCounts, Zenon DEF Same, SameCounts, SameDelays
<1>4. T \in ForceRule BY <1>3
<1> HIDE DEF T, true
<1>5. CASE true /\ Ends(F)
  <2>1. ~ Is(H, "RUNNING") BY <1>4, <1>5, StoppedSame
  <2> QED BY <2>1 DEF Limited, Cycled, G, T, true, H
<1>6. CASE ~ (true /\ Ends(F))
  <2>1. H = G \/ H = T BY <1>6
  <2>2. SameDelays(G, H) BY <1>3, <2>1 DEF SameDelays
  <2> HIDE DEF H
  <2>3. Limited(G, a, 0)
    <3> SUFFICES ASSUME IsStd(F)
                 PROVE  /\ F.rule.limit = "dmax" /\ F.rule.delay # 0 =>
                             G.delayCount # 0 /\ a + G.delayCount <= F.rule.delay
                        /\ F.rule.limit = "dmin" =>
                             \/ a >= F.rule.delay
                             \/ G.delayCount # 0 /\ a + G.delayCount >= F.rule.delay
      BY <1>1, Nums, SMT DEF Limited, IsStd
    <3>1. ~ DmaxOver(F) BY <1>2, <1>6
    <3>2. /\ F.rule.limit = "dmax" /\ F.rule.delay # 0 =>
               F.delayCount # 0 /\ a + F.delayCount <= F.rule.delay + 1
          /\ F.rule.limit = "dmin" =>
               a >= F.rule.delay \/ (F.delayCount # 0 /\ a + F.delayCount >= F.rule.delay + 1)
      BY Zenon DEF Limited
    <3> QED BY <1>1, <3>1, <3>2, Nums, SMT DEF DmaxOver, Counting
  <2>4. Cycled(G, a, d)
    <3> SUFFICES ASSUME IsAuto(F) PROVE Cycled(G, a, d) BY <1>1 DEF Cycled, IsAuto
    <3>1. ~ F.rule.burst BY DEF Fit, IsStd, IsAuto
    <3> QED BY <1>1, <3>1, Zenon DEF Cycled, IsAuto
  <2>5. 0 \in {0, 1} /\ 0 <= 0 /\ d <= d OBVIOUS
  <2>6. Limited(H, a, 0) BY <1>1, <2>2, <2>3, <2>5, KeepsDelays
  <2>7. Cycled(H, a, d) BY <1>1, <2>2, <2>4, <2>5, KeepsDelays
  <2> QED BY <2>6, <2>7 DEF G, T, true, H
<1> QED BY <1>5, <1>6

(* A forcing is started in its time; the automaton makes its step.         *)
LEMMA NextDelays ==
  ASSUME NEW F \in ForceRule, IsAuto(F), Is(F, "RUNNING"), NEW a \in Nat, Cycled(F, a, 0)
  PROVE  LET H == AutoNext(F) IN
         /\ Cycled(H, IF GoesOff(F) \/ GoesOn(F) THEN 0 ELSE a, 1)
         /\ \A b, e : Limited(H, b, e)
         /\ H.autoState # F.autoState =>
              /\ F.autoState = "ON"  => a >= F.rule.autoOn  /\ a + 1 >= F.rule.autoKf
              /\ F.autoState = "OFF" => a >= F.rule.autoOff /\ a + 1 >= F.rule.autoKf
<1> DEFINE H == AutoNext(F)
           b == IF GoesOff(F) \/ GoesOn(F) THEN 0 ELSE a
<1>1. H.rule = F.rule BY AutoNextSame DEF Same
<1>2. \A c, e : Limited(H, c, e) BY <1>1, Zenon DEF Limited, IsStd, IsAuto
<1>3. /\ F.kfCounter + a >= F.rule.autoKf
      /\ F.autoState = "MIN_ON"  => F.counter + a >= F.rule.autoOn
      /\ F.autoState = "ON"      => a >= F.rule.autoOn
      /\ F.autoState = "MIN_OFF" => F.counter + a >= F.rule.autoOff
      /\ F.autoState = "OFF"     => a >= F.rule.autoOff
  BY Nums, SMT DEF Cycled
<1>4. CASE F.autoState = "IDLE"
  <2>1. H = F BY <1>4, Zenon DEF AutoNext
  <2>2. b = a BY <1>4 DEF GoesOff, GoesOn
  <2>3. Cycled(F, a, 1) BY <1>3, <1>4, Nums, SMT DEF Cycled
  <2> QED BY <1>2, <2>1, <2>2, <2>3
<1>5. CASE F.autoState # "IDLE" /\ GoesOff(F)
  <2>1. /\ H.autoState = "MIN_OFF" /\ H.counter = F.rule.autoOff /\ H.kfCounter = F.rule.autoKf
        /\ b = 0 /\ F.autoState = "ON"
    BY <1>5, AutoNextIs DEF GoesOff
  <2>2. a + 1 >= F.rule.autoKf
    <3>1. KfCount(F, "STOP_RULE") = 0 BY <1>5 DEF GoesOff
    <3>2. 0 + 1 >= F.kfCounter BY <3>1, Counts
    <3> QED BY <1>3, <3>2, Nums, SMT
  <2> HIDE DEF H
  <2>3. Cycled(H, 0, 1) BY <1>1, <2>1, Nums, SMT DEF Cycled
  <2> QED BY <1>2, <1>3, <2>1, <2>2, <2>3 DEF H
<1>6. CASE F.autoState # "IDLE" /\ ~ GoesOff(F) /\ GoesOn(F)
  <2>1. /\ H.autoState = "MIN_ON" /\ H.counter = F.rule.autoOn /\ H.kfCounter = F.rule.autoKf
        /\ b = 0 /\ F.autoState = "OFF"
    BY <1>6, AutoNextIs DEF GoesOn
  <2>2. a + 1 >= F.rule.autoKf
    <3>1. KfCount(F, "START_RULE") = 0 BY <1>6 DEF GoesOn
    <3>2. 0 + 1 >= F.kfCounter BY <3>1, Counts
    <3> QED BY <1>3, <3>2, Nums, SMT
  <2> HIDE DEF H
  <2>3. Cycled(H, 0, 1) BY <1>1, <2>1, Nums, SMT DEF Cycled
  <2> QED BY <1>2, <1>3, <2>1, <2>2, <2>3 DEF H
<1>7. CASE F.autoState # "IDLE" /\ ~ GoesOff(F) /\ ~ GoesOn(F)
  <2> DEFINE waits == F.autoState \in {"MIN_ON", "MIN_OFF"}
  <2>1. /\ H.kfCounter = KfCount(F, Awaited(F)) /\ b = a
        /\ H.counter = IF waits THEN Decr(F.counter) ELSE F.counter
        /\ H.autoState = IF waits /\ F.counter = 1
                         THEN IF F.autoState = "MIN_ON" THEN "ON" ELSE "OFF" ELSE F.autoState
    BY <1>7, AutoNextIs
  <2>2. KfCount(F, Awaited(F)) + 1 >= F.kfCounter /\ KfCount(F, Awaited(F)) \in Nat BY Counts
  <2>3. Decr(F.counter) + 1 >= F.counter /\ Decr(F.counter) \in Nat BY Counts, Nums
  <2>4. F.autoState \in {"MIN_ON", "ON", "MIN_OFF", "OFF"}
    <3>1. F.autoState \in AutoState BY SMT DEF ForceRule
    <3> QED BY <1>7, <3>1 DEF AutoState
  <2> HIDE DEF H, b
  <2>5. H.kfCounter + a + 1 >= F.rule.autoKf BY <1>3, <2>1, <2>2, Nums, SMT
  <2>6. Cycled(H, a, 1)
    <3>1. CASE ~ waits
      <4>1. H.autoState = F.autoState BY <2>1, <3>1
      <4> QED BY <1>1, <1>3, <2>4, <2>5, <3>1, <4>1, Nums, SMT DEF Cycled
    <3>2. CASE F.autoState = "MIN_ON"
      <4>1. H.counter = Decr(F.counter) /\ H.autoState = IF F.counter = 1 THEN "ON" ELSE "MIN_ON"
        BY <2>1, <3>2
      <4> QED BY <1>1, <1>3, <2>3, <2>5, <3>2, <4>1, Nums, SMT DEF Cycled
    <3>3. CASE F.autoState = "MIN_OFF"
      <4>1. H.counter = Decr(F.counter) /\ H.autoState = IF F.counter = 1 THEN "OFF" ELSE "MIN_OFF"
        BY <2>1, <3>3
      <4> QED BY <1>1, <1>3, <2>3, <2>5, <3>3, <4>1, Nums, SMT DEF Cycled
    <3> QED BY <3>1, <3>2, <3>3
  <2>7. H.autoState # F.autoState => F.autoState \in {"MIN_ON", "MIN_OFF"} BY <2>1
  <2> QED BY <1>2, <2>1, <2>6, <2>7 DEF H, b
<1> QED BY <1>4, <1>5, <1>6, <1>7

(* What is started, or makes a step, has counted its delays.               *)
LEMMA BeginDelays ==
  ASSUME NEW F \in ForceRule, Fit(F), Is(F, "RUNNING") \/ Is(F, "START_RULE"),
         NEW a \in Nat, Limited(F, a, 0), Cycled(F, a, 0)
  PROVE  LET G == Started(F)
             H == IF IsAuto(F) THEN AutoNext(G) ELSE G
             b == IF ~ Is(F, "RUNNING") \/ (IsAuto(F) /\ (GoesOff(G) \/ GoesOn(G))) THEN 0 ELSE a
         IN /\ Limited(H, b, 0) /\ Cycled(H, b, 1)
            /\ Is(F, "RUNNING") /\ IsAuto(F) /\ H.autoState # F.autoState =>
                 /\ F.autoState = "ON"  => a >= F.rule.autoOn  /\ a + 1 >= F.rule.autoKf
                 /\ F.autoState = "OFF" => a >= F.rule.autoOff /\ a + 1 >= F.rule.autoKf
<1> DEFINE G == Started(F)
           H == IF IsAuto(F) THEN AutoNext(G) ELSE G
           b == IF ~ Is(F, "RUNNING") \/ (IsAuto(F) /\ (GoesOff(G) \/ GoesOn(G))) THEN 0 ELSE a
<1>1. G \in ForceRule /\ G.rule = F.rule /\ Is(G, "RUNNING") BY StartedSame DEF Same
<1>2. CASE Is(F, "RUNNING") /\ IsAuto(F)
  <2>1. G = F BY <1>2, Zenon DEF Started
  <2>2. H = AutoNext(F) /\ b = IF GoesOff(F) \/ GoesOn(F) THEN 0 ELSE a BY <1>2, <2>1, Zenon
  <2> QED BY <1>2, <2>2, NextDelays
<1>3. CASE Is(F, "RUNNING") /\ ~ IsAuto(F)
  <2>1. G = F BY <1>3, Zenon DEF Started
  <2>2. H = F /\ b = a BY <1>3, <2>1, Zenon
  <2>3. Cycled(F, a, 1) BY <1>3 DEF Cycled
  <2> QED BY <1>3, <2>2, <2>3
<1>4. CASE ~ Is(F, "RUNNING") /\ ~ IsAuto(F)
  <2>1. H = G /\ b = 0 BY <1>4, Zenon
  <2>2. G.delayCount = F.rule.delay BY <1>4, StdStartedIs
  <2> HIDE DEF G, H, b
  <2>3. Limited(G, 0, 0) BY <1>1, <2>2, Nums, SMT DEF Limited
  <2>4. Cycled(G, 0, 1) BY <1>1, <1>4 DEF Cycled, IsAuto
  <2> QED BY <1>4, <2>1, <2>3, <2>4 DEF G, H, b
<1>5. CASE ~ Is(F, "RUNNING") /\ IsAuto(F)
  <2>1. F.autoState = "IDLE" /\ Is(F, "START_RULE") BY <1>5 DEF Fit
  <2>2. G.kfCounter = F.rule.autoKf /\ G.autoState = "MIN_ON" /\ G.counter = F.rule.autoOn
    BY <1>5, <2>1, AutoStartedIs
  <2>3. H = AutoNext(G) /\ b = 0 BY <1>5, Zenon
  <2> HIDE DEF G, H, b
  <2>4. IsAuto(G) /\ Cycled(G, 0, 0) BY <1>1, <1>5, <2>2, Nums, SMT DEF Cycled, IsAuto
  <2>5. /\ Cycled(AutoNext(G), IF GoesOff(G) \/ GoesOn(G) THEN 0 ELSE 0, 1)
        /\ Limited(AutoNext(G), 0, 0)
    BY <1>1, <2>4, NextDelays
  <2> QED BY <1>5, <2>3, <2>5 DEF G, H, b
<1> QED BY <1>2, <1>3, <1>4, <1>5

(* What has a channel still runs, or its start rule is true.               *)
LEMMA StartsKept ==
  ASSUME StartsTrue, InPass' => InPass, dfStatus' = dfStatus,
         \A c \in Channel : Forced(tempStatus'[c]) => tempStatus'[c] = tempStatus[c],
         \A g \in Forcing : /\ On(g)' = On(g)
                            /\ Is(force[g], "START_RULE") => Is(force'[g], "START_RULE")
                            /\ Runs(g) => Runs(g)' \/ \A c \in Channel : tempStatus[c] # g
  PROVE  StartsTrue'
<1> SUFFICES ASSUME InPass', NEW c \in Channel
             PROVE  /\ Forced(tempStatus'[c]) =>
                         \/ Is(force'[tempStatus'[c]], "RUNNING")
                         \/ Is(force'[tempStatus'[c]], "START_RULE")
                    /\ Forced(dfStatus[c]) => On(dfStatus[c])' = c
  BY Zenon DEF StartsTrue, Forced, Runs
<1>1. /\ Forced(tempStatus[c]) => Runs(tempStatus[c]) \/ Is(force[tempStatus[c]], "START_RULE")
      /\ Forced(dfStatus[c]) => On(dfStatus[c]) = c
  BY Zenon DEF StartsTrue
<1>2. ASSUME NEW g \in Forcing, tempStatus'[c] = g
      PROVE  Is(force'[g], "RUNNING") \/ Is(force'[g], "START_RULE")
  <2>1. tempStatus[c] = g BY <1>2 DEF Forced
  <2>2. Runs(g) \/ Is(force[g], "START_RULE") BY <1>1, <2>1 DEF Forced
  <2> QED BY <2>1, <2>2, Zenon DEF Runs
<1> QED BY <1>1, <1>2, Zenon DEF Forced

(* No delay is counted in the step.                                        *)
LEMMA QuietDelays ==
  ASSUME TypeOK, RulesKnown, DelaysCount, age' = age,
         \A g \in Forcing : \/ SameDelays(force[g], force'[g])
                            \/ ~ Runs(g)' /\ force'[g].rule \in UserRules,
         \/ UNCHANGED <<pc, ix>> /\ \A g \in Forcing : On(g)' = On(g)
         \/ /\ pc # "stop" /\ pc' # "stop"
            /\ pc' \in {"idle", "cfgSwitch", "sd"} \/ pc \in {"start", "divert", "switch", "preempt"}
  PROVE  RulesKnown' /\ DelaysCount'
<1>1. RulesKnown' BY Zenon DEF RulesKnown, SameDelays
<1>2. ASSUME NEW g \in Forcing PROVE DelaysOf(g)'
  <2>1. DelaysOf(g) BY DelaysOfAll
  <2>2. (StopPending(g)' <=> StopPending(g)) /\ (BeginPending(g)' => BeginPending(g))
    <3>1. CASE UNCHANGED <<pc, ix>> /\ \A h \in Forcing : On(h)' = On(h)
      BY <3>1, Zenon DEF StopPending, BeginPending, InPass
    <3>2. CASE /\ pc # "stop" /\ pc' # "stop"
               /\ pc' \in {"idle", "cfgSwitch", "sd"} \/ pc \in {"start", "divert", "switch", "preempt"}
      BY <3>2, SMT DEF StopPending, BeginPending, InPass
    <3> QED BY <3>1, <3>2
  <2> QED BY <2>1, <2>2, DelaysKept
<1> QED BY <1>1, <1>2, DelaysOfNext

(* A second begins: all forcings age.                                      *)
LEMMA BeginSecond ==
  ASSUME LongAge, TypeOK, RegInv, DelayInv, NextBegin PROVE DelayInv'
<1>1. ASSUME NEW g \in Forcing
      PROVE  /\ SameDelays(force[g], force'[g])
             /\ age'[g] = IF age[g] < AgeMax THEN age[g] + 1 ELSE age[g]
  <2> DEFINE F == force[g]
             s == F.status \ {"START_RULE", "STOP_RULE"}
             H == [F EXCEPT !.status = s]
  <2>1. /\ force'[g] = H
        /\ age'[g] = IF age[g] < AgeMax THEN age[g] + 1 ELSE age[g]
    BY Zenon DEF NextBegin
  <2>2. F \in ForceRule BY OnChannel
  <2> HIDE DEF F
  <2>3. F.status \in SUBSET Status BY <2>2, SMT DEF ForceRule
  <2>4. s \in SUBSET Status /\ ("RUNNING" \in s <=> "RUNNING" \in F.status) BY <2>3, SMT
  <2> HIDE DEF s
  <2>5. SameCounts(F, H) /\ H.status = s BY <2>2, <2>4, StatusCounts
  <2> HIDE DEF H
  <2>6. SameDelays(F, H) BY <2>4, <2>5, Zenon DEF SameCounts, SameDelays, Is
  <2> QED BY <2>1, <2>6 DEF F
<1>2. /\ pc = "idle" /\ pc' = "stop" /\ ix' = 0 /\ tempStatus' = dfStatus /\ dfStatus' = dfStatus
  BY Zenon DEF NextBegin
<1>3. \A g \in Forcing : On(g)' = On(g) /\ (Runs(g)' <=> Runs(g))
  BY <1>1, Zenon DEF SameDelays, On, Runs
<1>4. RulesKnown' BY <1>1, Zenon DEF DelayInv, RulesKnown, SameDelays
<1>5. StartsTrue'
  <2> SUFFICES ASSUME NEW c \in Channel, NEW g \in Forcing, dfStatus[c] = g
               PROVE  Runs(g)' /\ On(g)' = c
    BY <1>2, Zenon DEF StartsTrue, Forced
  <2> QED BY <1>2, <1>3, SMT DEF RegInv, DfExact
<1>6. ASSUME NEW g \in Forcing PROVE DelaysOf(g)'
  <2> DEFINE F == force[g]
             H == force'[g]
             a == age[g]
             b == age'[g]
  <2>1. /\ F \in ForceRule /\ a \in Nat /\ a <= AgeMax /\ AgeMax \in Nat /\ On(g)' \in Nat
        /\ b = IF a < AgeMax THEN a + 1 ELSE a
    <3>1. age[g] \in 0 .. AgeMax BY Zenon DEF TypeOK
    <3>2. On(g)' \in Nat BY <1>3, OnChannel, Chan
    <3> QED BY <1>1, <3>1, <3>2, OnChannel, DivertAssumption, SMT
  <2>2. Due(g) = 0 /\ Done(g) = 1 /\ Due(g)' = 1 /\ Done(g)' = 0
    BY <1>2, <2>1, SMT DEF Due, Done, StopPending, BeginPending, InPass
  <2>3. Limited(F, a, 0) /\ Cycled(F, a, 1) BY <2>2, DelaysOfAll, Zenon DEF DelayInv, DelaysOf
  <2>4. SameDelays(F, H) BY <1>1
  <2>5. /\ F.rule.delay <= AgeMax
        /\ F.rule.autoOn <= AgeMax /\ F.rule.autoOff <= AgeMax /\ F.rule.autoKf <= AgeMax
    BY Zenon DEF LongAge, DelayInv, RulesKnown
  <2> HIDE DEF F, H, a, b
  <2>6. Limited(F, b, 1)
    BY <2>1, <2>3, <2>5, Nums, SMT DEF Limited
  <2>7. Cycled(F, b, 0)
    BY <2>1, <2>3, <2>5, Nums, SMT DEF Cycled
  <2>8. b \in Nat BY <2>1
  <2>9. Limited(H, b, 1) BY <2>1, <2>4, <2>6, <2>8, KeepsDelays
  <2>10. Cycled(H, b, 0) BY <2>1, <2>4, <2>7, <2>8, KeepsDelays
  <2> QED BY <2>2, <2>9, <2>10, Zenon DEF DelaysOf, H, b
<1> QED BY <1>4, <1>5, <1>6, DelaysOfNext DEF DelayInv

(* The stop rule of each forcing that runs is checked once.                *)
LEMMA Unchecked ==
  ASSUME TypeOK, pc = "stop", Loop(ChanMax - 1, "start"), NEW g \in Forcing, On(g)' = On(g),
         On(g) # ix \/ ~ (Runs(g) /\ IsStd(force[g]))
  PROVE  /\ (StopPending(g)' <=> StopPending(g)) \/ ~ (Runs(g) /\ IsStd(force[g]))
         /\ BeginPending(g)' => BeginPending(g)
<1>1. On(g) \in Nat /\ On(g) < ChanMax /\ ChanMax \in Nat /\ ix \in Nat
  BY OnChannel, Chan DEF TypeOK
<1>2. \/ pc' = "start" /\ ix = ChanMax - 1
      \/ pc' = "stop" /\ ix' = ix + 1
  BY SMT DEF Loop
<1>3. BeginPending(g) BY SMT DEF BeginPending, InPass
<1>4. On(g) # ix => (StopPending(g)' <=> StopPending(g)) BY <1>1, <1>2, SMT DEF StopPending
<1> QED BY <1>3, <1>4

(* There is no stop rule to check.                                         *)
LEMMA NoStopDelays == ASSUME TypeOK, RegInv, DelayInv, NoStop PROVE DelayInv'
<1>1. /\ pc = "stop" /\ Loop(ChanMax - 1, "start") /\ ix \in Channel
      /\ Forced(tempStatus[ix]) =>
           IsStd(force[tempStatus[ix]]) /\ ~ Is(force[tempStatus[ix]], "RUNNING")
      /\ force' = force /\ age' = age /\ tempStatus' = tempStatus /\ dfStatus' = dfStatus
  <2>1. pc = "stop" BY DEF NoStop
  <2>2. ix \in Channel BY <2>1, Chan DEF TypeOK
  <2> QED BY <2>1, <2>2, Zenon DEF NoStop, forcing
<1>2. pc' \in {"stop", "start"} BY <1>1, Zenon DEF Loop
<1>3. RulesKnown' BY <1>1, Zenon DEF DelayInv, RulesKnown
<1>4. StartsTrue'
  <2>1. InPass BY <1>1 DEF InPass
  <2> QED BY <1>1, <2>1, StartsKept, Zenon DEF DelayInv, On, Runs
<1>5. ASSUME NEW g \in Forcing PROVE DelaysOf(g)'
  <2>1. On(g) # ix \/ ~ Runs(g)
    <3> SUFFICES ASSUME On(g) = ix, Runs(g) PROVE FALSE OBVIOUS
    <3>1. dfStatus[ix] = g BY <1>1, SMT DEF RegInv, DfExact
    <3>2. tempStatus[ix] = g BY <1>1, <3>1, Zenon DEF RegInv, TempPrevails
    <3> QED BY <1>1, <3>2, Zenon DEF Forced, Runs
  <2>2. On(g)' = On(g) /\ SameDelays(force[g], force'[g]) /\ age'[g] = age[g]
    BY <1>1, Zenon DEF On, SameDelays
  <2>3. /\ (StopPending(g)' <=> StopPending(g)) \/ ~ (Runs(g) /\ IsStd(force[g]))
        /\ BeginPending(g)' => BeginPending(g)
    BY <1>1, <2>1, <2>2, Unchecked
  <2> QED BY <2>2, <2>3, DelaysOfAll, DelaysKept, Zenon DEF DelayInv
<1> QED BY <1>3, <1>4, <1>5, DelaysOfNext DEF DelayInv

(* The check of a stop rule.                                               *)
LEMMA StopDelays ==
  ASSUME TypeOK, RegInv, RegInv', OutInv, DelayInv, NEW e \in BOOLEAN, StopCheck(e)
  PROVE  DelayInv'
<1>0. pc = "stop" /\ tempStatus[ix] \in Forcing BY Zenon DEF StopCheck, Forced
<1> PICK f \in Forcing : f = tempStatus[ix] BY <1>0
<1> DEFINE F == force[f]
           G == Second(F)
           T == Told(F, G)
           true == StopExpr(F, e) \/ Order(F)
           H == IF ~ true THEN G ELSE IF Ends(F) THEN Stopped(T) ELSE T
<1>1. /\ force' = [force EXCEPT ![f] = H] /\ age' = age
      /\ Loop(ChanMax - 1, "start")
      /\ \/ /\ tempStatus' = [tempStatus EXCEPT ![ix] = Empty]
            /\ dfStatus' = [dfStatus EXCEPT ![ix] = Empty]
         \/ tempStatus' = tempStatus /\ dfStatus' = dfStatus
  BY Zenon DEF StopCheck
<1>2. /\ ix \in Channel /\ F \in ForceRule /\ Fit(F) /\ Is(F, "VALID") /\ Is(F, "RUNNING")
      /\ On(f) = ix
      /\ \A g \in Forcing, c \in Channel : dfStatus[c] = g <=> Runs(g) /\ On(g) = c
      /\ \A c \in Channel : tempStatus[c] = dfStatus[c]
  <2>1. ix \in Channel BY <1>0, Chan DEF TypeOK
  <2>2. dfStatus[ix] = f BY <1>0, <2>1, Zenon DEF RegInv, TempPrevails
  <2>3. \A g \in Forcing, c \in Channel : dfStatus[c] = g <=> Runs(g) /\ On(g) = c
    BY <1>0, SMT DEF RegInv, DfExact
  <2>4. Runs(f) /\ On(f) = ix BY <2>1, <2>2, <2>3
  <2> QED
    BY <1>0, <2>1, <2>3, <2>4, OnChannel, Zenon DEF Runs, OutInv, AllFit, RegInv, AllValid, TempPrevails
<1>3. pc' \in {"stop", "start"} BY <1>0, <1>1, Zenon DEF Loop
<1>4. H.rule = F.rule
  <2>1. Same(F, G) BY <1>2, SecondSame
  <2>2. Same(G, T) BY <1>2, <2>1, ToldSame DEF Same
  <2>3. Same(T, Stopped(T)) BY <2>2, StoppedSame DEF Same
  <2> HIDE DEF F, G, T, true
  <2> QED BY <2>1, <2>2, <2>3 DEF Same
<1>5. \A d \in {0, 1} : Limited(F, age[f], 1) /\ Cycled(F, age[f], d) =>
                        Limited(H, age[f], 0) /\ Cycled(H, age[f], d)
  <2> SUFFICES ASSUME NEW d \in {0, 1}, Limited(F, age[f], 1), Cycled(F, age[f], d)
               PROVE  Limited(H, age[f], 0) /\ Cycled(H, age[f], d)
    OBVIOUS
  <2>1. age[f] \in Nat
    <3>1. age[f] \in 0 .. AgeMax BY Zenon DEF TypeOK
    <3> QED BY <3>1, DivertAssumption, SMT
  <2> HIDE DEF F
  <2> QED BY <1>2, <2>1, SecondDelays
<1> HIDE DEF H
<1>6. \A g \in Forcing : force'[g] = IF g = f THEN H ELSE force[g] BY <1>1, Zenon DEF TypeOK
<1>7. \A g \in Forcing : On(g)' = On(g) /\ force'[g].rule = force[g].rule
  BY <1>4, <1>6, Zenon DEF On
<1>8. RulesKnown' BY <1>7, Zenon DEF DelayInv, RulesKnown
<1>9. StartsTrue'
  <2>1. \A c \in Channel : tempStatus'[c] = dfStatus'[c] BY <1>1, <1>2, SMT DEF TypeOK
  <2>2. \A g \in Forcing, c \in Channel : dfStatus'[c] = g <=> Runs(g)' /\ On(g)' = c
    BY <1>3, SMT DEF RegInv, DfExact
  <2> SUFFICES ASSUME NEW c \in Channel, NEW g \in Forcing, dfStatus'[c] = g
               PROVE  Runs(g)' /\ On(g)' = c
    BY <2>1, Zenon DEF StartsTrue, Forced
  <2> QED BY <2>2
<1>10. DelaysOf(f)'
  <2>1. Due(f) = 1 /\ Done(f) = 0 /\ Done(f)' = 0 /\ Due(f)' = 0
    <3>1. Due(f) = 1 /\ Done(f) = 0
      BY <1>0, <1>2, Chan, SMT DEF Due, Done, StopPending, BeginPending, InPass
    <3>2. Done(f)' = 0 BY <1>3, SMT DEF Done, BeginPending, InPass
    <3>3. Due(f)' = 0
      <4>1. On(f)' = ix BY <1>2, <1>7
      <4>2. pc' = "start" \/ (pc' = "stop" /\ ix' = ix + 1) BY <1>0, <1>1, SMT DEF Loop
      <4> QED BY <1>2, <4>1, <4>2, Chan, SMT DEF Due, StopPending
    <3> QED BY <3>1, <3>2, <3>3
  <2>2. Limited(F, age[f], 1) /\ Cycled(F, age[f], 0)
    BY <2>1, DelaysOfAll, Zenon DEF DelayInv, DelaysOf
  <2>3. Limited(H, age[f], 0) /\ Cycled(H, age[f], 0) BY <1>5, <2>2
  <2>4. force'[f] = H /\ age'[f] = age[f] BY <1>1, <1>6
  <2> QED BY <2>1, <2>3, <2>4, Zenon DEF DelaysOf
<1>11. ASSUME NEW g \in Forcing, g # f PROVE DelaysOf(g)'
  <2>1. On(g) # ix \/ ~ Runs(g) BY <1>2, <1>11
  <2>2. On(g)' = On(g) /\ SameDelays(force[g], force'[g]) /\ age'[g] = age[g]
    BY <1>1, <1>6, <1>7, <1>11, Zenon DEF SameDelays
  <2>3. /\ (StopPending(g)' <=> StopPending(g)) \/ ~ (Runs(g) /\ IsStd(force[g]))
        /\ BeginPending(g)' => BeginPending(g)
    BY <1>0, <1>1, <2>1, <2>2, Unchecked
  <2> QED BY <2>2, <2>3, DelaysOfAll, DelaysKept, Zenon DEF DelayInv
<1> QED BY <1>8, <1>9, <1>10, <1>11, DelaysOfNext DEF DelayInv

(* The check of a start rule.                                              *)
LEMMA StartPass ==
  ASSUME TypeOK, RegInv, DelayInv, NEW e \in BOOLEAN, StartCheck(e) PROVE DelayInv'
<1>1. PICK i \in Forcing : i = ix /\ pc = "start" BY Chan, SMT DEF StartCheck, TypeOK
<1> DEFINE F == force[i]
           expr   == Is(F, "VALID") /\ F.on /\ e
           manual == Is(F, "MANUAL_ORDER") /\ ~ Is(F, "RUNNING")
           true   == (expr /\ ~ Is(F, "DMAX_WAITING")) \/ manual
           s == (F.status \ ((IF expr THEN {} ELSE {"DMAX_WAITING"}) \cup
                             (IF manual THEN {"MANUAL_ORDER"} ELSE {})))
                \cup (IF true THEN {"START_RULE"} ELSE {})
           G == [F EXCEPT !.status = s]
           c0 == F.rule.channel
<1>2. /\ force' = [force EXCEPT ![i] = G]
      /\ tempStatus' = [tempStatus EXCEPT ![c0] = IF true THEN Override(tempStatus[c0], i)
                                                  ELSE tempStatus[c0]]
      /\ dfStatus' = dfStatus /\ age' = age
  BY <1>1, Zenon DEF StartCheck
<1>3. pc' \in {"start", "divert"} BY <1>1, Zenon DEF StartCheck, Loop
<1>4. F \in ForceRule /\ c0 \in Channel BY OnChannel DEF On
<1>5. F.status \in SUBSET Status BY <1>4, SMT DEF ForceRule
<1>6. s \in SUBSET Status BY <1>5, SMT DEF Status
<1>7. /\ "RUNNING" \in s <=> "RUNNING" \in F.status
      /\ "START_RULE" \in F.status => "START_RULE" \in s
      /\ true => "START_RULE" \in s
  BY SMT
<1> HIDE DEF F, s, true
<1>8. SameCounts(F, G) /\ G.status = s BY <1>4, <1>6, StatusCounts
<1>9. \A g \in Forcing : force'[g] = IF g = i THEN G ELSE force[g] BY <1>2, Zenon DEF TypeOK
<1> HIDE DEF G
<1>10. /\ SameDelays(F, G) /\ (Is(F, "START_RULE") => Is(G, "START_RULE"))
       /\ true => Is(G, "START_RULE")
  BY <1>7, <1>8, Zenon DEF SameCounts, SameDelays, Is
<1>11. \A g \in Forcing : /\ SameDelays(force[g], force'[g])
                          /\ Is(force[g], "START_RULE") => Is(force'[g], "START_RULE")
  BY <1>9, <1>10, Zenon DEF SameDelays, F
<1>12. \A g \in Forcing : On(g)' = On(g) /\ (Runs(g)' <=> Runs(g))
  BY <1>11, Zenon DEF SameDelays, On, Runs
<1>13. RulesKnown' /\ DelaysCount'
  BY <1>1, <1>2, <1>3, <1>11, QuietDelays DEF DelayInv
<1>14. \A c \in Channel : tempStatus'[c] = tempStatus[c] \/ (tempStatus'[c] = i /\ true)
  <2> DEFINE u == IF true THEN Override(tempStatus[c0], i) ELSE tempStatus[c0]
  <2>1. u = tempStatus[c0] \/ (u = i /\ true) BY Zenon DEF Override
  <2>2. tempStatus' = [tempStatus EXCEPT ![c0] = u] BY <1>2
  <2> HIDE DEF u, c0
  <2>3. \A c \in Channel : tempStatus'[c] = IF c = c0 THEN u ELSE tempStatus[c]
    BY <2>2, Zenon DEF TypeOK
  <2> QED BY <2>1, <2>3
<1>15. StartsTrue'
  <2> SUFFICES ASSUME NEW c \in Channel
               PROVE  /\ \A g \in Forcing : tempStatus'[c] = g =>
                           Is(force'[g], "RUNNING") \/ Is(force'[g], "START_RULE")
                      /\ \A g \in Forcing : dfStatus[c] = g => On(g)' = c
    BY <1>2, Zenon DEF StartsTrue, Forced, Runs, On
  <2>1. InPass BY <1>1 DEF InPass
  <2>2. \A g \in Forcing : /\ tempStatus[c] = g => Runs(g) \/ Is(force[g], "START_RULE")
                           /\ dfStatus[c] = g => On(g) = c
    BY <2>1, Zenon DEF DelayInv, StartsTrue, Forced
  <2>3. true => Is(force'[i], "START_RULE") BY <1>9, <1>10
  <2> QED BY <1>11, <1>12, <1>14, <2>2, <2>3, Zenon DEF Runs
<1> QED BY <1>13, <1>15 DEF DelayInv

(* A forcing is displaced.                                                 *)
LEMMA PreemptPass == ASSUME TypeOK, RegInv, DelayInv, Preempt PROVE DelayInv'
<1>1. /\ pc = "preempt" /\ pc' \in {"preempt", "begin"}
      /\ UNCHANGED <<dfStatus, tempStatus, age>>
  BY Zenon DEF Preempt, Loop
<1>2. \A g \in Forcing : Kept(g) BY PreemptReg
<1>3. \A g \in Forcing : force'[g] = force[g] \/ (Stopped(force[g]) = force'[g] /\ g = dfStatus[ix]
                                                  /\ Forced(tempStatus[ix]) /\ tempStatus[ix] < g)
  <2>1. CASE Forced(tempStatus[ix]) /\ Forced(dfStatus[ix]) /\ tempStatus[ix] < dfStatus[ix]
    <3> PICK f \in Forcing : f = dfStatus[ix] BY <2>1 DEF Forced
    <3> DEFINE H == Stopped(force[f])
    <3>1. force' = [force EXCEPT ![f] = H] BY <2>1, Zenon DEF Preempt
    <3> HIDE DEF H
    <3>2. \A g \in Forcing : force'[g] = IF g = f THEN H ELSE force[g] BY <3>1, Zenon DEF TypeOK
    <3> QED BY <2>1, <3>2, Zenon DEF H
  <2>2. CASE ~ (Forced(tempStatus[ix]) /\ Forced(dfStatus[ix]) /\ tempStatus[ix] < dfStatus[ix])
    <3>1. force' = force BY <2>2, Zenon DEF Preempt
    <3> QED BY <3>1
  <2> QED BY <2>1, <2>2
<1>4. \A g \in Forcing : \/ SameDelays(force[g], force'[g])
                         \/ ~ Runs(g)' /\ force'[g].rule \in UserRules
  <2> SUFFICES ASSUME NEW g \in Forcing
               PROVE  \/ SameDelays(force[g], force'[g])
                      \/ ~ Runs(g)' /\ force'[g].rule \in UserRules
    OBVIOUS
  <2>1. CASE force'[g] = force[g] BY <2>1 DEF SameDelays
  <2>2. CASE Stopped(force[g]) = force'[g]
    <3>1. ~ Is(Stopped(force[g]), "RUNNING") /\ Stopped(force[g]).rule = force[g].rule
      BY OnChannel, StoppedSame DEF Same
    <3> QED BY <2>2, <3>1, Zenon DEF Runs, DelayInv, RulesKnown
  <2> QED BY <1>3, <2>1, <2>2
<1>5. RulesKnown' /\ DelaysCount' BY <1>1, <1>4, QuietDelays DEF DelayInv
<1>6. ASSUME NEW g \in Forcing, Runs(g)
      PROVE  Runs(g)' \/ \A c \in Channel : tempStatus[c] # g
  <2>1. CASE force'[g] = force[g] BY <1>6, <2>1, Zenon DEF Runs
  <2>2. CASE g = dfStatus[ix] /\ tempStatus[ix] < g
    <3>1. ix \in Channel /\ InPass BY <1>1, Chan DEF TypeOK, InPass
    <3>2. On(g) = ix BY <2>2, <3>1, Zenon DEF DelayInv, StartsTrue, Forced
    <3>3. tempStatus[ix] # g BY <2>2, Chan, SMT
    <3> QED BY <3>1, <3>2, <3>3, Zenon DEF RegInv, TempOfChannel, Forced
  <2> QED BY <1>3, <2>1, <2>2
<1>7. StartsTrue'
  <2>1. InPass BY <1>1 DEF InPass
  <2>2. \A g \in Forcing : /\ On(g)' = On(g)
                           /\ Is(force[g], "START_RULE") => Is(force'[g], "START_RULE")
    BY <1>2, Zenon DEF Kept
  <2> QED BY <1>1, <1>6, <2>1, <2>2, StartsKept DEF DelayInv
<1> QED BY <1>5, <1>7 DEF DelayInv

(* A forcing is started, or its automaton makes a step.                    *)
LEMMA BeginPass ==
  ASSUME TypeOK, RegInv, RegInv', OutInv, DelayInv, Begin
  PROVE  /\ DelayInv'
         /\ \A f \in Forcing :
              LET F == force[f] IN
              Is(F, "RUNNING") /\ IsAuto(F) /\ force'[f].autoState # F.autoState =>
                /\ F.autoState = "ON"  => age[f] >= F.rule.autoOn  /\ age[f] + 1 >= F.rule.autoKf
                /\ F.autoState = "OFF" => age[f] >= F.rule.autoOff /\ age[f] + 1 >= F.rule.autoKf
<1>1. /\ pc = "begin" /\ ix \in Channel /\ InPass /\ tempStatus' = tempStatus
      /\ \/ pc' = "idle"
         \/ pc' = "begin" /\ ix' = ix + 1 /\ dfStatus' = dfStatus
  <2>1. pc = "begin" BY DEF Begin
  <2>2. ix \in Channel BY <2>1, Chan DEF TypeOK
  <2> QED BY <2>1, <2>2, SMT DEF Begin, Loop, InPass
<1>2. \A g \in Forcing : Kept(g) BY BeginReg
<1> DEFINE AutoWaits(f) ==
      Is(force[f], "RUNNING") /\ IsAuto(force[f]) /\ force'[f].autoState # force[f].autoState =>
        /\ force[f].autoState = "ON" =>
             age[f] >= force[f].rule.autoOn  /\ age[f] + 1 >= force[f].rule.autoKf
        /\ force[f].autoState = "OFF" =>
             age[f] >= force[f].rule.autoOff /\ age[f] + 1 >= force[f].rule.autoKf
<1>3. ASSUME NEW g \in Forcing, force'[g] = force[g], age'[g] = age[g]
      PROVE  /\ force'[g].rule = force[g].rule /\ (Runs(g) => Runs(g)')
             /\ DelaysOf(g)' /\ AutoWaits(g)
  <2>1. SameDelays(force[g], force'[g]) /\ AutoWaits(g) BY <1>3, Zenon DEF SameDelays
  <2>2. (StopPending(g)' <=> StopPending(g)) /\ (BeginPending(g)' => BeginPending(g))
    <3>1. On(g)' = On(g) /\ On(g) \in Nat /\ ix \in Nat BY <1>2, OnChannel, Chan, <1>1 DEF Kept
    <3> QED BY <1>1, <3>1, SMT DEF StopPending, BeginPending, InPass
  <2> HIDE DEF AutoWaits
  <2>3. DelaysOf(g)' BY <1>3, <2>1, <2>2, DelaysOfAll, DelaysKept DEF DelayInv
  <2> QED BY <1>3, <2>1, <2>3, Zenon DEF Runs
<1>4. ASSUME NEW f \in Forcing, tempStatus[ix] = f
      PROVE  /\ force'[f].rule = force[f].rule /\ Runs(f)'
             /\ DelaysOf(f)' /\ AutoWaits(f)
             /\ \A g \in Forcing : g # f => force'[g] = force[g] /\ age'[g] = age[g]
  <2> DEFINE F == force[f]
             G == Started(F)
             H == IF IsAuto(F) THEN AutoNext(G) ELSE G
             a == age[f]
             b == IF ~ Is(F, "RUNNING") \/ (IsAuto(F) /\ (GoesOff(G) \/ GoesOn(G))) THEN 0 ELSE a
  <2>1. force' = [force EXCEPT ![f] = H] /\ age' = [age EXCEPT ![f] = b]
    BY <1>4, Zenon DEF Begin, Forced
  <2>2. /\ F \in ForceRule /\ Fit(F) /\ a \in Nat /\ On(f) = ix
        /\ Is(F, "RUNNING") \/ Is(F, "START_RULE")
    <3>1. age[f] \in 0 .. AgeMax BY Zenon DEF TypeOK
    <3>2. a \in Nat BY <3>1, DivertAssumption, SMT
    <3>3. On(f) = ix BY <1>1, <1>4, Zenon DEF RegInv, TempOfChannel, Forced
    <3>4. Runs(f) \/ Is(force[f], "START_RULE")
      BY <1>1, <1>4, Zenon DEF DelayInv, StartsTrue, Forced
    <3> QED BY <3>2, <3>3, <3>4, OnChannel, Zenon DEF OutInv, AllFit, Runs
  <2>3. /\ Due(f) = 0 /\ Done(f) = 0 /\ Due(f)' = 0 /\ Done(f)' = 1
    <3>1. On(f)' = ix /\ ix \in Nat BY <1>1, <1>2, <2>2, Chan DEF Kept
    <3> QED BY <1>1, <2>2, <3>1, SMT DEF Due, Done, StopPending, BeginPending, InPass
  <2>4. Limited(F, a, 0) /\ Cycled(F, a, 0) BY <2>3, DelaysOfAll, Zenon DEF DelayInv, DelaysOf
  <2> HIDE DEF F, a
  <2>5. /\ Limited(H, b, 0) /\ Cycled(H, b, 1)
        /\ Is(F, "RUNNING") /\ IsAuto(F) /\ H.autoState # F.autoState =>
             /\ F.autoState = "ON"  => a >= F.rule.autoOn  /\ a + 1 >= F.rule.autoKf
             /\ F.autoState = "OFF" => a >= F.rule.autoOff /\ a + 1 >= F.rule.autoKf
    BY <2>2, <2>4, BeginDelays
  <2>6. H.rule = F.rule /\ Is(H, "RUNNING")
    <3>1. G \in ForceRule /\ G.rule = F.rule /\ Is(G, "RUNNING") BY <2>2, StartedSame DEF Same
    <3> HIDE DEF G
    <3>2. AutoNext(G).rule = G.rule /\ Is(AutoNext(G), "RUNNING") BY <3>1, AutoNextSame DEF Same
    <3> QED BY <3>1, <3>2
  <2> HIDE DEF H, b
  <2>7. /\ \A g \in Forcing : force'[g] = IF g = f THEN H ELSE force[g]
        /\ \A g \in Forcing : age'[g] = IF g = f THEN b ELSE age[g]
    BY <2>1, Zenon DEF TypeOK
  <2>8. DelaysOf(f)' BY <2>3, <2>5, <2>7, Zenon DEF DelaysOf
  <2>9. AutoWaits(f) BY <2>5, <2>7 DEF F, a
  <2> QED BY <2>6, <2>7, <2>8, <2>9, Zenon DEF Runs, F
<1>5. \A g \in Forcing : /\ force'[g].rule = force[g].rule /\ (Runs(g) => Runs(g)')
                         /\ DelaysOf(g)' /\ AutoWaits(g)
  <2> HIDE DEF AutoWaits
  <2>1. CASE Forced(tempStatus[ix])
    <3> PICK f \in Forcing : tempStatus[ix] = f BY <2>1 DEF Forced
    <3> QED BY <1>3, <1>4
  <2>2. CASE ~ Forced(tempStatus[ix])
    <3>1. force' = force /\ age' = age BY <2>2, Zenon DEF Begin
    <3> QED BY <1>3, <3>1
  <2> QED BY <2>1, <2>2
<1>6. RulesKnown' BY <1>5, Zenon DEF DelayInv, RulesKnown
<1>7. StartsTrue'
  <2>1. CASE pc' = "idle" BY <2>1, SMT DEF StartsTrue, InPass
  <2>2. CASE dfStatus' = dfStatus
    <3>1. \A g \in Forcing : /\ On(g)' = On(g)
                             /\ Is(force[g], "START_RULE") => Is(force'[g], "START_RULE")
      BY <1>2, Zenon DEF Kept
    <3> QED BY <1>1, <1>5, <2>2, <3>1, StartsKept DEF DelayInv
  <2> QED BY <1>1, <2>1, <2>2
<1> QED BY <1>5, <1>6, <1>7, DelaysOfNext DEF DelayInv

(* No forcing runs at first.                                               *)
LEMMA InitDelays == Configured /\ Init => DelayInv
<1> SUFFICES ASSUME Init PROVE DelayInv OBVIOUS
<1>1. pc = "idle" /\ \A f \in Forcing : force[f] = Fresh(Stored[f]) BY Zenon DEF Init
<1>2. \A f \in Forcing : Fresh(Stored[f]).rule = Stored[f] BY StoredType, FreshType
<1>3. RulesKnown BY <1>1, <1>2, Zenon DEF RulesKnown, UserRules
<1>4. StartsTrue BY <1>1, SMT DEF StartsTrue, InPass
<1>5. \A f \in Forcing : DelaysOf(f)
  BY <1>1, FreshRuns, Zenon DEF DelaysOf, Limited, Cycled
<1> QED BY <1>3, <1>4, <1>5, DelaysOfAll DEF DelayInv

(* Between two seconds.                                                    *)
LEMMA IdleDelays ==
  ASSUME TypeOK, DelayInv, pc \notin {"stop", "begin"}, pc' \in {"idle", "cfgSwitch", "sd"}, age' = age,
         \A g \in Forcing : \/ SameDelays(force[g], force'[g])
                            \/ ~ Runs(g)' /\ force'[g].rule \in UserRules
  PROVE  DelayInv'
<1>1. RulesKnown' /\ DelaysCount' BY QuietDelays DEF DelayInv
<1>2. StartsTrue' BY SMT DEF StartsTrue, InPass
<1> QED BY <1>1, <1>2 DEF DelayInv

(* The forcings are left alone, but for an order.                          *)
LEMMA SameForcings ==
  ASSUME TypeOK, DelayInv, UNCHANGED <<dfStatus, tempStatus, age, pc, ix>>,
         \A g \in Forcing : /\ SameDelays(force[g], force'[g])
                            /\ Is(force[g], "START_RULE") => Is(force'[g], "START_RULE")
  PROVE  DelayInv'
<1>1. \A g \in Forcing : On(g)' = On(g) /\ (Runs(g)' <=> Runs(g))
  BY Zenon DEF SameDelays, On, Runs
<1>2. RulesKnown' /\ DelaysCount' BY <1>1, QuietDelays DEF DelayInv
<1>3. (InPass' => InPass) /\ dfStatus' = dfStatus /\ \A c \in Channel : tempStatus'[c] = tempStatus[c]
  BY Zenon DEF InPass
<1>4. StartsTrue' BY <1>1, <1>3, StartsKept DEF DelayInv
<1> QED BY <1>2, <1>4 DEF DelayInv

(* Every step keeps DelayInv.                                              *)
LEMMA StepDelays ==
  Configured /\ LongAge /\ TypeOK /\ RegInv /\ RegInv' /\ OutInv /\ DelayInv /\ [Next]_vars => DelayInv'
<1> SUFFICES ASSUME Configured, LongAge, TypeOK, RegInv, RegInv', OutInv, DelayInv, [Next]_vars
             PROVE  DelayInv'
  OBVIOUS
<1>1. force' = force => \A g \in Forcing : /\ SameDelays(force[g], force'[g]) /\ On(g)' = On(g)
                                           /\ (Runs(g)' <=> Runs(g))
  BY Zenon DEF SameDelays, On, Runs
<1>2. CASE NoStart \/ Switched
  <2>1. /\ force' = force /\ age' = age /\ dfStatus' = dfStatus /\ tempStatus' = tempStatus
        /\ \/ pc = "start" /\ pc' \in {"start", "divert"}
           \/ pc = "switch" /\ pc' = "preempt"
    <3>1. CASE NoStart BY <3>1, Zenon DEF NoStart, Loop, forcing
    <3>2. CASE Switched BY <3>2, Zenon DEF Switched, forcing
    <3> QED BY <1>2, <3>1, <3>2
  <2>2. RulesKnown' /\ DelaysCount' BY <1>1, <2>1, QuietDelays, Zenon DEF DelayInv
  <2>3. StartsTrue'
    <3>1. InPass BY <2>1 DEF InPass
    <3> QED BY <1>1, <2>1, <3>1, StartsKept, Zenon DEF DelayInv
  <2> QED BY <2>2, <2>3 DEF DelayInv
<1>3. ASSUME NEW d \in [Ssr -> BOOLEAN], Divert(d) PROVE DelayInv'
  <2>1. pc = "divert" /\ force' = force /\ age' = age /\ dfStatus' = dfStatus
    BY <1>3, Zenon DEF Divert
  <2>2. pc' \in {"switch", "preempt"} BY <1>3, Zenon DEF Divert, ChangeTo
  <2>3. \A c \in Channel : Forced(tempStatus'[c]) => tempStatus'[c] = tempStatus[c]
    <3> DEFINE div(c) == ~ Forced(tempStatus[c]) /\ d[c] /\ (c = 1 => Forced(tempStatus[0]) \/ ~ d[0])
    <3>1. tempStatus' = [c \in Channel |->
               IF c \notin Ssr \/ Forced(tempStatus[c]) THEN tempStatus[c]
               ELSE IF div(c) THEN Diverting ELSE Empty]
      BY <1>3, Zenon DEF Divert
    <3> HIDE DEF div
    <3> QED BY <3>1, Chan, Zenon
  <2>4. RulesKnown' /\ DelaysCount' BY <1>1, <2>1, <2>2, QuietDelays, Zenon DEF DelayInv
  <2>5. StartsTrue'
    <3>1. InPass BY <2>1 DEF InPass
    <3> QED BY <1>1, <2>1, <2>3, <3>1, StartsKept, Zenon DEF DelayInv
  <2> QED BY <2>4, <2>5 DEF DelayInv
<1>4. ASSUME NEW f \in Forcing, Manual(f) PROVE DelayInv'
  <2> DEFINE F == force[f]
             s == F.status \cup {"MANUAL_ORDER"}
             G == [F EXCEPT !.status = s]
  <2>1. force' = [force EXCEPT ![f] = G] /\ UNCHANGED <<dfStatus, tempStatus, age, pc, ix>>
    BY <1>4, Zenon DEF Manual
  <2>2. F \in ForceRule BY OnChannel
  <2> HIDE DEF F
  <2>3. F.status \in SUBSET Status BY <2>2, SMT DEF ForceRule
  <2>4. s \in SUBSET Status BY <2>3, SMT DEF Status
  <2>5. \A x \in {"RUNNING", "START_RULE"} : x \in s <=> x \in F.status BY SMT
  <2> HIDE DEF s
  <2>6. SameCounts(F, G) /\ G.status = s BY <2>2, <2>4, StatusCounts
  <2> HIDE DEF G
  <2>7. SameDelays(F, G) /\ (Is(F, "START_RULE") => Is(G, "START_RULE"))
    BY <2>5, <2>6, Zenon DEF SameCounts, SameDelays, Is
  <2>8. \A g \in Forcing : /\ SameDelays(force[g], force'[g])
                           /\ Is(force[g], "START_RULE") => Is(force'[g], "START_RULE")
    <3>1. \A g \in Forcing : force'[g] = IF g = f THEN G ELSE force[g] BY <2>1, Zenon DEF TypeOK
    <3> QED BY <2>7, <3>1, Zenon DEF SameDelays, F
  <2> QED BY <2>1, <2>8, SameForcings
<1>5. ASSUME UNCHANGED <<forcing, pc, ix>> PROVE DelayInv'
  BY <1>1, <1>5, SameForcings, Zenon DEF forcing
<1>6. CASE Meter \/ Toggle \/ UNCHANGED vars
  BY <1>5, <1>6, Zenon DEF Meter, Toggle, vars
<1>7. ASSUME UNCHANGED forcing, pc \in {"idle", "sd"}, pc' \in {"idle", "cfgSwitch", "sd"}
      PROVE  DelayInv'
  BY <1>1, <1>7, IdleDelays, Zenon DEF forcing
<1>8. CASE ReadCfg BY <1>7, <1>8, Zenon DEF ReadCfg
<1>9. ASSUME NEW client \in Client, NEW s \in {"on", "off"}, Ask(client, s) PROVE DelayInv'
  BY <1>5, <1>7, <1>9, Zenon DEF Ask
<1>10. ASSUME NEW client \in Client, AskSet(client) PROVE DelayInv'
  BY <1>5, <1>7, <1>10, Zenon DEF AskSet
<1>11. ASSUME NEW f \in Forcing, NEW r \in Rules, SetRule(f, r) PROVE DelayInv'
  <2> DEFINE H == Fresh(r)
  <2>1. pc = "idle" /\ pc' = "idle" /\ age' = age /\ force' = [force EXCEPT ![f] = H]
    BY <1>11, Zenon DEF SetRule
  <2>2. ~ Is(H, "RUNNING") /\ H.rule \in UserRules
    BY FreshRuns, FreshType, StoredType DEF UserRules
  <2> HIDE DEF H
  <2>3. \A g \in Forcing : force'[g] = IF g = f THEN H ELSE force[g] BY <2>1, Zenon DEF TypeOK
  <2>4. \A g \in Forcing : \/ SameDelays(force[g], force'[g])
                           \/ ~ Runs(g)' /\ force'[g].rule \in UserRules
    BY <2>2, <2>3, Zenon DEF SameDelays, Runs
  <2> QED BY <2>1, <2>4, IdleDelays
<1>12. ASSUME NEW f \in Forcing, NEW on \in BOOLEAN, Enable(f, on) PROVE DelayInv'
  <2>1. pc = "idle" /\ pc' = "idle" /\ age' = age BY <1>12, Zenon DEF Enable
  <2>2. \A F \in ForceRule, b \in BOOLEAN : SameDelays(F, [F EXCEPT !.on = b])
    <3> SUFFICES ASSUME NEW F \in ForceRule, NEW b \in BOOLEAN
                 PROVE  SameDelays(F, [F EXCEPT !.on = b])
      OBVIOUS
    <3>1. LET G == [F EXCEPT !.on = b]
          IN /\ G.rule = F.rule /\ G.autoState = F.autoState /\ G.delayCount = F.delayCount
             /\ G.counter = F.counter /\ G.kfCounter = F.kfCounter /\ G.status = F.status
      BY SMT DEF ForceRule
    <3> QED BY <3>1, Zenon DEF SameDelays, Is
  <2>3. PICK H : /\ force' = [force EXCEPT ![f] = H]
                 /\ SameDelays(force[f], H) \/ (~ Is(H, "RUNNING") /\ H.rule \in UserRules)
    <3>1. force[f] \in ForceRule BY OnChannel
    <3>2. CASE on
      <4>1. force' = [force EXCEPT ![f] = [force[f] EXCEPT !.on = TRUE]]
        BY <1>12, <3>2, Zenon DEF Enable
      <4>2. SameDelays(force[f], [force[f] EXCEPT !.on = TRUE]) BY <2>2, <3>1
      <4> QED BY <4>1, <4>2
    <3>3. CASE ~ on
      <4> DEFINE S == Stopped(force[f])
                 H == [S EXCEPT !.on = FALSE]
      <4>1. force' = [force EXCEPT ![f] = H] BY <1>12, <3>3, Zenon DEF Enable
      <4>2. S \in ForceRule /\ S.rule = force[f].rule /\ ~ Is(S, "RUNNING")
        BY <3>1, StoppedSame DEF Same
      <4> HIDE DEF S
      <4>3. SameDelays(S, H) BY <2>2, <4>2
      <4> HIDE DEF H
      <4>4. ~ Is(H, "RUNNING") /\ H.rule \in UserRules
        BY <4>2, <4>3, Zenon DEF SameDelays, DelayInv, RulesKnown
      <4> QED BY <4>1, <4>4
    <3> QED BY <3>2, <3>3
  <2>4. \A g \in Forcing : force'[g] = IF g = f THEN H ELSE force[g] BY <2>3, Zenon DEF TypeOK
  <2>5. \A g \in Forcing : \/ SameDelays(force[g], force'[g])
                           \/ ~ Runs(g)' /\ force'[g].rule \in UserRules
    BY <2>3, <2>4, Zenon DEF SameDelays, Runs
  <2> QED BY <2>1, <2>5, IdleDelays
<1>13. CASE ReadCfgEnd
  <2>1. pc = "cfgSwitch" /\ pc' = "idle" /\ age' = age BY <1>13, Zenon DEF ReadCfgEnd
  <2>2. \A f \in Forcing : ~ Runs(f)' /\ force'[f].rule \in UserRules
    <3>1. \A f \in Forcing : force'[f] = Fresh(Stored[f]) BY <1>13, Zenon DEF ReadCfgEnd, Load
    <3>2. \A f \in Forcing : Fresh(Stored[f]).rule = Stored[f] BY StoredType, FreshType
    <3> QED BY <3>1, <3>2, FreshRuns, Zenon DEF Runs, UserRules
  <2> QED BY <2>1, <2>2, IdleDelays
<1>14. ~ DefaultCfg /\ ~ WebSet /\ \A f \in Forcing, r \in Rules : ~ WebInvalidate(f, r)
  BY Zenon DEF Configured, DefaultCfg, WebSet, WebInvalidate, RegInv, AllValid
<1> QED BY <1>2, <1>3, <1>4, <1>6, <1>8, <1>9, <1>10, <1>11, <1>12, <1>13, <1>14,
        BeginSecond, NoStopDelays, StopDelays, StartPass, PreemptPass, BeginPass
        DEF Next, DiverterNext, RuleResults, DivRuleResults, Users

(* DelayInv, with what it rests on.                                        *)
LEMMA Delays ==
  ASSUME Configured, Exclusive, LongAge
  PROVE  Spec => [](TypeOK /\ RegInv /\ OutInv /\ DelayInv)
<1>1. Init => RegInv /\ OutInv /\ DelayInv BY InitReg, InitOut, InitDelays
<1>2. TypeOK /\ TypeOK' /\ RegInv /\ OutInv /\ DelayInv /\ [Next]_vars =>
        (RegInv /\ OutInv /\ DelayInv)'
  BY StepReg, StepOut, StepDelays
<1> QED BY <1>1, <1>2, TypeCorrect, PTL DEF Spec

(* On such a device, no forcing limited by DMAX runs for longer.           *)
THEOREM DmaxIsKept == ASSUME Configured, Exclusive, LongAge PROVE Spec => []DmaxKept
<1>1. TypeOK /\ DelayInv => DmaxKept
  <2> SUFFICES ASSUME TypeOK, DelayInv, pc = "idle", NEW f \in Forcing,
                      Is(force[f], "RUNNING"), IsStd(force[f]),
                      force[f].rule.limit = "dmax", force[f].rule.delay # 0
               PROVE  age[f] < force[f].rule.delay
    BY Zenon DEF DmaxKept
  <2>1. Due(f) = 0 BY DEF Due, StopPending
  <2>2. Limited(force[f], age[f], 0) BY <2>1, DelaysOfAll, Zenon DEF DelayInv, DelaysOf
  <2>3. /\ force[f].delayCount # 0
        /\ age[f] + force[f].delayCount <= force[f].rule.delay + 0
    BY <2>2, Zenon DEF Limited
  <2>4. age[f] \in Nat
    <3>1. age[f] \in 0 .. AgeMax BY Zenon DEF TypeOK
    <3> QED BY <3>1, DivertAssumption, SMT
  <2>5. force[f].delayCount \in Nat /\ force[f].rule.delay \in Nat BY OnChannel, Nums
  <2> QED BY <2>3, <2>4, <2>5, SMT
<1> QED BY <1>1, Delays, PTL

(* On such a device, the stop rule ends no forcing of DMIN before its time.*)
THEOREM DminIsKept == ASSUME Configured, Exclusive, LongAge PROVE Spec => DminKept
<1> DEFINE InTime(f) ==
       /\ pc = "stop" /\ Is(force[f], "RUNNING") /\ ~ Is(force'[f], "RUNNING")
       /\ ~ Is(force[f], "MANUAL_ORDER") /\ force[f].rule.limit = "dmin"
       => age[f] >= force[f].rule.delay
<1>1. TypeOK /\ RegInv /\ DelayInv /\ [Next]_vars => [\A f \in Forcing : InTime(f)]_vars
  <2> SUFFICES ASSUME TypeOK, RegInv, DelayInv, [Next]_vars, NEW f \in Forcing,
                      pc = "stop", Is(force[f], "RUNNING"), ~ Is(force'[f], "RUNNING"),
                      ~ Is(force[f], "MANUAL_ORDER"), force[f].rule.limit = "dmin"
               PROVE  age[f] >= force[f].rule.delay
    BY Zenon
  <2>1. force' # force OBVIOUS
  <2>2. PICK e \in BOOLEAN : StopCheck(e)
    BY <2>1, Zenon DEF Next, DiverterNext, Users, RuleResults, DivRuleResults, NextBegin, NoStop,
       NoStart, Switched, Preempt, Begin, StartCheck, Divert, ReadCfgEnd, Meter, Manual, MainWaits,
       Enable, SetRule, WebInvalidate, WebSet, ReadCfg, DefaultCfg, Toggle, AskSet, Ask, vars, forcing
  <2> DEFINE g == tempStatus[ix]
             F == force[g]
             G == Second(F)
             T == Told(F, G)
             true == StopExpr(F, e) \/ Order(F)
             H == IF ~ true THEN G ELSE IF Ends(F) THEN Stopped(T) ELSE T
  <2>3. g \in Forcing /\ force' = [force EXCEPT ![g] = H] BY <2>2, Zenon DEF StopCheck, Forced
  <2> HIDE DEF H, g
  <2>4. \A h \in Forcing : force'[h] = IF h = g THEN H ELSE force[h] BY <2>3, Zenon DEF TypeOK
  <2>5. f = g /\ ~ Is(H, "RUNNING") BY <2>4
  <2>6. F \in ForceRule BY <2>3, OnChannel
  <2>7. true /\ Ends(F)
    <3>1. F.status = F.status /\ Is(F, "RUNNING") BY <2>5
    <3> HIDE DEF F
    <3>2. G \in ForceRule /\ Is(G, "RUNNING") BY <2>6, <3>1, SecondSame DEF Same
    <3> HIDE DEF G
    <3>3. Is(T, "RUNNING") BY <2>6, <3>2, ToldSame
    <3> QED BY <2>5, <3>2, <3>3 DEF H
  <2>8. ~ TooEarly(F) /\ IsStd(F) /\ Is(F, "RUNNING") /\ F.rule.limit = "dmin" /\ F = force[f]
    BY <2>5, <2>7, Zenon DEF StopExpr, Order, Ends, DmaxOver
  <2>9. Due(f) = 1
    <3>1. ix \in Channel BY Chan DEF TypeOK
    <3>2. dfStatus[ix] = f BY <2>5, <3>1, Zenon DEF RegInv, TempPrevails, g
    <3>3. On(f) = ix BY <3>1, <3>2, SMT DEF RegInv, DfExact
    <3> QED BY <3>1, <3>3, Chan, SMT DEF Due, StopPending
  <2>10. Limited(F, age[f], 1) BY <2>8, <2>9, DelaysOfAll, Zenon DEF DelayInv, DelaysOf
  <2>11. age[f] >= F.rule.delay \/ (F.delayCount # 0 /\ age[f] + F.delayCount >= F.rule.delay + 1)
    BY <2>8, <2>10, Zenon DEF Limited
  <2>12. F.delayCount # 0 => F.delayCount = 1 BY <2>8, Zenon DEF TooEarly, Counting
  <2>13. age[f] \in Nat
    <3>1. age[f] \in 0 .. AgeMax BY Zenon DEF TypeOK
    <3> QED BY <3>1, DivertAssumption, SMT
  <2>14. F.rule.delay \in Nat /\ F.delayCount \in Nat BY <2>6, Nums
  <2>15. F.rule.delay = force[f].rule.delay BY <2>8
  <2> HIDE DEF F
  <2>16. age[f] >= F.rule.delay BY <2>11, <2>12, <2>13, <2>14, SMT
  <2> QED BY <2>15, <2>16
<1> QED BY <1>1, Delays, PTL DEF Spec, DminKept

(* On such a device, the automaton switches only after its minimum times.  *)
THEOREM AutoIsKept == ASSUME Configured, Exclusive, LongAge PROVE Spec => AutoKept
<1> DEFINE InCycle(f) ==
       LET F == force[f] IN
       /\ pc = "begin" /\ Is(F, "RUNNING") /\ IsAuto(F) /\ force'[f].autoState # F.autoState
       => /\ F.autoState = "ON"  => age[f] >= F.rule.autoOn  /\ age[f] + 1 >= F.rule.autoKf
          /\ F.autoState = "OFF" => age[f] >= F.rule.autoOff /\ age[f] + 1 >= F.rule.autoKf
<1>1. TypeOK /\ RegInv /\ RegInv' /\ OutInv /\ DelayInv /\ [Next]_vars =>
        [\A f \in Forcing : InCycle(f)]_vars
  <2> SUFFICES ASSUME TypeOK, RegInv, RegInv', OutInv, DelayInv, [Next]_vars, NEW f \in Forcing,
                      pc = "begin", force' # force
               PROVE  InCycle(f)
    BY Zenon
  <2>1. CASE Begin BY <2>1, BeginPass, Zenon
  <2>2. CASE ~ Begin
    BY <2>2, Zenon DEF Next, DiverterNext, Users, RuleResults, DivRuleResults, NextBegin, NoStop,
       StopCheck, NoStart, Switched, Preempt, StartCheck, Divert, ReadCfgEnd, Meter, Manual,
       MainWaits, Enable, SetRule, WebInvalidate, WebSet, ReadCfg, DefaultCfg, Toggle, AskSet, Ask,
       vars, forcing
  <2> QED BY <2>1, <2>2
<1> QED BY <1>1, Delays, PTL DEF Spec, AutoKept
=============================================================================
