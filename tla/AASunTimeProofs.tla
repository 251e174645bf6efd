-------------------------- MODULE AASunTimeProofs --------------------------
(***************************************************************************)
(* The update of the date, proved for any number of losses: two tasks call *)
(* timeNext, which nothing protects, and they are never in it together;    *)
(* the source it waits for has been asked, or its delay runs, and a date   *)
(* the history waits for is being asked for.  And of the Wi-Fi link: every *)
(* answer is that to the request, and nothing is missed without a fault.   *)
(***************************************************************************)
EXTENDS AASunTime, TLAPS

USE WifiAssumption, TimeAssumption DEF WifiAssumption, TimeAssumption

Holds(s, id) == \E i \in DOMAIN s : s[i].id = id
Once(s, id)  == \A i, j \in DOMAIN s : s[i].id = id /\ s[j].id = id => i = j

(* The module has been asked for the date, and has sent it.                *)
Asked == Holds(toEsp, "askDate")
Sent  == Holds(rxBuff, "date")
DateThere == Asked \/ Sent

(* One request of the board makes one date: while it waits for the module  *)
(* to poll, the date is on its way only in the answer being transmitted.   *)
OneDate ==
  /\ requestWaiting => bWifiTimeoutOn
  /\ requestWaiting /\ DateThere => wifiState = "Tx" /\ requestActive
  /\ Sent => ~ Asked
  /\ Once(toEsp, "askDate")

-----------------------------------------------------------------------------
Waiting == {"LAN_WAIT", "WIFI_WAIT", "DELAY"}

(* From status to status.                                                  *)
Follows ==
  {<<"IDLE", "LAN">>, <<"LAN", "LAN_WAIT">>, <<"LAN", "WIFI">>, <<"LAN_WAIT", "WIFI">>,
   <<"WIFI", "WIFI_WAIT">>, <<"WIFI_WAIT", "LINKY">>, <<"LINKY", "NONE">>, <<"NONE", "DELAY">>,
   <<"DELAY", "LAN">>}

(* What goes on is what status s waits for.                                *)
OnFor(s) == /\ dnsState # 0   <=> s = "LAN_WAIT"
            /\ bWifiTimeoutOn <=> s = "WIFI_WAIT"
            /\ timer          <=> s = "DELAY"

Inside(t) == pc[t].at # "loop"

(* Nothing protects timeNext, and its two callers exclude each other.      *)
NeverTogether == ~ (Inside("main") /\ Inside("lan"))

NobodyInside ==
  ~ Inside("main") /\ ~ Inside("lan") =>
    /\ timeStatus \in Waiting \cup {"IDLE"}
    /\ timeIsUpdated = 1             <=> timeStatus # "IDLE"
    /\ bWifiTimeoutOn                <=> timeStatus = "WIFI_WAIT"
    /\ timer                         <=> timeStatus = "DELAY"
    /\ (dnsState # 0 \/ sntpRunning) <=> timeStatus = "LAN_WAIT"
    /\ ~ (dnsState # 0 /\ sntpRunning)
    /\ DateThere => timeStatus \in {"WIFI_WAIT", "DELAY"}

(* Where a task is in timeNext, with which status, and what then goes on.  *)
Places(t) ==
  /\ pc[t].at = "loop"   => pc[t] = Outside
  /\ pc[t].at \in {"retry", "switch"} =>
       /\ timeStatus # "LINKY_WAIT" /\ (pc[t].at = "retry" => timeStatus # "IDLE")
       /\ OnFor(IF timeStatus = "DELAY" THEN "DELAY" ELSE "IDLE")
       /\ timeIsUpdated = 1
  /\ pc[t].at = "store" =>
       /\ <<timeStatus, pc[t].to>> \in Follows
       /\ pc[t].ends <=> pc[t].to \in Waiting
       /\ OnFor(pc[t].to)
       /\ timeIsUpdated = 1
  /\ pc[t].at = "stop" => OnFor(IF timeStatus = "DELAY" THEN "DELAY" ELSE "IDLE")
  /\ pc[t].at = "idle" => OnFor("IDLE")
  /\ pc[t].at \in {"stop", "idle"} => timeIsUpdated # 1 \/ pc[t].by = "wifi"
  /\ pc[t].at = "done" =>
       /\ timeStatus \in Waiting \cup {"IDLE"}
       /\ OnFor(timeStatus)
       /\ IF timeStatus = "IDLE" THEN timeIsUpdated # 1 \/ pc[t].by = "wifi"
                                 ELSE timeIsUpdated = 1
  /\ Inside(t) => /\ sntpRunning <=> pc[t].by = "sntp"
                  /\ pc[t].by \in {"", "sntp", "wifi"} /\ (t = "main" => pc[t].by = "")
                  /\ pc[t].by = "wifi" => pc[t].at \in {"stop", "idle", "done"}
                  /\ pc[t].by = "wifi" /\ pc[t].at = "done" => timeStatus = "IDLE"

(* Late in a round the task of the network is there for the Wi-Fi module.  *)
CalledByWifi ==
  /\ Inside("lan") /\ timer => calling # "none"
  /\ /\ pc["lan"].at \in {"retry", "switch", "store"}
     /\ timeStatus \in {"WIFI_WAIT", "LINKY", "NONE", "DELAY"}
     => calling # "none"

(* A date that was given up may still come, but finds no new request.      *)
LateDate ==
  DateThere =>
    /\ ~ Inside("main")
    /\ Inside("lan") =>
         \/ pc["lan"].at \in {"retry", "switch", "store"}
            /\ timeStatus \in {"WIFI_WAIT", "LINKY", "NONE"}
         \/ pc["lan"].at = "done" /\ timeStatus = "DELAY"

TimeInv ==
  /\ TimeTypeOK /\ OneDate /\ NeverTogether /\ NobodyInside
  /\ Places("main") /\ Places("lan") /\ CalledByWifi /\ LateDate
-----------------------------------------------------------------------------
(* d is made of messages of s that follow each other, whose kinds are kept.*)
Part(d, s) == \E k \in Nat : \A i \in DOMAIN d : i + k \in DOMAIN s /\ d[i].id = s[i + k].id

(* A part holds no kind of message that the whole does not hold, nor twice.*)
LEMMA PartOf ==
  ASSUME NEW d \in Seq(Msg), NEW s \in Seq(Msg), Part(d, s), NEW id
  PROVE  /\ Holds(d, id) => Holds(s, id)
         /\ Once(s, id) => Once(d, id)
<1>1. PICK k \in Nat : \A i \in DOMAIN d : i + k \in DOMAIN s /\ d[i].id = s[i + k].id
  BY DEF Part
<1>2. Holds(d, id) => Holds(s, id)
  BY <1>1 DEF Holds
<1>3. Once(s, id) => Once(d, id)
  <2>1. SUFFICES ASSUME Once(s, id), NEW i \in DOMAIN d, NEW j \in DOMAIN d,
                        d[i].id = id, d[j].id = id
                 PROVE  i = j
    BY DEF Once
  <2>2. s[i + k].id = id /\ s[j + k].id = id /\ i + k \in DOMAIN s /\ j + k \in DOMAIN s
    BY <1>1, <2>1
  <2>3. i + k = j + k
    BY <2>1, <2>2 DEF Once
  <2> QED BY <2>3
<1> QED BY <1>2, <1>3

(* A new message comes last.                                               *)
LEMMA Arrives ==
  ASSUME NEW s \in Seq(Msg), NEW m \in Msg, NEW id
  PROVE  /\ Append(s, m) \in Seq(Msg)
         /\ Holds(Append(s, m), id) <=> Holds(s, id) \/ m.id = id
         /\ Once(s, id) /\ (m.id = id => ~ Holds(s, id)) => Once(Append(s, m), id)
<1> DEFINE n == Append(s, m)
<1>1. /\ n \in Seq(Msg) /\ Len(n) = Len(s) + 1 /\ n[Len(s) + 1] = m
      /\ \A i \in 1 .. Len(s) : n[i] = s[i]
  OBVIOUS
<1>2. DOMAIN s = 1 .. Len(s) /\ DOMAIN n = 1 .. Len(s) + 1 /\ Len(s) \in Nat
  BY <1>1
<1>3. \A i \in DOMAIN n : i \in DOMAIN s \/ i = Len(s) + 1
  BY <1>2
<1>4. Len(s) + 1 \in DOMAIN n /\ \A i \in DOMAIN s : i \in DOMAIN n
  BY <1>2
<1> HIDE DEF n
<1>5. Holds(n, id) <=> Holds(s, id) \/ m.id = id
  BY <1>1, <1>2, <1>3, <1>4 DEF Holds
<1>6. Once(s, id) /\ (m.id = id => ~ Holds(s, id)) => Once(n, id)
  BY <1>1, <1>2, <1>3 DEF Holds, Once
<1> QED BY <1>1, <1>5, <1>6 DEF n

(* The messages of d are those of s from the k-th on.                      *)
LEMMA Shifted ==
  ASSUME NEW d, NEW s, NEW k \in Nat,
         \A i \in DOMAIN d : i + k \in DOMAIN s /\ d[i].id = s[i + k].id
  PROVE  Part(d, s)
BY DEF Part

(* A message that ceases to be waited for stays the message it was.        *)
LEMMA Ages ==
  ASSUME NEW s \in Seq(Msg)
  PROVE  /\ Old(s) \in Seq(Msg) /\ DOMAIN Old(s) = DOMAIN s
         /\ \A i \in DOMAIN s : Old(s)[i].id = s[i].id
<1> DEFINE Aged(m) == [m EXCEPT !.old = TRUE]
<1>1. \A m \in Msg : Aged(m) \in Msg /\ Aged(m).id = m.id
  BY DEF Msg, Cuts, HasData
<1>2. Old(s) = [i \in DOMAIN s |-> Aged(s[i])]
  BY DEF Old
<1> HIDE DEF Aged
<1>3. DOMAIN s = 1 .. Len(s) /\ Len(s) \in Nat /\ \A i \in DOMAIN s : s[i] \in Msg
  OBVIOUS
<1>4. Old(s) \in [1 .. Len(s) -> Msg]
  BY <1>1, <1>2, <1>3
<1>5. Old(s) \in Seq(Msg)
  BY <1>3, <1>4
<1> QED BY <1>1, <1>2, <1>3, <1>5

(* A message that is read leaves the others.                               *)
LEMMA Leaves ==
  ASSUME NEW s \in Seq(Msg), s # <<>>
  PROVE  /\ Tail(s) \in Seq(Msg) /\ Part(Tail(s), s)
         /\ Old(Tail(s)) \in Seq(Msg) /\ Part(Old(Tail(s)), s)
         /\ Head(s) \in Msg /\ Head(s) = s[1] /\ 1 \in DOMAIN s
         /\ \A i \in DOMAIN Old(Tail(s)) : /\ i + 1 \in DOMAIN s /\ i + 1 # 1
                                          /\ Old(Tail(s))[i].id = s[i + 1].id
<1> DEFINE r == Tail(s)
<1>1. /\ r \in Seq(Msg) /\ Len(r) = Len(s) - 1 /\ Len(s) \in Nat \ {0}
      /\ DOMAIN r = 1 .. Len(s) - 1 /\ DOMAIN s = 1 .. Len(s)
      /\ \A i \in 1 .. Len(s) - 1 : r[i] = s[i + 1]
  OBVIOUS
<1>2. Head(s) \in Msg /\ Head(s) = s[1] /\ 1 \in DOMAIN s
  OBVIOUS
<1> HIDE DEF r
<1>3. \A i \in DOMAIN r : i + 1 \in DOMAIN s /\ r[i].id = s[i + 1].id
  BY <1>1
<1>4. Part(r, s)
  BY <1>3, Shifted
<1>5. Old(r) \in Seq(Msg) /\ DOMAIN Old(r) = DOMAIN r /\ \A i \in DOMAIN r : Old(r)[i].id = r[i].id
  BY <1>1, Ages
<1>6. \A i \in DOMAIN Old(r) : i + 1 \in DOMAIN s /\ Old(r)[i].id = s[i + 1].id
  BY <1>3, <1>5
<1>7. Part(Old(r), s)
  BY <1>6, Shifted
<1>8. \A i \in DOMAIN Old(r) : i + 1 # 1
  BY <1>1, <1>5
<1> QED BY <1>1, <1>2, <1>4, <1>5, <1>6, <1>7, <1>8 DEF r

(* The messages of d are at the same places of s.                          *)
LEMMA InPlace ==
  ASSUME NEW d, NEW s, \A i \in DOMAIN d : i \in DOMAIN s /\ d[i].id = s[i].id,
         NEW n \in Nat, DOMAIN d = 1 .. n
  PROVE  Part(d, s)
<1>1. \A i \in DOMAIN d : i + 0 = i
  OBVIOUS
<1>2. \A i \in DOMAIN d : i + 0 \in DOMAIN s /\ d[i].id = s[i + 0].id
  BY <1>1
<1>3. \E k \in Nat : \A i \in DOMAIN d : i + k \in DOMAIN s /\ d[i].id = s[i + k].id
  <2> WITNESS 0 \in Nat
  <2> QED BY <1>2
<1> QED BY <1>3 DEF Part

(* What is damaged was there.                                              *)
LEMMA Damaged ==
  ASSUME NEW s \in Seq(Msg), s # <<>>, NEW d \in Damages(s)
  PROVE  d \in Seq(Msg) /\ Part(d, s)
<1> DEFINE f == Front(s)
           m == Last(s)
           Cut(c) == [m EXCEPT !.cut = c]
<1>1. /\ Len(s) \in Nat /\ Len(s) >= 1 /\ DOMAIN s = 1 .. Len(s) /\ m = s[Len(s)]
      /\ \A i \in DOMAIN s : s[i] \in Msg
  BY DEF Last
<1>2. m \in Msg
  BY <1>1
<1>3. \A c \in Cuts(m) : Cut(c) \in Msg /\ Cut(c).id = m.id
  BY <1>2 DEF Msg, Cuts, HasData
<1>4. f = SubSeq(s, 1, Len(s) - 1)
  BY DEF Front
<1>5. /\ f \in Seq(Msg) /\ Len(f) = Len(s) - 1 /\ DOMAIN f = 1 .. Len(s) - 1
      /\ \A i \in 1 .. Len(s) - 1 : f[i] = s[i]
  <2> HIDE DEF f, m, Cut
  <2> QED BY <1>1, <1>4
<1>6. d = f \/ \E c \in Cuts(m) : d = Append(f, Cut(c))
  BY DEF Damages
<1> HIDE DEF f, m, Cut
<1>7. CASE d = f
  <2>1. \A i \in DOMAIN d : i \in DOMAIN s /\ d[i].id = s[i].id
    BY <1>1, <1>5, <1>7
  <2>2. Part(d, s)
    BY <1>1, <1>5, <1>7, <2>1, InPlace
  <2> QED BY <1>5, <1>7, <2>2
<1>8. ASSUME NEW c \in Cuts(m), d = Append(f, Cut(c))
      PROVE  d \in Seq(Msg) /\ Part(d, s)
  <2>1. /\ d \in Seq(Msg) /\ DOMAIN d = 1 .. Len(f) + 1
        /\ d[Len(f) + 1] = Cut(c) /\ \A i \in 1 .. Len(f) : d[i] = f[i]
    <3> DEFINE x == Cut(c)
    <3>1. x \in Msg
      BY <1>3
    <3> HIDE DEF x
    <3>2. /\ Append(f, x) \in Seq(Msg) /\ DOMAIN Append(f, x) = 1 .. Len(f) + 1
          /\ Append(f, x)[Len(f) + 1] = x /\ \A i \in 1 .. Len(f) : Append(f, x)[i] = f[i]
      BY <1>5, <3>1
    <3> QED BY <1>8, <3>2 DEF x
  <2>2. Len(f) + 1 = Len(s)
    BY <1>1, <1>5
  <2>3. \A i \in 1 .. Len(s) : i = Len(f) + 1 \/ i \in 1 .. Len(f)
    <3>1. Len(f) \in Nat
      BY <1>5
    <3>2. \A k \in Nat : \A i \in 1 .. k + 1 : i = k + 1 \/ i \in 1 .. k
      OBVIOUS
    <3> QED BY <2>2, <3>1, <3>2
  <2>7. d[Len(f) + 1].id = s[Len(s)].id
    BY <1>1, <1>3, <1>8, <2>1
  <2>8. \A i \in 1 .. Len(f) : d[i].id = s[i].id
    BY <1>1, <1>5, <2>1
  <2>4. \A i \in 1 .. Len(s) : d[i].id = s[i].id
    BY <2>2, <2>3, <2>7, <2>8
  <2>5. \A i \in DOMAIN d : i \in DOMAIN s /\ d[i].id = s[i].id
    BY <1>1, <2>1, <2>2, <2>4
  <2>6. Part(d, s)
    BY <1>1, <1>5, <2>1, <2>5, InPlace
  <2> QED BY <2>1, <2>6
<1> QED BY <1>6, <1>7, <1>8

(* What is left of a buffer was there.                                     *)
LEMMA LeftIs ==
  ASSUME NEW s \in Seq(Msg), NEW k \in {1, 2}, k <= Len(s), NEW d \in Left(s, k)
  PROVE  d \in Seq(Msg) /\ Part(d, s)
<1> DEFINE t == SubSeq(s, k, Len(s))
           m == [t[1] EXCEPT !.cut = "magic"]
<1>1. /\ Len(s) \in Nat /\ k \in Nat /\ k >= 1 /\ DOMAIN s = 1 .. Len(s)
      /\ \A i \in DOMAIN s : s[i] \in Msg
  OBVIOUS
<1>2. /\ t \in Seq(Msg) /\ Len(t) = Len(s) - k + 1 /\ DOMAIN t = 1 .. Len(s) - k + 1
      /\ \A i \in DOMAIN t : t[i] = s[i + k - 1]
  BY <1>1
<1>3. d = Tail(t) \/ d = [t EXCEPT ![1].cut = "magic"]
  BY DEF Left
<1> HIDE DEF t
<1>4. t # <<>> /\ t[1] \in Msg /\ 1 \in DOMAIN t
  BY <1>1, <1>2
<1>5. CASE d = Tail(t)
  <2>1. d \in Seq(Msg) /\ DOMAIN d = 1 .. Len(s) - k /\ \A i \in DOMAIN d : d[i] = t[i + 1] /\ i + 1 \in DOMAIN t
    BY <1>1, <1>2, <1>4, <1>5
  <2>2. \A i \in DOMAIN d : i + k \in DOMAIN s /\ d[i] = s[i + k]
    BY <1>1, <1>2, <2>1
  <2>3. \A i \in DOMAIN d : i + k \in DOMAIN s /\ d[i].id = s[i + k].id
    BY <2>2
  <2>4. Part(d, s)
    BY <1>1, <2>3, Shifted
  <2> QED BY <2>1, <2>4
<1>6. CASE d = [t EXCEPT ![1].cut = "magic"]
  <2>1. m \in Msg /\ m.id = t[1].id
    BY <1>4 DEF Msg, Cuts, HasData
  <2>2. d = [t EXCEPT ![1] = m]
    BY <1>6
  <2> HIDE DEF m
  <2>3. d \in Seq(Msg) /\ DOMAIN d = DOMAIN t /\ \A i \in DOMAIN t : d[i].id = t[i].id
    BY <1>2, <1>4, <2>1, <2>2
  <2>4. k - 1 \in Nat /\ \A i \in DOMAIN d : i + (k - 1) = i + k - 1
    BY <1>1, <1>2, <2>3
  <2>5. \A i \in DOMAIN d : i + (k - 1) \in DOMAIN s /\ d[i].id = s[i + (k - 1)].id
    BY <1>1, <1>2, <2>3, <2>4
  <2>6. Part(d, s)
    BY <2>4, <2>5, Shifted
  <2> QED BY <2>3, <2>6
<1> QED BY <1>3, <1>5, <1>6

(* And so it is when it is no longer waited for.                           *)
LEMMA OldPart ==
  ASSUME NEW d \in Seq(Msg), NEW s \in Seq(Msg), Part(d, s)
  PROVE  Old(d) \in Seq(Msg) /\ Part(Old(d), s)
<1>1. Old(d) \in Seq(Msg) /\ DOMAIN Old(d) = DOMAIN d /\ \A i \in DOMAIN d : Old(d)[i].id = d[i].id
  BY Ages
<1>2. PICK k \in Nat : \A i \in DOMAIN d : i + k \in DOMAIN s /\ d[i].id = s[i + k].id
  BY DEF Part
<1>3. \A i \in DOMAIN Old(d) : i + k \in DOMAIN s /\ Old(d)[i].id = s[i + k].id
  BY <1>1, <1>2
<1> QED BY <1>1, <1>3, Shifted

-----------------------------------------------------------------------------
(* A new message is one, of the kind it is made of.                        *)
LEMMA NewIs == ASSUME NEW id \in Ids PROVE New(id) \in Msg /\ New(id).id = id
BY DEF New, Msg, Ids

(* An empty buffer holds nothing.                                          *)
LEMMA EmptyIs == \A id : ~ Holds(<<>>, id) /\ Once(<<>>, id)
BY DEF Holds, Once

(* What the board transmits arrives, or nobody receives it.                *)
LEMMA ArrivedIs ==
  ASSUME toEsp \in Seq(Msg), NEW m \in Msg
  PROVE  /\ Arrived(m) \in Seq(Msg)
         /\ Holds(Arrived(m), "askDate") => Asked \/ m.id = "askDate"
         /\ Once(toEsp, "askDate") /\ (m.id = "askDate" => ~ Asked) => Once(Arrived(m), "askDate")
<1>1. CASE esp \in {"dead", "stuck"}
  <2>1. Arrived(m) = <<>>
    BY <1>1 DEF Arrived
  <2>2. <<>> \in Seq(Msg)
    OBVIOUS
  <2> QED BY <2>1, <2>2, EmptyIs
<1>2. CASE esp \notin {"dead", "stuck"}
  BY <1>2, Arrives DEF Arrived, Asked
<1> QED BY <1>1, <1>2

(* An answer is as old as the request.                                     *)
LEMMA AnswerIs ==
  ASSUME rxBuff \in Seq(Msg), rxBuff # <<>>, NEW id \in Ids
  PROVE  LET m == [New(id) EXCEPT !.old = Head(rxBuff).old]
         IN  m \in Msg /\ m.id = id /\ m.cut = "no" /\ m.old = Head(rxBuff).old
<1>1. Head(rxBuff) \in Msg BY Leaves
<1>2. Head(rxBuff).old \in BOOLEAN BY <1>1 DEF Msg
<1> QED BY <1>2, NewIs DEF New, Msg, Cuts, HasData

(* What the module may ask for is neither the date nor its demand.         *)
LEMMA NamesDiffer ==
  /\ "date" \notin Requests /\ "askDate" \notin Requests /\ Requests \subseteq Ids
  /\ {"req", "date", "sync", "nack", "ack", "askDate", "data"} \subseteq Ids
BY DEF Ids

(* What the board transmits clears what it has received.                   *)
LEMMA Transmitted ==
  ASSUME WifiTypeOK, OneDate, wifiState = "RxData", rxBuff # <<>>,
         NEW id \in Ids, Transmit(id)
  PROVE  /\ wifiState' = "Tx" /\ rxBuff' \in Seq(Msg) /\ toEsp' \in Seq(Msg) /\ ~ Sent'
         /\ Asked' => Asked \/ id = "askDate"
         /\ (id = "askDate" => ~ Asked) => Once(toEsp, "askDate")'
<1> DEFINE m == [New(id) EXCEPT !.old = Head(rxBuff).old]
<1>1. toEsp \in Seq(Msg) /\ toEsp' = Arrived(m) /\ rxBuff' = <<>> /\ wifiState' = "Tx"
  BY DEF WifiTypeOK, Transmit
<1>6. m \in Msg /\ m.id = id
  BY AnswerIs DEF WifiTypeOK
<1> HIDE DEF m
<1>2. rxBuff' \in Seq(Msg)
  BY <1>1
<1>3. ~ Sent'
  BY <1>1, EmptyIs DEF Sent
<1>4. Asked' => Asked \/ id = "askDate"
  BY <1>1, <1>6, ArrivedIs DEF Asked
<1>5. (id = "askDate" => ~ Asked) => Once(toEsp, "askDate")'
  BY <1>1, <1>6, ArrivedIs DEF OneDate
<1> QED BY <1>1, <1>2, <1>3, <1>4, <1>5, <1>6, ArrivedIs

(* Nothing new is asked for or sent.                                       *)
Quietly ==
  /\ calling' = calling /\ bWifiTimeoutOn' = bWifiTimeoutOn
  /\ requestWaiting' => requestWaiting
  /\ DateThere' => DateThere \/ requestWaiting

DateReceived ==
  /\ DateThere /\ ~ requestWaiting /\ ~ requestWaiting' /\ ~ bWifiTimeoutOn' /\ ~ DateThere'
  /\ calling' \in {"reset", "retry"}

(* Every step of wifiNext either is quiet or receives the only date there  *)
(* is, which no request waits for.                                         *)
LEMMA BoardSteps ==
  ASSUME WifiTypeOK, OneDate, Machine
  PROVE  WifiTypeOK' /\ OneDate' /\ calling = "none" /\ (Quietly \/ DateReceived)
<1>a. rxBuff \in Seq(Msg) /\ toEsp \in Seq(Msg)
  BY DEF WifiTypeOK
<1>b. ASSUME NEW id, Received(id)
      PROVE  /\ rxBuff # <<>> /\ wifiState = "RxData" /\ calling = "none"
             /\ rxBuff[1].id = id /\ 1 \in DOMAIN rxBuff
  BY <1>a, <1>b, Leaves DEF Received, Complete
<1>c. <<>> \in Seq(Msg)
  OBVIOUS
<1>1. CASE RxHdr \/ TxEnd \/ SyncTimeout \/ SyncTx \/ SyncEnd
  <2>1. UNCHANGED <<rxBuff, toEsp, module, losses, steady, calling, bWifiTimeoutOn>>
    BY <1>1 DEF RxHdr, TxEnd, SyncTimeout, SyncTx, SyncEnd
  <2>2. (Asked' <=> Asked) /\ (Sent' <=> Sent) /\ (Once(toEsp, "askDate")' <=> Once(toEsp, "askDate"))
    BY <2>1 DEF Asked, Sent
  <2>3. /\ wifiState' \in {"RxHdr", "RxData", "SyncSend", "SyncWait"} /\ calling = "none"
        /\ \/ UNCHANGED <<requestWaiting, requestActive>> /\ wifiState # "Tx"
           \/ /\ requestWaiting' => requestWaiting /\ ~ requestActive
              /\ requestWaiting' \in BOOLEAN /\ requestActive' = FALSE
    BY <1>1 DEF RxHdr, TxEnd, SyncTimeout, SyncTx, SyncEnd
  <2>4. WifiTypeOK'
    BY <2>1, <2>3 DEF WifiTypeOK, module
  <2>5. OneDate'
    BY <2>1, <2>2, <2>3 DEF OneDate, DateThere
  <2>6. Quietly
    BY <2>1, <2>2, <2>3 DEF Quietly, DateThere
  <2> QED BY <2>3, <2>4, <2>5, <2>6
<1>2. CASE RxDataTimeout \/ RxSync \/ SyncSend
  <2>1. /\ UNCHANGED <<module, losses, calling, bWifiTimeoutOn, requestWaiting, requestActive>>
        /\ rxBuff' = <<>> /\ (toEsp' = toEsp \/ toEsp' = Arrived(New("sync")))
        /\ wifiState' \in {"RxHdr", "SyncTx"} /\ wifiState # "Tx" /\ calling = "none"
    BY <1>2 DEF RxDataTimeout, RxSync, SyncSend, Received
  <2>7. steady' \in BOOLEAN
    BY <1>2 DEF RxDataTimeout, RxSync, SyncSend, WifiTypeOK
  <2>2. toEsp' \in Seq(Msg) /\ rxBuff' \in Seq(Msg)
    BY <1>a, <1>c, <2>1, NewIs, ArrivedIs, NamesDiffer
  <2>3. (Asked' => Asked) /\ ~ Sent' /\ Once(toEsp, "askDate")'
    BY <1>a, <2>1, NewIs, ArrivedIs, EmptyIs, NamesDiffer DEF Asked, Sent, OneDate
  <2>4. WifiTypeOK'
    BY <2>1, <2>2, <2>7 DEF WifiTypeOK, module
  <2>5. OneDate'
    BY <2>1, <2>3 DEF OneDate, DateThere
  <2>6. Quietly
    BY <2>1, <2>3 DEF Quietly, DateThere
  <2> QED BY <2>1, <2>4, <2>5, <2>6
<1>3. CASE RxReq
  <2>1. /\ UNCHANGED <<module, losses, steady, calling, bWifiTimeoutOn, requestWaiting>>
        /\ wifiState = "RxData" /\ calling = "none" /\ rxBuff # <<>>
    BY <1>3, <1>b DEF RxReq
  <2>2. PICK id \in {"askDate", "nack", "data"} :
          /\ Transmit(id) /\ (id = "askDate" => requestWaiting)
          /\ requestActive' \in {requestActive, requestWaiting}
          /\ ~ requestWaiting \/ requestActive' = requestWaiting \/ id = "data"
          /\ id = "data" => requestActive' = requestActive
    BY <1>3 DEF RxReq
  <2>3. id = "askDate" => ~ Asked
    BY <2>1, <2>2 DEF OneDate, DateThere
  <2>4. /\ wifiState' = "Tx" /\ rxBuff' \in Seq(Msg) /\ toEsp' \in Seq(Msg) /\ ~ Sent'
        /\ (Asked' => Asked \/ id = "askDate") /\ Once(toEsp, "askDate")'
    BY <2>1, <2>2, <2>3, Transmitted, NamesDiffer
  <2>5. WifiTypeOK'
    BY <2>1, <2>2, <2>4 DEF WifiTypeOK, module
  <2>6. OneDate'
    BY <2>1, <2>2, <2>4 DEF OneDate, DateThere
  <2>7. Quietly
    BY <2>1, <2>2, <2>4 DEF Quietly, DateThere
  <2> QED BY <2>1, <2>5, <2>6, <2>7
<1>4. CASE RxDate
  <2>1. /\ UNCHANGED <<module, losses, steady, requestWaiting, requestActive>> /\ bWifiTimeoutOn' = FALSE
        /\ wifiState = "RxData" /\ calling = "none" /\ calling' \in {"reset", "retry"} /\ Transmit("ack")
        /\ Received("date") /\ rxBuff # <<>>
    BY <1>4, <1>b DEF RxDate
  <2>2. Sent
    BY <1>b, <2>1 DEF Sent, Holds
  <2>3. /\ wifiState' = "Tx" /\ rxBuff' \in Seq(Msg) /\ toEsp' \in Seq(Msg) /\ ~ Sent'
        /\ (Asked' => Asked) /\ Once(toEsp, "askDate")'
    BY <2>1, Transmitted, NamesDiffer
  <2>4. ~ Asked' /\ ~ requestWaiting
    BY <2>1, <2>2, <2>3 DEF OneDate, DateThere
  <2>5. WifiTypeOK'
    BY <2>1, <2>3 DEF WifiTypeOK, module
  <2>6. OneDate'
    BY <2>1, <2>3, <2>4 DEF OneDate, DateThere
  <2>7. DateReceived
    BY <2>1, <2>2, <2>3, <2>4 DEF DateReceived, DateThere
  <2> QED BY <2>1, <2>5, <2>6, <2>7
<1>5. CASE RxOther
  <2>1. /\ UNCHANGED <<module, losses, steady, calling, bWifiTimeoutOn, requestWaiting, requestActive>>
        /\ wifiState = "RxData" /\ calling = "none" /\ rxBuff # <<>>
        /\ (Transmit("data") \/ Transmit("nack"))
    BY <1>5, <1>b DEF RxOther
  <2>2. /\ wifiState' = "Tx" /\ rxBuff' \in Seq(Msg) /\ toEsp' \in Seq(Msg) /\ ~ Sent'
        /\ (Asked' => Asked) /\ Once(toEsp, "askDate")'
    BY <2>1, Transmitted, NamesDiffer
  <2>3. WifiTypeOK'
    BY <2>1, <2>2 DEF WifiTypeOK, module
  <2>4. OneDate'
    BY <2>1, <2>2 DEF OneDate, DateThere
  <2>5. Quietly
    BY <2>1, <2>2 DEF Quietly, DateThere
  <2> QED BY <2>1, <2>3, <2>4, <2>5
<1> QED BY <1>1, <1>2, <1>3, <1>4, <1>5 DEF Machine

(* The date has not come within the time-out.                              *)
LEMMA TimeoutStep ==
  ASSUME WifiTypeOK, OneDate, DateTimeout
  PROVE  /\ WifiTypeOK' /\ OneDate' /\ bWifiTimeoutOn /\ ~ bWifiTimeoutOn' /\ ~ requestWaiting'
         /\ calling = "none" /\ calling' = "retry" /\ (DateThere' <=> DateThere)
<1>1. /\ UNCHANGED <<rxBuff, toEsp, wifiState, requestActive, module, losses, steady>>
      /\ bWifiTimeoutOn /\ bWifiTimeoutOn' = FALSE /\ requestWaiting' = FALSE
      /\ calling = "none" /\ calling' = "retry"
  BY DEF DateTimeout
<1>2. (Asked' <=> Asked) /\ (Sent' <=> Sent) /\ (Once(toEsp, "askDate")' <=> Once(toEsp, "askDate"))
  BY <1>1 DEF Asked, Sent
<1>3. WifiTypeOK'
  BY <1>1 DEF WifiTypeOK, module
<1>4. OneDate'
  BY <1>1, <1>2 DEF OneDate, DateThere
<1> QED BY <1>1, <1>2, <1>3, <1>4 DEF DateThere

(* Nothing is asked for, or sent, that was not; and nothing twice.         *)
NothingNew ==
  /\ rxBuff' \in Seq(Msg) /\ toEsp' \in Seq(Msg)
  /\ Asked' => Asked
  /\ Sent' => Sent
  /\ Once(toEsp, "askDate") => Once(toEsp, "askDate")'

(* Then one request still makes one date.                                  *)
LEMMA NothingNewKeeps ==
  ASSUME WifiTypeOK, OneDate, NothingNew, UNCHANGED board
  PROVE  OneDate' /\ (DateThere' => DateThere)
BY DEF OneDate, DateThere, NothingNew, board

(* What the module does with the two buffers, but for sending the date.    *)
LEMMA BuffersShrink ==
  ASSUME WifiTypeOK,
         \/ toEsp' = toEsp
         \/ toEsp' = <<>>
         \/ toEsp # <<>> /\ toEsp' \in {Tail(toEsp), Old(Tail(toEsp))} \cup Damages(toEsp)
         \/ \E k \in {1, 2} : \E s \in Left(toEsp, k) : k <= Len(toEsp) /\ toEsp' = Old(s),
         \/ rxBuff' \in {rxBuff, Old(rxBuff)}
         \/ rxBuff # <<>> /\ rxBuff' \in Damages(rxBuff)
         \/ \E id \in Requests \cup {"req", "sync"} : rxBuff' = Append(rxBuff, New(id))
  PROVE  NothingNew
<1>1. rxBuff \in Seq(Msg) /\ toEsp \in Seq(Msg) /\ <<>> \in Seq(Msg)
  BY DEF WifiTypeOK
<1>2. toEsp' \in Seq(Msg) /\ (Asked' => Asked) /\ (Once(toEsp, "askDate") => Once(toEsp, "askDate")')
  <2>1. CASE toEsp' = toEsp
    BY <1>1, <2>1 DEF Asked
  <2>2. CASE toEsp' = <<>>
    BY <1>1, <2>2, EmptyIs DEF Asked
  <2>3. CASE toEsp # <<>> /\ toEsp' \in {Tail(toEsp), Old(Tail(toEsp))} \cup Damages(toEsp)
    <3>1. toEsp' \in Seq(Msg) /\ Part(toEsp', toEsp)
      BY <1>1, <2>3, Leaves, Damaged
    <3> QED BY <1>1, <3>1, PartOf DEF Asked
  <2>4. ASSUME NEW k \in {1, 2}, NEW s \in Left(toEsp, k), k <= Len(toEsp), toEsp' = Old(s)
        PROVE  toEsp' \in Seq(Msg) /\ (Asked' => Asked)
               /\ (Once(toEsp, "askDate") => Once(toEsp, "askDate")')
    <3>1. s \in Seq(Msg) /\ Part(s, toEsp)
      BY <1>1, <2>4, LeftIs
    <3>2. toEsp' \in Seq(Msg) /\ Part(toEsp', toEsp)
      BY <1>1, <2>4, <3>1, OldPart
    <3> QED BY <1>1, <3>2, PartOf DEF Asked
  <2> QED BY <2>1, <2>2, <2>3, <2>4
<1>3. rxBuff' \in Seq(Msg) /\ (Sent' => Sent)
  <2>1. CASE rxBuff' = rxBuff
    BY <1>1, <2>1 DEF Sent
  <2>2. CASE rxBuff' = Old(rxBuff)
    BY <1>1, <2>2, Ages DEF Sent, Holds
  <2>3. CASE rxBuff # <<>> /\ rxBuff' \in Damages(rxBuff)
    BY <1>1, <2>3, Damaged, PartOf DEF Sent
  <2>4. ASSUME NEW id \in Requests \cup {"req", "sync"}, rxBuff' = Append(rxBuff, New(id))
        PROVE  rxBuff' \in Seq(Msg) /\ (Sent' => Sent)
    BY <1>1, <2>4, NewIs, Arrives, NamesDiffer DEF Sent
  <2> QED BY <2>1, <2>2, <2>3, <2>4
<1> QED BY <1>2, <1>3 DEF NothingNew

(* The module sends the date it was asked for, which was asked for once.   *)
LEMMA DateIsSent ==
  ASSUME WifiTypeOK, OneDate, SendDate
  PROVE  WifiTypeOK' /\ OneDate' /\ UNCHANGED board /\ (DateThere' => DateThere)
<1>1. rxBuff \in Seq(Msg) /\ toEsp \in Seq(Msg)
  BY DEF WifiTypeOK
<1>2. /\ toEsp # <<>> /\ Head(toEsp).id = "askDate" /\ esp' = esp
      /\ toEsp' = Old(Tail(toEsp)) /\ rxBuff' = Append(Old(rxBuff), New("date"))
      /\ UNCHANGED <<board, losses, steady, skewed>> /\ exchange' = "date"
  BY DEF SendDate, Readable, Complete
<1>3. Asked
  BY <1>1, <1>2, Leaves DEF Asked, Holds
<1>4. ~ Asked'
  <2>1. SUFFICES ASSUME NEW i \in DOMAIN toEsp', toEsp'[i].id = "askDate" PROVE FALSE
    BY DEF Asked, Holds
  <2>2. i + 1 \in DOMAIN toEsp /\ i + 1 # 1 /\ toEsp[i + 1].id = "askDate"
    BY <1>1, <1>2, <2>1, Leaves
  <2>3. 1 \in DOMAIN toEsp /\ toEsp[1].id = "askDate"
    BY <1>1, <1>2, Leaves
  <2> QED BY <2>2, <2>3 DEF OneDate, Once
<1>5. toEsp' \in Seq(Msg) /\ Once(toEsp, "askDate")'
  BY <1>1, <1>2, Leaves, PartOf DEF OneDate
<1>6. rxBuff' \in Seq(Msg)
  BY <1>1, <1>2, Ages, NewIs, Arrives, NamesDiffer
<1>7. WifiTypeOK'
  BY <1>2, <1>5, <1>6 DEF WifiTypeOK, board
<1>8. OneDate'
  BY <1>2, <1>3, <1>4, <1>5 DEF OneDate, DateThere, board
<1> QED BY <1>2, <1>3, <1>7, <1>8 DEF DateThere

(* The header that is none ends with the first message, or the second.     *)
LEMMA EndIsThere ==
  ASSUME toEsp \in Seq(Msg), Garbled
  PROVE  HeaderEnd \in {1, 2} /\ HeaderEnd <= Len(toEsp)
<1>1. toEsp # <<>> /\ Len(toEsp) \in Nat
  BY DEF Garbled, HeaderIn
<1>2. 1 <= Len(toEsp)
  BY <1>1
<1>3. skewed \/ HasData(Head(toEsp)) \/ Len(toEsp) > 1
  BY DEF Garbled, HeaderIn
<1> QED BY <1>1, <1>2, <1>3 DEF HeaderEnd

(* Neither the module nor the line makes a date that the board did not ask *)
(* for.                                                                    *)
LEMMA ModuleSteps ==
  ASSUME WifiTypeOK, OneDate, Module \/ Lose
  PROVE  WifiTypeOK' /\ OneDate' /\ UNCHANGED board /\ (DateThere' => DateThere)
<1>1. CASE SendDate
  BY <1>1, DateIsSent
<1> DEFINE Types == /\ esp' \in {"dead", "sync", "synced", "idle", "busy", "wait", "stuck"}
                    /\ exchange' \in Requests \cup {"req", "date"}
                    /\ skewed' \in BOOLEAN /\ losses' \in 0 .. Losses /\ steady' \in BOOLEAN
<1>2. ASSUME NothingNew, UNCHANGED board, Types
      PROVE  WifiTypeOK' /\ OneDate' /\ UNCHANGED board /\ (DateThere' => DateThere)
  <2>1. WifiTypeOK'
    BY <1>2 DEF WifiTypeOK, NothingNew, board
  <2> QED BY <1>2, <2>1, NothingNewKeeps
<1>3. CASE Poll \/ \E id \in Requests : AskFor(id)
  <2>1. /\ UNCHANGED <<board, toEsp>> /\ Types
        /\ \E id \in Requests \cup {"req", "sync"} : rxBuff' = Append(rxBuff, New(id))
    BY <1>3 DEF Poll, AskFor, Ask, WifiTypeOK
  <2> QED BY <1>2, <2>1, BuffersShrink
<1>4. CASE AskedToSync \/ BadLength \/ SyncFlush \/ Synced \/ Die \/ Start
  <2>1. /\ UNCHANGED board /\ Types /\ rxBuff' \in {rxBuff, Old(rxBuff)}
        /\ (toEsp' = <<>> \/ toEsp' = toEsp)
    BY <1>4 DEF AskedToSync, Synchronize, BadLength, SyncFlush, Synced, Die, Start, module, WifiTypeOK
  <2> QED BY <1>2, <2>1, BuffersShrink
<1>a. toEsp \in Seq(Msg)
  BY DEF WifiTypeOK
<1>b. ASSUME UNCHANGED <<board, exchange, losses, steady>>, NEW k \in {1, 2}, k <= Len(toEsp), GivenUp(k)
      PROVE  WifiTypeOK' /\ OneDate' /\ UNCHANGED board /\ (DateThere' => DateThere)
  <2>1. /\ UNCHANGED board /\ Types /\ rxBuff' = Old(rxBuff)
        /\ \E s \in Left(toEsp, k) : toEsp' = Old(s)
    BY <1>b DEF GivenUp, ExchangeOver, WifiTypeOK
  <2>2. NothingNew
    BY <1>b, <2>1, BuffersShrink
  <2> QED BY <1>2, <2>1, <2>2
<1>5. CASE Answered
  <2>1. /\ UNCHANGED <<board, exchange, losses, steady>> /\ toEsp # <<>>
        /\ \/ ExchangeOver(Tail(toEsp)) /\ UNCHANGED skewed
           \/ Head(toEsp).cut = "part" /\ GivenUp(1)
           \/ Head(toEsp).cut \notin {"no", "part"} /\ GivenUp(2)
    BY <1>5 DEF Answered, Readable, Complete
  <2>2. CASE ExchangeOver(Tail(toEsp)) /\ UNCHANGED skewed
    <3>1. UNCHANGED board /\ Types /\ rxBuff' = Old(rxBuff) /\ toEsp' = Old(Tail(toEsp))
      BY <2>1, <2>2 DEF ExchangeOver, WifiTypeOK
    <3> QED BY <1>2, <2>1, <3>1, BuffersShrink
  <2>3. 1 <= Len(toEsp) /\ (Head(toEsp).cut \notin {"no", "part"} => 2 <= Len(toEsp))
    <3>1. Head(toEsp).cut \notin {"no", "part"} => Len(toEsp) > 1
      BY <1>5 DEF Answered, Readable, Complete
    <3> QED BY <1>a, <2>1, <3>1
  <2> QED BY <1>b, <2>1, <2>2, <2>3
<1>6. CASE BadMagic
  <2>1. UNCHANGED <<board, exchange, losses, steady>> /\ (Synchronize \/ GivenUp(HeaderEnd))
    BY <1>6 DEF BadMagic
  <2>2. CASE Synchronize
    <3>1. UNCHANGED board /\ Types /\ rxBuff' = Old(rxBuff) /\ toEsp' = <<>>
      BY <2>1, <2>2 DEF Synchronize, WifiTypeOK
    <3> QED BY <1>2, <3>1, BuffersShrink
  <2>3. HeaderEnd \in {1, 2} /\ HeaderEnd <= Len(toEsp)
    BY <1>6, <1>a, EndIsThere DEF BadMagic
  <2>4. CASE GivenUp(HeaderEnd)
    <3> DEFINE k == HeaderEnd
    <3> HIDE DEF k
    <3>1. GivenUp(k) /\ k \in {1, 2} /\ k <= Len(toEsp)
      BY <2>3, <2>4 DEF k
    <3> QED BY <1>b, <2>1, <3>1
  <2> QED BY <2>1, <2>2, <2>4
<1>7. CASE SyncReceived
  <2>1. /\ UNCHANGED board /\ Types /\ rxBuff' = Append(rxBuff, New("sync"))
        /\ toEsp # <<>> /\ toEsp' = Tail(toEsp)
    BY <1>7 DEF SyncReceived, WifiTypeOK
  <2> QED BY <1>2, <2>1, BuffersShrink
<1>8. CASE Lose
  <2>1. /\ UNCHANGED <<board, module>> /\ steady' = FALSE
        /\ losses < Losses /\ losses' = losses + 1
        /\ \/ rxBuff # <<>> /\ rxBuff' \in Damages(rxBuff) /\ UNCHANGED toEsp
           \/ toEsp # <<>> /\ toEsp' \in Damages(toEsp) /\ UNCHANGED rxBuff
    BY <1>8 DEF Lose
  <2>2. losses' \in 0 .. Losses
    BY <2>1 DEF WifiTypeOK
  <2>3. Types
    BY <2>1, <2>2 DEF module, WifiTypeOK
  <2> QED BY <1>2, <2>1, <2>3, BuffersShrink
<1> QED BY <1>1, <1>3, <1>4, <1>5, <1>6, <1>7, <1>8 DEF Module, Replies

-----------------------------------------------------------------------------
(* The places of a task, and its new place.                                *)
Spot == {"loop", "retry", "switch", "store", "stop", "idle", "done"}

(* Outside of timeNext a task is in its own loop.                          *)
LEMMA OutsideLoops == Outside.at = "loop" /\ Outside \in Place
BY DEF Outside, Place, Status

(* The fields of the place of a task.                                      *)
LEMMA PlaceIs ==
  ASSUME TimeTypeOK, NEW t \in Task
  PROVE  /\ pc[t] \in Place /\ pc[t].at \in Spot /\ pc[t].to \in Status /\ pc[t].ends \in BOOLEAN
         /\ pc[t].by \in {"", "wifi", "sntp", "linky"}
         /\ pc[t] = [at |-> pc[t].at, to |-> pc[t].to, ends |-> pc[t].ends, by |-> pc[t].by]
<1>1. pc[t] \in Place
  BY DEF TimeTypeOK
<1> QED BY <1>1 DEF Place, Spot

(* A task that goes on keeps the rest of its place.                        *)
LEMMA GoesPuts ==
  ASSUME TimeTypeOK, NEW t \in Task, NEW at, Goes(t, at)
  PROVE  pc' = [pc EXCEPT ![t] = [at |-> at, to |-> pc[t].to, ends |-> pc[t].ends, by |-> pc[t].by]]
<1> DEFINE q == pc[t]
<1>1. q = [at |-> q.at, to |-> q.to, ends |-> q.ends, by |-> q.by]
  BY PlaceIs
<1>2. [q EXCEPT !.at = at] = [at |-> at, to |-> q.to, ends |-> q.ends, by |-> q.by]
  <2> HIDE DEF q
  <2> QED BY <1>1
<1>3. pc' = [pc EXCEPT ![t] = [q EXCEPT !.at = at]]
  BY DEF Goes
<1> QED BY <1>2, <1>3

(* Its new place, and the place of the other task.                         *)
LEMMA GoesIs ==
  ASSUME TimeTypeOK, NEW t \in Task, NEW at \in Spot, Goes(t, at)
  PROVE  /\ pc' \in [Task -> Place]
         /\ pc'[t].at = at /\ pc'[t].to = pc[t].to /\ pc'[t].ends = pc[t].ends /\ pc'[t].by = pc[t].by
         /\ \A u \in Task \ {t} : pc'[u] = pc[u]
<1>1. /\ pc[t].to \in Status /\ pc[t].ends \in BOOLEAN /\ pc[t].by \in {"", "wifi", "sntp", "linky"}
  BY PlaceIs
<1> DEFINE p == [at |-> at, to |-> pc[t].to, ends |-> pc[t].ends, by |-> pc[t].by]
<1>2. /\ p \in Place /\ p.at = at /\ p.to = pc[t].to /\ p.ends = pc[t].ends /\ p.by = pc[t].by
  BY <1>1 DEF Place, Spot
<1>3. pc \in [Task -> Place] /\ pc' = [pc EXCEPT ![t] = p]
  BY GoesPuts DEF TimeTypeOK
<1> HIDE DEF p
<1> QED BY <1>2, <1>3

(* The place of a task that calls timeNext.                                *)
LEMMA CallsIs ==
  ASSUME TimeTypeOK, NEW t \in Task, NEW at \in Spot, NEW by \in {"", "wifi", "sntp"}, Calls(t, at, by)
  PROVE  /\ pc' \in [Task -> Place] /\ pc'[t].at = at /\ pc'[t].by = by
         /\ \A u \in Task \ {t} : pc'[u] = pc[u]
<1> DEFINE p == [at |-> at, to |-> "IDLE", ends |-> FALSE, by |-> by]
<1>1. p \in Place /\ p.at = at /\ p.by = by
  BY DEF Place, Spot, Status
<1>2. pc \in [Task -> Place] /\ pc' = [pc EXCEPT ![t] = p]
  BY DEF TimeTypeOK, Calls
<1> HIDE DEF p
<1> QED BY <1>1, <1>2

(* The place of a task after one case of the switch.                       *)
LEMMA CaseIs ==
  ASSUME TimeTypeOK, NEW t \in Task, NEW STATE s, NEW to \in Status, NEW ends \in BOOLEAN,
         Case(t, s, to, ends)
  PROVE  /\ timeStatus = s /\ pc' \in [Task -> Place]
         /\ pc'[t].at = "store" /\ pc'[t].to = to /\ pc'[t].ends = ends /\ pc'[t].by = pc[t].by
         /\ \A u \in Task \ {t} : pc'[u] = pc[u]
<1>1. pc[t].by \in {"", "wifi", "sntp", "linky"} /\ "store" \in Spot
  BY PlaceIs DEF Spot
<1> DEFINE p == [at |-> "store", to |-> to, ends |-> ends, by |-> pc[t].by]
<1>2. p \in Place /\ p.at = "store" /\ p.to = to /\ p.ends = ends /\ p.by = pc[t].by
  BY <1>1 DEF Place, Spot
<1>3. timeStatus = s /\ pc \in [Task -> Place] /\ pc' = [pc EXCEPT ![t] = p]
  BY DEF TimeTypeOK, Case
<1> HIDE DEF p
<1> QED BY <1>2, <1>3

-----------------------------------------------------------------------------
(* A step of a task that is, or comes, inside while the other is outside.  *)
LEMMA StepInside ==
  ASSUME TimeInv, TimeTypeOK', OneDate', NEW t \in Task,
         \A u \in Task \ {t} : ~ Inside(u) /\ pc'[u] = pc[u],
         Inside(t)', Places(t)',
         t = "main" => ~ DateThere',
         t = "lan" => CalledByWifi' /\ LateDate'
  PROVE  TimeInv'
<1>1. ASSUME NEW u \in Task \ {t} PROVE ~ Inside(u)' /\ Places(u)'
  <2>1. pc[u] = Outside
    BY <1>1 DEF TimeInv, Places, Inside, Task
  <2>2. pc'[u] = Outside /\ Outside.at = "loop"
    BY <1>1, <2>1 DEF Outside
  <2> QED BY <2>2 DEF Places, Inside
<1>2. NeverTogether' /\ NobodyInside' /\ Places("main")' /\ Places("lan")'
  BY <1>1 DEF NeverTogether, NobodyInside, Task
<1>3. CalledByWifi' /\ LateDate'
  <2>1. CASE t = "lan"
    BY <2>1
  <2>2. CASE t = "main"
    <3>1. pc'["lan"].at = "loop" /\ ~ DateThere'
      BY <1>1, <2>2 DEF Inside, Task
    <3> QED BY <3>1 DEF CalledByWifi, LateDate, Inside
  <2> QED BY <2>1, <2>2 DEF Task
<1> QED BY <1>2, <1>3 DEF TimeInv

(* What is known of the task that is inside, and of the other.             *)
LEMMA WhenInside ==
  ASSUME TimeInv, NEW t \in Task, Inside(t)
  PROVE  /\ Places(t) /\ TimeTypeOK /\ OneDate
         /\ \A u \in Task \ {t} : ~ Inside(u)
         /\ t = "main" => ~ DateThere
         /\ t = "lan" => CalledByWifi /\ LateDate
BY DEF TimeInv, NeverTogether, LateDate, Task

(* timeNext does not look at the messages.                                 *)
LEMMA MessagesStay ==
  ASSUME OneDate, TimeTypeOK, UNCHANGED wifiRest
  PROVE  /\ DateThere' <=> DateThere
         /\ UNCHANGED <<requestWaiting, bWifiTimeoutOn>> => OneDate'
         /\ requestWaiting' \in BOOLEAN /\ bWifiTimeoutOn' \in BOOLEAN
            /\ calling' \in {"none", "retry", "reset"} => WifiTypeOK'
<1>1. UNCHANGED <<wifiState, requestActive, rxBuff, toEsp, module, losses, steady>>
  BY DEF wifiRest
<1>2. (Asked' <=> Asked) /\ (Sent' <=> Sent) /\ (Once(toEsp, "askDate")' <=> Once(toEsp, "askDate"))
  BY <1>1 DEF Asked, Sent
<1>3. DateThere' <=> DateThere
  BY <1>2 DEF DateThere
<1>4. UNCHANGED <<requestWaiting, bWifiTimeoutOn>> => OneDate'
  BY <1>1, <1>2, <1>3 DEF OneDate
<1>5. /\ requestWaiting' \in BOOLEAN /\ bWifiTimeoutOn' \in BOOLEAN
      /\ calling' \in {"none", "retry", "reset"}
      => WifiTypeOK'
  BY <1>1 DEF TimeTypeOK, WifiTypeOK, module
<1> QED BY <1>3, <1>4, <1>5

(* NEXT_RETRY leads to the switch: the automaton is not idle.              *)
LEMMA RetryStep ==
  ASSUME TimeInv, NEW t \in Task, Retry(t)
  PROVE  TimeInv'
<1>1. /\ pc[t].at = "retry" /\ Goes(t, IF timeStatus = "IDLE" THEN "done" ELSE "switch")
      /\ UNCHANGED <<timeStatus, devices, timeIsUpdated, calling, wifiRest>>
  BY DEF Retry, At
<1>2. Inside(t)
  BY <1>1 DEF Inside
<1>3. /\ Places(t) /\ TimeTypeOK /\ OneDate
      /\ \A u \in Task \ {t} : ~ Inside(u)
      /\ t = "main" => ~ DateThere
      /\ t = "lan" => CalledByWifi /\ LateDate
  BY <1>2, WhenInside
<1>4. timeStatus # "IDLE"
  BY <1>1, <1>3 DEF Places
<1>5. "switch" \in Spot /\ Goes(t, "switch")
  BY <1>1, <1>4 DEF Spot
<1>6. /\ pc' \in [Task -> Place]
      /\ pc'[t].at = "switch" /\ pc'[t].by = pc[t].by
      /\ \A u \in Task \ {t} : pc'[u] = pc[u]
  BY <1>3, <1>5, GoesIs
<1>7. DateThere' <=> DateThere
  BY <1>1, <1>3, MessagesStay
<1>8. OneDate' /\ WifiTypeOK'
  BY <1>1, <1>3, MessagesStay DEF devices, TimeTypeOK, WifiTypeOK
<1>9. TimeTypeOK'
  BY <1>1, <1>3, <1>6, <1>8 DEF TimeTypeOK, devices, lanVars
<1>10. Places(t)'
  BY <1>1, <1>3, <1>6 DEF Places, OnFor, Inside, devices, lanVars
<1>11. t = "lan" => CalledByWifi' /\ LateDate'
  BY <1>1, <1>3, <1>6, <1>7 DEF CalledByWifi, LateDate, Inside, devices, Task
<1>12. Inside(t)'
  BY <1>6 DEF Inside
<1> QED BY <1>3, <1>6, <1>7, <1>8, <1>9, <1>10, <1>11, <1>12, StepInside

(* One case of the switch: what is asked for is what the status it goes to *)
(* waits for.                                                              *)
LEMMA CaseStep ==
  ASSUME TimeInv, NEW t \in Task, pc[t].at = "switch",
         UNCHANGED <<timeStatus, timeIsUpdated, calling, wifiRest, sntpRunning, linkOff>>,
         NEW to \in Status, NEW ends \in BOOLEAN, Case(t, timeStatus, to, ends),
         <<timeStatus, to>> \in Follows, ends <=> to \in Waiting, OnFor(to)',
         dnsState' \in 0 .. 2, bLinkyDateUpdate' \in BOOLEAN, timer' \in BOOLEAN,
         \/ UNCHANGED <<requestWaiting, bWifiTimeoutOn>>
         \/ to = "WIFI_WAIT" /\ requestWaiting' = TRUE /\ bWifiTimeoutOn' = TRUE
  PROVE  TimeInv'
<1>1. Inside(t)
  BY DEF Inside
<1>2. /\ Places(t) /\ TimeTypeOK /\ OneDate
      /\ \A u \in Task \ {t} : ~ Inside(u)
      /\ t = "main" => ~ DateThere
      /\ t = "lan" => CalledByWifi /\ LateDate
  BY <1>1, WhenInside
<1>3. /\ timeIsUpdated = 1 /\ (sntpRunning <=> pc[t].by = "sntp") /\ pc[t].by \in {"", "sntp"}
      /\ timer <=> timeStatus = "DELAY"
  BY <1>1, <1>2 DEF Places, OnFor
<1>4. /\ pc' \in [Task -> Place]
      /\ pc'[t].at = "store" /\ pc'[t].to = to /\ pc'[t].ends = ends /\ pc'[t].by = pc[t].by
      /\ \A u \in Task \ {t} : pc'[u] = pc[u]
  BY <1>2, CaseIs
<1>5. DateThere' <=> DateThere
  BY <1>2, MessagesStay
<1>6. to = "WIFI_WAIT" => ~ DateThere
  BY <1>1, <1>2 DEF LateDate, Follows, Task
<1>7. OneDate'
  <2>1. CASE UNCHANGED <<requestWaiting, bWifiTimeoutOn>>
    BY <1>2, <2>1, MessagesStay
  <2>2. CASE to = "WIFI_WAIT" /\ requestWaiting' = TRUE /\ bWifiTimeoutOn' = TRUE
    <3>1. ~ DateThere' /\ toEsp' = toEsp
      BY <1>5, <1>6, <2>2 DEF wifiRest
    <3> QED BY <1>2, <2>2, <3>1 DEF OneDate, DateThere
  <2> QED BY <2>1, <2>2
<1>8. WifiTypeOK'
  BY <1>2, MessagesStay DEF TimeTypeOK, WifiTypeOK
<1>9. TimeTypeOK'
  BY <1>2, <1>4, <1>8 DEF TimeTypeOK
<1>10. Places(t)'
  BY <1>2, <1>3, <1>4 DEF Places, Inside
<1>11. t = "lan" => CalledByWifi' /\ LateDate'
  BY <1>1, <1>2, <1>3, <1>4, <1>5 DEF CalledByWifi, LateDate, Inside, Task, OnFor, Follows
<1>12. Inside(t)'
  BY <1>4 DEF Inside
<1> QED BY <1>2, <1>4, <1>5, <1>7, <1>9, <1>10, <1>11, <1>12, StepInside

(* The statuses, those that wait, and how they follow each other.          *)
LEMMA StatusFollows ==
  /\ "LAN" \in Status /\ "LAN_WAIT" \in Status /\ "WIFI" \in Status /\ "WIFI_WAIT" \in Status
  /\ "LINKY" \in Status /\ "NONE" \in Status /\ "DELAY" \in Status
  /\ "LAN_WAIT" \in Waiting /\ "WIFI_WAIT" \in Waiting /\ "DELAY" \in Waiting
  /\ "LAN" \notin Waiting /\ "WIFI" \notin Waiting /\ "LINKY" \notin Waiting /\ "NONE" \notin Waiting
  /\ <<"IDLE", "LAN">> \in Follows /\ <<"LAN", "LAN_WAIT">> \in Follows
  /\ <<"LAN", "WIFI">> \in Follows /\ <<"LAN_WAIT", "WIFI">> \in Follows
  /\ <<"WIFI", "WIFI_WAIT">> \in Follows /\ <<"WIFI_WAIT", "LINKY">> \in Follows
  /\ <<"LINKY", "NONE">> \in Follows /\ <<"NONE", "DELAY">> \in Follows
  /\ <<"DELAY", "LAN">> \in Follows
BY DEF Status, Waiting, Follows

(* Every case of the switch is such a case.                                *)
LEMMA SwitchStep ==
  ASSUME TimeInv, NEW t \in Task, Switch(t)
  PROVE  TimeInv'
<1>1. pc[t].at = "switch" /\ UNCHANGED <<timeStatus, timeIsUpdated, calling, wifiRest>>
  BY DEF Switch, At
<1>2. Places(t) /\ TimeTypeOK /\ OneDate
  BY <1>1, WhenInside DEF Inside
<1>3. /\ dnsState = 0 /\ bWifiTimeoutOn = FALSE /\ requestWaiting = FALSE
      /\ timer = (timeStatus = "DELAY")
  BY <1>1, <1>2 DEF Places, OnFor, OneDate, TimeTypeOK, WifiTypeOK
<1>4. bLinkyDateUpdate \in BOOLEAN /\ timer \in BOOLEAN /\ dnsState \in 0 .. 2
  BY <1>2 DEF TimeTypeOK
<1>5. ASSUME NEW to \in {"LAN", "WIFI", "LINKY"}, Case(t, timeStatus, to, FALSE),
             <<timeStatus, to>> \in Follows, UNCHANGED devices, timeStatus # "DELAY"
      PROVE  TimeInv'
  <2>1. OnFor(to)'
    BY <1>3, <1>5 DEF OnFor, devices, lanVars
  <2> QED BY <1>1, <1>4, <1>5, <2>1, CaseStep, StatusFollows DEF devices, lanVars
<1>6. CASE Simple(t)
  <2>1. UNCHANGED devices
    BY <1>6 DEF Simple
  <2>2. CASE Case(t, "IDLE", "LAN", FALSE)
    BY <1>5, <2>1, <2>2, StatusFollows DEF Case
  <2>3. CASE Case(t, "LAN", "WIFI", FALSE)
    BY <1>5, <2>1, <2>3, StatusFollows DEF Case
  <2>4. CASE Case(t, "LAN_WAIT", "WIFI", FALSE)
    BY <1>5, <2>1, <2>4, StatusFollows DEF Case
  <2>5. CASE Case(t, "WIFI_WAIT", "LINKY", FALSE)
    BY <1>5, <2>1, <2>5, StatusFollows DEF Case
  <2> QED BY <1>6, <2>2, <2>3, <2>4, <2>5 DEF Simple
<1>7. CASE AskLan(t)
  <2>1. Case(t, timeStatus, "LAN_WAIT", TRUE) /\ timeStatus = "LAN"
    BY <1>7 DEF AskLan, Case
  <2>2. /\ dnsState' # 0 /\ dnsState' \in 0 .. 2
        /\ UNCHANGED <<sntpRunning, linkOff, bLinkyDateUpdate, timer, requestWaiting, bWifiTimeoutOn>>
    BY <1>3, <1>7 DEF AskLan, DnsRequest
  <2>3. OnFor("LAN_WAIT")'
    BY <1>3, <2>1, <2>2 DEF OnFor
  <2> QED BY <1>1, <1>4, <2>1, <2>2, <2>3, CaseStep, StatusFollows
<1>8. CASE AskWifi(t)
  <2>1. Case(t, timeStatus, "WIFI_WAIT", TRUE) /\ timeStatus = "WIFI"
    BY <1>8 DEF AskWifi, Case
  <2>2. /\ requestWaiting' = TRUE /\ bWifiTimeoutOn' = TRUE
        /\ UNCHANGED <<dnsState, sntpRunning, linkOff, bLinkyDateUpdate, timer>>
    BY <1>3, <1>8 DEF AskWifi, Request, lanVars
  <2>3. OnFor("WIFI_WAIT")'
    BY <1>3, <2>1, <2>2 DEF OnFor
  <2> QED BY <1>1, <1>4, <2>1, <2>2, <2>3, CaseStep, StatusFollows
<1>9. CASE NoLinky(t)
  <2>1. Case(t, timeStatus, "NONE", FALSE) /\ timeStatus = "LINKY"
    BY <1>9 DEF NoLinky, Case
  <2>2. /\ bLinkyDateUpdate' = FALSE
        /\ UNCHANGED <<dnsState, sntpRunning, linkOff, timer, requestWaiting, bWifiTimeoutOn>>
    BY <1>9 DEF NoLinky, lanVars
  <2>3. OnFor("NONE")'
    BY <1>3, <2>1, <2>2 DEF OnFor
  <2> QED BY <1>1, <1>4, <2>1, <2>2, <2>3, CaseStep, StatusFollows
<1>10. CASE Delay(t)
  <2>1. UNCHANGED <<dnsState, sntpRunning, linkOff, bLinkyDateUpdate, requestWaiting, bWifiTimeoutOn>>
    BY <1>10 DEF Delay, lanVars
  <2>2. CASE Case(t, "NONE", "DELAY", TRUE) /\ timer' = TRUE
    <3>1. Case(t, timeStatus, "DELAY", TRUE) /\ timeStatus = "NONE"
      BY <2>2 DEF Case
    <3>2. OnFor("DELAY")'
      BY <1>3, <2>1, <2>2 DEF OnFor
    <3> QED BY <1>1, <1>4, <2>1, <2>2, <3>1, <3>2, CaseStep, StatusFollows
  <2>3. CASE Case(t, "DELAY", "LAN", FALSE) /\ timer' = FALSE
    <3>1. Case(t, timeStatus, "LAN", FALSE) /\ timeStatus = "DELAY"
      BY <2>3 DEF Case
    <3>2. OnFor("LAN")'
      BY <1>3, <2>1, <2>3 DEF OnFor
    <3> QED BY <1>1, <1>4, <2>1, <2>3, <3>1, <3>2, CaseStep, StatusFollows
  <2> QED BY <1>10, <2>2, <2>3 DEF Delay
<1> QED BY <1>6, <1>7, <1>8, <1>9, <1>10 DEF Switch

(* The status is stored when what it waits for goes on.                    *)
LEMMA StoreStep ==
  ASSUME TimeInv, NEW t \in Task, Store(t)
  PROVE  TimeInv'
<1>1. /\ pc[t].at = "store" /\ timeStatus' = pc[t].to
      /\ Goes(t, IF pc[t].ends THEN "done" ELSE "switch")
      /\ UNCHANGED <<devices, timeIsUpdated, calling, wifiRest>>
  BY DEF Store, At
<1>2. Inside(t)
  BY <1>1 DEF Inside
<1>3. /\ Places(t) /\ TimeTypeOK /\ OneDate
      /\ \A u \in Task \ {t} : ~ Inside(u)
      /\ t = "main" => ~ DateThere
      /\ t = "lan" => CalledByWifi /\ LateDate
  BY <1>2, WhenInside
<1>4. /\ <<timeStatus, pc[t].to>> \in Follows /\ (pc[t].ends <=> pc[t].to \in Waiting)
      /\ OnFor(pc[t].to) /\ timeIsUpdated = 1
      /\ (sntpRunning <=> pc[t].by = "sntp") /\ pc[t].by \in {"", "sntp"}
      /\ t = "main" => pc[t].by = ""
  BY <1>1, <1>2, <1>3 DEF Places
<1>5. PICK at \in {"done", "switch"} : Goes(t, at) /\ (at = "done" <=> pc[t].to \in Waiting)
  BY <1>1, <1>4
<1>6. /\ pc' \in [Task -> Place] /\ pc'[t].at = at /\ pc'[t].by = pc[t].by
      /\ \A u \in Task \ {t} : pc'[u] = pc[u]
  <2>1. at \in Spot
    BY DEF Spot
  <2> QED BY <1>3, <1>5, <2>1, GoesIs
<1>7. DateThere' <=> DateThere
  BY <1>1, <1>3, MessagesStay
<1>8. OneDate' /\ WifiTypeOK'
  BY <1>1, <1>3, MessagesStay DEF devices, TimeTypeOK, WifiTypeOK
<1>9. TimeTypeOK'
  BY <1>1, <1>3, <1>6, <1>8, PlaceIs DEF TimeTypeOK, devices, lanVars
<1>10. Places(t)'
  BY <1>1, <1>4, <1>5, <1>6 DEF Places, OnFor, Inside, devices, lanVars, Follows, Waiting
<1>11. t = "lan" => CalledByWifi' /\ LateDate'
  BY <1>1, <1>3, <1>4, <1>5, <1>6, <1>7
     DEF CalledByWifi, LateDate, Inside, devices, Task, OnFor, Follows, Waiting
<1>12. Inside(t)'
  BY <1>6 DEF Inside
<1> QED BY <1>3, <1>6, <1>7, <1>8, <1>9, <1>10, <1>11, <1>12, StepInside

(* NEXT_RESET stops the timer.                                             *)
LEMMA StopStep ==
  ASSUME TimeInv, NEW t \in Task, Stop(t)
  PROVE  TimeInv'
<1>1. /\ pc[t].at = "stop" /\ timer' = FALSE /\ Goes(t, "idle")
      /\ UNCHANGED <<timeStatus, lanVars, bLinkyDateUpdate, requestWaiting, bWifiTimeoutOn,
                     timeIsUpdated, calling, wifiRest>>
  BY DEF Stop, At
<1>2. Inside(t)
  BY <1>1 DEF Inside
<1>3. /\ Places(t) /\ TimeTypeOK /\ OneDate
      /\ \A u \in Task \ {t} : ~ Inside(u)
      /\ t = "main" => ~ DateThere
      /\ t = "lan" => CalledByWifi /\ LateDate
  BY <1>2, WhenInside
<1>4. /\ pc' \in [Task -> Place] /\ pc'[t].at = "idle" /\ pc'[t].by = pc[t].by
      /\ \A u \in Task \ {t} : pc'[u] = pc[u]
  <2>1. "idle" \in Spot
    BY DEF Spot
  <2> QED BY <1>1, <1>3, <2>1, GoesIs
<1>5. DateThere' <=> DateThere
  BY <1>1, <1>3, MessagesStay
<1>6. OneDate' /\ WifiTypeOK'
  BY <1>1, <1>3, MessagesStay DEF TimeTypeOK, WifiTypeOK
<1>7. TimeTypeOK'
  BY <1>1, <1>3, <1>4, <1>6 DEF TimeTypeOK, lanVars
<1>8. Places(t)'
  BY <1>1, <1>2, <1>3, <1>4 DEF Places, OnFor, Inside, lanVars
<1>9. t = "lan" => CalledByWifi' /\ LateDate'
  BY <1>1, <1>2, <1>3, <1>4, <1>5 DEF CalledByWifi, LateDate, Inside, Task
<1>10. Inside(t)'
  BY <1>4 DEF Inside
<1> QED BY <1>3, <1>4, <1>5, <1>6, <1>7, <1>8, <1>9, <1>10, StepInside

(* NEXT_RESET: the automaton is idle.                                      *)
LEMMA ToIdleStep ==
  ASSUME TimeInv, NEW t \in Task, ToIdle(t)
  PROVE  TimeInv'
<1>1. /\ pc[t].at = "idle" /\ timeStatus' = "IDLE" /\ Goes(t, "done")
      /\ UNCHANGED <<devices, timeIsUpdated, calling, wifiRest>>
  BY DEF ToIdle, At
<1>2. Inside(t)
  BY <1>1 DEF Inside
<1>3. /\ Places(t) /\ TimeTypeOK /\ OneDate
      /\ \A u \in Task \ {t} : ~ Inside(u)
      /\ t = "main" => ~ DateThere
      /\ t = "lan" => CalledByWifi /\ LateDate
  BY <1>2, WhenInside
<1>4. /\ pc' \in [Task -> Place] /\ pc'[t].at = "done" /\ pc'[t].by = pc[t].by
      /\ \A u \in Task \ {t} : pc'[u] = pc[u]
  <2>1. "done" \in Spot
    BY DEF Spot
  <2> QED BY <1>1, <1>3, <2>1, GoesIs
<1>5. DateThere' <=> DateThere
  BY <1>1, <1>3, MessagesStay
<1>6. OneDate' /\ WifiTypeOK'
  BY <1>1, <1>3, MessagesStay DEF devices, TimeTypeOK, WifiTypeOK
<1>7. TimeTypeOK'
  BY <1>1, <1>3, <1>4, <1>6 DEF TimeTypeOK, devices, lanVars, Status
<1>8. Places(t)'
  BY <1>1, <1>2, <1>3, <1>4 DEF Places, OnFor, Inside, devices, lanVars
<1>9. t = "lan" => CalledByWifi' /\ LateDate'
  BY <1>1, <1>2, <1>3, <1>4, <1>5 DEF CalledByWifi, LateDate, Inside, Task, Places, OnFor, devices
<1>10. Inside(t)'
  BY <1>4 DEF Inside
<1> QED BY <1>3, <1>4, <1>5, <1>6, <1>7, <1>8, <1>9, <1>10, StepInside

(* The caller is told, and out of timeNext.                                *)
LEMMA DoneStep ==
  ASSUME TimeInv, NEW t \in Task, Done(t)
  PROVE  TimeInv'
<1>1. /\ pc[t].at = "done" /\ pc' = [pc EXCEPT ![t] = Outside]
      /\ timeIsUpdated' = IF pc[t].by \in {"wifi", "linky"} THEN Told ELSE timeIsUpdated
      /\ sntpRunning' = (sntpRunning /\ pc[t].by # "sntp")
      /\ calling' = IF t = "lan" THEN "none" ELSE calling
      /\ UNCHANGED <<timeStatus, dnsState, linkOff, bLinkyDateUpdate, timer, requestWaiting,
                     bWifiTimeoutOn, wifiRest>>
  BY DEF Done, At
<1>2. Inside(t)
  BY <1>1 DEF Inside
<1>3. /\ Places(t) /\ TimeTypeOK /\ OneDate
      /\ \A u \in Task \ {t} : ~ Inside(u)
      /\ t = "main" => ~ DateThere
      /\ t = "lan" => CalledByWifi /\ LateDate
  BY <1>2, WhenInside
<1>4. \A u \in Task : pc'[u] = Outside /\ pc'[u].at = "loop"
  <2>1. \A u \in Task \ {t} : pc[u] = Outside
    BY <1>3 DEF TimeInv, Places, Inside, Task
  <2>2. Outside.at = "loop"
    BY DEF Outside
  <2>3. pc \in [Task -> Place]
    BY <1>3 DEF TimeTypeOK
  <2>4. \A u \in Task : pc'[u] = Outside
    BY <1>1, <2>1, <2>3
  <2> QED BY <2>2, <2>4
<1>5. pc' \in [Task -> Place]
  <2>1. Outside \in Place
    BY DEF Outside, Place, Status
  <2> QED BY <1>1, <1>3, <2>1 DEF TimeTypeOK
<1>6. DateThere' <=> DateThere
  BY <1>1, <1>3, MessagesStay
<1>7. OneDate' /\ WifiTypeOK'
  BY <1>1, <1>3, MessagesStay DEF TimeTypeOK, WifiTypeOK
<1>8. timeIsUpdated' \in 0 .. 2 /\ sntpRunning' \in BOOLEAN
  BY <1>1, <1>3 DEF TimeTypeOK, Told
<1>9. TimeTypeOK'
  BY <1>1, <1>3, <1>5, <1>7, <1>8 DEF TimeTypeOK
<1>10. Places("main")' /\ Places("lan")' /\ ~ Inside("main")' /\ ~ Inside("lan")'
  BY <1>4 DEF Places, Inside, Task
<1>11. NeverTogether' /\ CalledByWifi' /\ LateDate'
  BY <1>4, <1>10 DEF NeverTogether, CalledByWifi, LateDate, Task
<1>12. /\ timeStatus \in Waiting \cup {"IDLE"} /\ OnFor(timeStatus)
       /\ sntpRunning <=> pc[t].by = "sntp"
       /\ pc[t].by \in {"", "sntp", "wifi"}
       /\ pc[t].by = "wifi" => timeStatus = "IDLE"
       /\ IF timeStatus = "IDLE" THEN timeIsUpdated # 1 \/ pc[t].by = "wifi" ELSE timeIsUpdated = 1
  BY <1>1, <1>2, <1>3 DEF Places
<1>13. timeIsUpdated' = 1 <=> timeStatus # "IDLE"
  <2>1. CASE pc[t].by = "wifi"
    <3>1. timeIsUpdated' = Told /\ timeStatus = "IDLE"
      BY <1>1, <1>12, <2>1
    <3> QED BY <1>3, <3>1 DEF Told
  <2>2. CASE pc[t].by # "wifi"
    <3>1. timeIsUpdated' = timeIsUpdated
      BY <1>1, <1>12, <2>2
    <3> QED BY <1>12, <2>2, <3>1
  <2> QED BY <2>1, <2>2
<1>14. ~ sntpRunning' /\ OnFor(timeStatus)' /\ timeStatus' = timeStatus
  BY <1>1, <1>12 DEF OnFor
<1>15. DateThere' => timeStatus = "DELAY"
  BY <1>1, <1>2, <1>3, <1>6 DEF LateDate, Task
<1>16. NobodyInside'
  BY <1>12, <1>13, <1>14, <1>15 DEF NobodyInside, OnFor
<1> QED BY <1>7, <1>9, <1>10, <1>11, <1>16 DEF TimeInv

-----------------------------------------------------------------------------
(* The task of the network runs in its loop only while nobody is inside,   *)
(* or while the main task waits in the status LAN, with nothing asked for. *)
LEMMA WhoRuns ==
  ASSUME TimeInv, InLoop
  PROVE  /\ ~ Inside("lan") /\ pc["lan"] = Outside
         /\ Inside("main") => /\ dnsState = 0 /\ ~ sntpRunning /\ ~ bWifiTimeoutOn
                              /\ ~ requestWaiting /\ ~ DateThere
<1>1. pc["lan"].at = "loop" /\ (pc["main"].at = "loop" \/ (pc["main"].at = "switch" /\ timeStatus = "LAN"))
  BY DEF InLoop, LanRuns, MainWaits
<1>2. ~ Inside("lan") /\ pc["lan"] = Outside
  BY <1>1 DEF TimeInv, Places, Inside
<1>3. ASSUME Inside("main")
      PROVE  /\ dnsState = 0 /\ ~ sntpRunning /\ ~ bWifiTimeoutOn
             /\ ~ requestWaiting /\ ~ DateThere
  <2>1. pc["main"].at = "switch" /\ timeStatus = "LAN"
    BY <1>1, <1>3 DEF Inside
  <2>2. ~ DateThere /\ OneDate /\ TimeTypeOK
    BY <1>3 DEF TimeInv, LateDate
  <2>3. dnsState = 0 /\ ~ bWifiTimeoutOn /\ ~ sntpRunning
    BY <1>3, <2>1, <2>2 DEF TimeInv, Places, OnFor, TimeTypeOK
  <2> QED BY <2>2, <2>3 DEF OneDate
<1> QED BY <1>2, <1>3

(* A step that leaves every task where it is, and what is asked for.       *)
LEMMA StepElsewhere ==
  ASSUME TimeInv, WifiTypeOK', OneDate', linkOff' \in BOOLEAN, timeIsUpdated' \in 0 .. 2,
         UNCHANGED <<timeStatus, dnsState, sntpRunning, bLinkyDateUpdate, timer, pc>>,
         UNCHANGED <<bWifiTimeoutOn, calling>>,
         timeIsUpdated' = 1 <=> timeIsUpdated = 1,
         DateThere' => \/ DateThere
                       \/ requestWaiting /\ ~ Inside("main") /\ ~ Inside("lan")
  PROVE  TimeInv'
<1>1. TimeTypeOK'
  BY DEF TimeInv, TimeTypeOK
<1>2. NeverTogether'
  BY DEF TimeInv, NeverTogether, Inside
<1>3. NobodyInside'
  BY DEF TimeInv, NobodyInside, Inside, OneDate
<1>4. ASSUME NEW t \in Task, Places(t) PROVE Places(t)'
  BY <1>4 DEF Places, OnFor, Inside
<1>5. Places("main")' /\ Places("lan")'
  BY <1>4 DEF TimeInv, Task
<1>6. CalledByWifi'
  BY DEF TimeInv, CalledByWifi, Inside
<1>7. LateDate'
  BY DEF TimeInv, LateDate, Inside
<1> QED BY <1>1, <1>2, <1>3, <1>5, <1>6, <1>7 DEF TimeInv

(* The link comes and goes.                                                *)
LEMMA LinkStep == ASSUME TimeInv, Link PROVE TimeInv'
<1>1. /\ linkOff' = ~ linkOff
      /\ UNCHANGED <<timeStatus, dnsState, sntpRunning, bLinkyDateUpdate, timer, timeIsUpdated, pc,
                     wifiVars>>
  BY DEF Link
<1>2. TimeTypeOK /\ OneDate
  BY DEF TimeInv
<1>3. UNCHANGED <<wifiRest, requestWaiting, bWifiTimeoutOn, calling>>
  BY <1>1 DEF wifiVars, board, wifiRest
<1>4. (DateThere' <=> DateThere) /\ OneDate' /\ WifiTypeOK'
  BY <1>2, <1>3, MessagesStay DEF TimeTypeOK, WifiTypeOK
<1>5. linkOff' \in BOOLEAN /\ timeIsUpdated' \in 0 .. 2
  BY <1>1, <1>2 DEF TimeTypeOK
<1> QED BY <1>1, <1>3, <1>4, <1>5, StepElsewhere

(* The history has taken the date it waited for.                           *)
LEMMA HistoStartStep == ASSUME TimeInv, HistoStart PROVE TimeInv'
<1>1. /\ timeIsUpdated = 2 /\ timeIsUpdated' = 0
      /\ UNCHANGED <<timeStatus, devices, pc, calling, wifiRest>>
  BY DEF HistoStart
<1>2. TimeTypeOK /\ OneDate
  BY DEF TimeInv
<1>3. (DateThere' <=> DateThere) /\ OneDate' /\ WifiTypeOK'
  BY <1>1, <1>2, MessagesStay DEF TimeTypeOK, WifiTypeOK, devices
<1>4. linkOff' \in BOOLEAN /\ timeIsUpdated' \in 0 .. 2 /\ (timeIsUpdated' = 1 <=> timeIsUpdated = 1)
  BY <1>1, <1>2 DEF TimeTypeOK, devices, lanVars
<1> QED BY <1>1, <1>3, <1>4, StepElsewhere DEF devices, lanVars

(* The module and the line do not touch timeUpdate.c.                      *)
LEMMA OverThereStep == ASSUME TimeInv, OverThere PROVE TimeInv'
<1>1. (Module \/ Lose) /\ UNCHANGED timeVars
  BY DEF OverThere
<1>2. TimeTypeOK /\ WifiTypeOK /\ OneDate
  BY DEF TimeInv, TimeTypeOK
<1>3. WifiTypeOK' /\ OneDate' /\ UNCHANGED board /\ (DateThere' => DateThere)
  BY <1>1, <1>2, ModuleSteps
<1>4. linkOff' \in BOOLEAN /\ timeIsUpdated' \in 0 .. 2
  BY <1>1, <1>2 DEF TimeTypeOK, timeVars, lanVars
<1> QED BY <1>1, <1>3, <1>4, StepElsewhere DEF timeVars, lanVars, board

(* A task enters timeNext, which the other is not in.                      *)
LEMMA Enters ==
  ASSUME TimeInv, ~ Inside("main"), ~ Inside("lan"),
         NEW t \in Task, NEW at \in {"retry", "switch", "stop"}, NEW by \in {"", "wifi", "sntp"},
         Calls(t, at, by), WifiTypeOK', OneDate',
         UNCHANGED <<timeStatus, sntpRunning, linkOff, bLinkyDateUpdate, timer>>,
         dnsState' \in 0 .. 2, timeIsUpdated' \in 0 .. 2,
         OnFor(IF timeStatus = "DELAY" THEN "DELAY" ELSE "IDLE")',
         at # "stop" => timeIsUpdated' = 1 /\ by # "wifi",
         at = "stop" => timeIsUpdated' # 1 \/ by = "wifi",
         at = "retry" => timeStatus # "IDLE",
         sntpRunning <=> by = "sntp",
         t = "main" => by = "" /\ ~ DateThere',
         t = "lan" /\ timeStatus \in {"WIFI_WAIT", "DELAY"} => calling' # "none",
         t = "lan" /\ DateThere' => timeStatus = "WIFI_WAIT" /\ at # "stop"
  PROVE  TimeInv'
<1>1. TimeTypeOK /\ timeStatus \in Waiting \cup {"IDLE"} /\ (timer <=> timeStatus = "DELAY")
  BY DEF TimeInv, NobodyInside
<1>2. at \in Spot
  BY DEF Spot
<1>3. /\ pc' \in [Task -> Place] /\ pc'[t].at = at /\ pc'[t].by = by
      /\ \A u \in Task \ {t} : pc'[u] = pc[u]
  BY <1>1, <1>2, CallsIs
<1>4. TimeTypeOK'
  BY <1>1, <1>3 DEF TimeTypeOK
<1>5. Inside(t)' /\ \A u \in Task \ {t} : ~ Inside(u)
  BY <1>3 DEF Inside, Task
<1>6. Places(t)'
  BY <1>1, <1>3, <1>5 DEF Places, Waiting
<1>7. t = "lan" => CalledByWifi' /\ LateDate'
  BY <1>1, <1>3, <1>5 DEF CalledByWifi, LateDate, Waiting, Inside, Task
<1> QED BY <1>3, <1>4, <1>5, <1>6, <1>7, StepInside

(* DNS servers are asked in the status LAN_WAIT only, by nobody inside.    *)
LEMMA DnsNextStep == ASSUME TimeInv, DnsNext PROVE TimeInv'
<1>1. /\ InLoop /\ dnsState # 0
      /\ UNCHANGED <<timeStatus, linkOff, bLinkyDateUpdate, timer, timeIsUpdated, wifiVars>>
  BY DEF DnsNext
<1>2. TimeTypeOK /\ OneDate /\ ~ Inside("lan") /\ ~ Inside("main")
  BY <1>1, WhoRuns DEF TimeInv
<1>3. /\ timeStatus = "LAN_WAIT" /\ timeIsUpdated = 1 /\ ~ sntpRunning
      /\ ~ bWifiTimeoutOn /\ ~ timer /\ ~ DateThere
  BY <1>1, <1>2 DEF TimeInv, NobodyInside
<1>4. UNCHANGED <<wifiRest, requestWaiting, bWifiTimeoutOn, calling>>
  BY <1>1 DEF wifiVars, board, wifiRest
<1>5. ~ DateThere' /\ OneDate' /\ WifiTypeOK'
  BY <1>2, <1>3, <1>4, MessagesStay DEF TimeTypeOK, WifiTypeOK
<1>6. CASE UNCHANGED pc /\ (dnsState' # 0 \/ sntpRunning') /\ ~ (dnsState' # 0 /\ sntpRunning')
           /\ dnsState' \in 0 .. 2 /\ sntpRunning' \in BOOLEAN
  <2>1. TimeTypeOK'
    BY <1>1, <1>2, <1>5, <1>6 DEF TimeTypeOK
  <2>2. ~ Inside("lan")' /\ ~ Inside("main")'
    BY <1>2, <1>6 DEF Inside
  <2>3. NobodyInside'
    BY <1>1, <1>3, <1>4, <1>5, <1>6 DEF NobodyInside, Waiting
  <2>4. ASSUME NEW t \in Task, Places(t), ~ Inside(t) PROVE Places(t)'
    BY <1>6, <2>4 DEF Places, Inside
  <2>5. Places("main")' /\ Places("lan")'
    BY <1>2, <2>4 DEF TimeInv, Task
  <2>6. NeverTogether' /\ CalledByWifi' /\ LateDate'
    BY <1>5, <2>2 DEF NeverTogether, CalledByWifi, LateDate, Inside
  <2> QED BY <1>5, <2>1, <2>3, <2>5, <2>6 DEF TimeInv
<1>7. CASE dnsState' = 0 /\ Calls("lan", "retry", "") /\ UNCHANGED sntpRunning
  <2>1. dnsState' \in 0 .. 2 /\ timeIsUpdated' \in 0 .. 2 /\ "lan" \in Task
    <3>1. dnsState' = 0 /\ timeIsUpdated' = 1
      BY <1>1, <1>3, <1>7
    <3> QED BY <3>1 DEF Task
  <2>2. ~ bWifiTimeoutOn' /\ ~ timer'
    BY <1>1, <1>3, <1>4
  <2>3. OnFor("IDLE")'
    BY <1>7, <2>2 DEF OnFor
  <2> QED BY <1>1, <1>2, <1>3, <1>4, <1>5, <1>7, <2>1, <2>3, Enters
<1>8. CASE dnsState' = 0 /\ sntpRunning' = TRUE /\ UNCHANGED pc
  <2>1. dnsState' \in 0 .. 2 /\ ~ (dnsState' # 0)
    BY <1>8
  <2> QED BY <1>6, <1>8, <2>1
<1>9. CASE dnsState' = 2 /\ UNCHANGED <<sntpRunning, pc>>
  <2>1. dnsState' \in 0 .. 2 /\ dnsState' # 0
    BY <1>9
  <2>2. sntpRunning' = FALSE
    BY <1>2, <1>3, <1>9 DEF TimeTypeOK
  <2> QED BY <1>6, <1>9, <2>1, <2>2
<1> QED BY <1>7, <1>8, <1>9 DEF DnsNext

(* SNTP answers in the status LAN_WAIT only, with nobody inside.           *)
LEMMA SntpNextStep == ASSUME TimeInv, SntpNext PROVE TimeInv'
<1>1. /\ InLoop /\ sntpRunning
      /\ UNCHANGED <<timeStatus, lanVars, bLinkyDateUpdate, timer, wifiVars>>
  BY DEF SntpNext
<1>2. TimeTypeOK /\ OneDate /\ ~ Inside("lan") /\ ~ Inside("main")
  BY <1>1, WhoRuns DEF TimeInv
<1>3. /\ timeStatus = "LAN_WAIT" /\ timeIsUpdated = 1 /\ dnsState = 0
      /\ ~ bWifiTimeoutOn /\ ~ timer /\ ~ DateThere
  BY <1>1, <1>2 DEF TimeInv, NobodyInside
<1>4. UNCHANGED <<wifiRest, requestWaiting, bWifiTimeoutOn, calling, dnsState, sntpRunning, linkOff>>
  BY <1>1 DEF wifiVars, board, wifiRest, lanVars
<1>5. ~ DateThere' /\ OneDate' /\ WifiTypeOK'
  BY <1>2, <1>3, <1>4, MessagesStay DEF TimeTypeOK, WifiTypeOK
<1>6. OnFor("IDLE")' /\ dnsState' \in 0 .. 2 /\ "lan" \in Task
  BY <1>1, <1>3, <1>4 DEF OnFor, Task
<1>7. CASE timeIsUpdated' = Told /\ Calls("lan", "stop", "sntp")
  <2>1. timeIsUpdated' = 2
    BY <1>3, <1>7 DEF Told
  <2> QED BY <1>1, <1>2, <1>3, <1>4, <1>5, <1>6, <1>7, <2>1, Enters
<1>8. CASE Calls("lan", "retry", "sntp") /\ UNCHANGED timeIsUpdated
  BY <1>1, <1>2, <1>3, <1>4, <1>5, <1>6, <1>8, Enters
<1> QED BY <1>7, <1>8 DEF SntpNext

(* The Wi-Fi module has not answered, and was waited for.                  *)
LEMMA DateTimeoutStep == ASSUME TimeInv, WifiStep(DateTimeout) PROVE TimeInv'
<1>1. /\ InLoop /\ DateTimeout
      /\ UNCHANGED <<timeStatus, lanVars, bLinkyDateUpdate, timer, timeIsUpdated>>
  BY DEF WifiStep
<1>2. TimeTypeOK /\ WifiTypeOK /\ OneDate
  BY DEF TimeInv, TimeTypeOK
<1>3. /\ WifiTypeOK' /\ OneDate' /\ bWifiTimeoutOn /\ ~ bWifiTimeoutOn' /\ ~ requestWaiting'
      /\ calling = "none" /\ calling' = "retry" /\ (DateThere' <=> DateThere)
  BY <1>1, <1>2, TimeoutStep
<1>4. Calls("lan", "retry", "")
  BY <1>3 DEF WifiStep
<1>5. ~ Inside("lan") /\ ~ Inside("main")
  BY <1>1, <1>3, WhoRuns
<1>6. /\ timeStatus = "WIFI_WAIT" /\ timeIsUpdated = 1 /\ dnsState = 0 /\ ~ sntpRunning /\ ~ timer
  BY <1>3, <1>5 DEF TimeInv, NobodyInside
<1>7. UNCHANGED <<dnsState, sntpRunning, linkOff>>
  BY <1>1 DEF lanVars
<1>8. OnFor("IDLE")' /\ dnsState' \in 0 .. 2 /\ timeIsUpdated' \in 0 .. 2 /\ "lan" \in Task
  BY <1>1, <1>2, <1>3, <1>6, <1>7 DEF OnFor, Task, TimeTypeOK
<1> QED BY <1>1, <1>3, <1>4, <1>5, <1>6, <1>7, <1>8, Enters

(* The other steps of wifiNext; the date may come while the next round is  *)
(* still to begin.                                                         *)
LEMMA MachineStep == ASSUME TimeInv, WifiStep(Machine) PROVE TimeInv'
<1>1. /\ InLoop /\ Machine
      /\ UNCHANGED <<timeStatus, lanVars, bLinkyDateUpdate, timer, timeIsUpdated>>
  BY DEF WifiStep
<1>2. TimeTypeOK /\ WifiTypeOK /\ OneDate
  BY DEF TimeInv, TimeTypeOK
<1>3. WifiTypeOK' /\ OneDate' /\ calling = "none" /\ (Quietly \/ DateReceived)
  BY <1>1, <1>2, BoardSteps
<1>4. /\ ~ Inside("lan")
      /\ Inside("main") => /\ ~ requestWaiting /\ ~ DateThere
  BY <1>1, WhoRuns
<1>5. UNCHANGED <<dnsState, sntpRunning, linkOff>>
  BY <1>1 DEF lanVars
<1>6. linkOff' \in BOOLEAN /\ timeIsUpdated' \in 0 .. 2 /\ dnsState' \in 0 .. 2 /\ "lan" \in Task
  BY <1>1, <1>2, <1>5 DEF TimeTypeOK, Task
<1>7. CASE Quietly
  <2>1. UNCHANGED pc
    BY <1>3, <1>7 DEF Quietly, WifiStep
  <2> QED BY <1>1, <1>3, <1>4, <1>5, <1>6, <1>7, <2>1, StepElsewhere DEF Quietly
<1>8. CASE DateReceived
  <2>1. /\ DateThere /\ ~ requestWaiting' /\ ~ bWifiTimeoutOn' /\ ~ DateThere'
        /\ calling' \in {"reset", "retry"}
    BY <1>8 DEF DateReceived
  <2>2. ~ Inside("main")
    BY <1>4, <2>1
  <2>3. /\ timeStatus \in {"WIFI_WAIT", "DELAY"} /\ timeIsUpdated = 1 /\ dnsState = 0
        /\ ~ sntpRunning /\ (timer <=> timeStatus = "DELAY")
    BY <1>4, <2>1, <2>2 DEF TimeInv, NobodyInside
  <2>4. OnFor(IF timeStatus = "DELAY" THEN "DELAY" ELSE "IDLE")'
    BY <1>1, <1>5, <2>1, <2>3 DEF OnFor
  <2>5. CASE calling' = "retry"
    <3>1. Calls("lan", "retry", "")
      BY <2>5 DEF WifiStep
    <3> QED BY <1>1, <1>3, <1>4, <1>5, <1>6, <2>1, <2>2, <2>3, <2>4, <2>5, <3>1, Enters
  <2>6. CASE calling' = "reset"
    <3>1. Calls("lan", "stop", "wifi")
      BY <2>6 DEF WifiStep
    <3> QED BY <1>1, <1>3, <1>4, <1>5, <1>6, <2>1, <2>2, <2>3, <2>4, <2>6, <3>1, Enters
  <2> QED BY <2>1, <2>5, <2>6
<1> QED BY <1>3, <1>7, <1>8

(* The date is on its way as a message, or in a call.                      *)
LEMMA OnItsWay == DateOnItsWay <=> DateThere \/ calling # "none"
BY DEF DateOnItsWay, DateThere, Asked, Sent, Holds

(* The delay ends while the task of the network is not inside.             *)
LEMMA ExpiredStep == ASSUME TimeInv, Expired PROVE TimeInv'
<1>1. /\ pc["main"].at = "loop" /\ timer /\ ~ DateThere /\ calling = "none"
      /\ Calls("main", "retry", "")
      /\ UNCHANGED <<timeStatus, devices, timeIsUpdated, calling, wifiRest>>
  BY OnItsWay DEF Expired, MainLoop
<1>2. TimeTypeOK /\ OneDate /\ ~ Inside("main") /\ ~ Inside("lan")
  BY <1>1 DEF TimeInv, CalledByWifi, Inside
<1>3. /\ timeStatus = "DELAY" /\ timeIsUpdated = 1 /\ dnsState = 0 /\ ~ sntpRunning /\ ~ bWifiTimeoutOn
  BY <1>1, <1>2 DEF TimeInv, NobodyInside
<1>4. ~ DateThere' /\ OneDate' /\ WifiTypeOK'
  BY <1>1, <1>2, MessagesStay DEF TimeTypeOK, WifiTypeOK, devices
<1>5. /\ UNCHANGED <<dnsState, sntpRunning, linkOff, bLinkyDateUpdate, timer, bWifiTimeoutOn>>
  BY <1>1 DEF devices, lanVars
<1>6. OnFor("DELAY")' /\ dnsState' \in 0 .. 2 /\ timeIsUpdated' \in 0 .. 2 /\ "main" \in Task
  BY <1>1, <1>2, <1>3, <1>5 DEF OnFor, Task, TimeTypeOK
<1> QED BY <1>1, <1>2, <1>3, <1>4, <1>5, <1>6, Enters

(* An update is asked for when none is under way.                          *)
LEMMA DailyStep == ASSUME TimeInv, Daily PROVE TimeInv'
<1>1. /\ timeIsUpdated = 0 /\ pc["lan"] = Outside /\ ~ bWifiTimeoutOn /\ ~ DateThere
      /\ pc["main"].at = "loop" /\ timeIsUpdated' = 1
      /\ IF timeStatus = "IDLE" THEN Calls("main", "switch", "") ELSE UNCHANGED pc
      /\ UNCHANGED <<timeStatus, devices, calling, wifiRest>>
  BY OnItsWay DEF Daily, Settled, UpdateRequest, MainLoop
<1>2. TimeTypeOK /\ OneDate /\ ~ Inside("main") /\ ~ Inside("lan")
  BY <1>1, OutsideLoops DEF TimeInv, Inside
<1>3. timeStatus = "IDLE" /\ dnsState = 0 /\ ~ sntpRunning /\ ~ timer
  <2>1. timeIsUpdated # 1
    BY DEF Daily
  <2> QED BY <1>2, <2>1 DEF TimeInv, NobodyInside
<1>4. ~ DateThere' /\ OneDate' /\ WifiTypeOK'
  BY <1>1, <1>2, MessagesStay DEF TimeTypeOK, WifiTypeOK, devices
<1>5. /\ UNCHANGED <<dnsState, sntpRunning, linkOff, bLinkyDateUpdate, timer, bWifiTimeoutOn>>
  BY <1>1 DEF devices, lanVars
<1>6. /\ OnFor("IDLE")' /\ "main" \in Task
      /\ dnsState' \in 0 .. 2 /\ timeIsUpdated' \in 0 .. 2
  <2>1. dnsState' = 0 /\ ~ bWifiTimeoutOn' /\ ~ timer' /\ timeIsUpdated' = 1
    BY <1>1, <1>3, <1>5
  <2> QED BY <2>1 DEF OnFor, Task
<1>7. Calls("main", "switch", "")
  BY <1>1, <1>3
<1> QED BY <1>1, <1>2, <1>3, <1>4, <1>5, <1>6, <1>7, Enters

-----------------------------------------------------------------------------
(* At the start nothing is asked for.                                      *)
LEMMA Initially == ASSUME TimeInit PROVE TimeInv
<1>1. /\ wifiState = "SyncSend" /\ rxBuff = <<>> /\ toEsp = <<>> /\ requestWaiting = FALSE
      /\ requestActive = FALSE /\ bWifiTimeoutOn = FALSE /\ calling = "none"
      /\ esp = "dead" /\ exchange = "req" /\ skewed = FALSE /\ losses = 0 /\ steady = FALSE
      /\ timeStatus = "IDLE" /\ dnsState = 0 /\ sntpRunning = FALSE /\ linkOff \in BOOLEAN
      /\ bLinkyDateUpdate = FALSE /\ timer = FALSE /\ timeIsUpdated = 0
  BY DEF TimeInit, WifiInit
<1>2. WifiTypeOK
  <2>1. <<>> \in Seq(Msg) /\ 0 \in 0 .. Losses
    OBVIOUS
  <2> QED BY <1>1, <2>1 DEF WifiTypeOK
<1>3. /\ pc \in [Task -> Place] /\ \A t \in Task : pc[t] = Outside /\ pc[t].at = "loop"
  BY OutsideLoops DEF TimeInit
<1>4. TimeTypeOK
  <2>1. dnsState \in 0 .. 2 /\ timeIsUpdated \in 0 .. 2 /\ timeStatus \in Status
    BY <1>1 DEF Status
  <2> QED BY <1>1, <1>2, <1>3, <2>1 DEF TimeTypeOK
<1>5. ~ Asked /\ ~ Sent /\ Once(toEsp, "askDate")
  BY <1>1, EmptyIs DEF Asked, Sent
<1>6. OneDate /\ ~ DateThere
  BY <1>1, <1>5 DEF OneDate, DateThere
<1>7. ~ Inside("main") /\ ~ Inside("lan") /\ Places("main") /\ Places("lan")
  BY <1>3 DEF Inside, Places, Task
<1>8. NobodyInside /\ NeverTogether /\ CalledByWifi /\ LateDate
  BY <1>1, <1>3, <1>6, <1>7 DEF NobodyInside, NeverTogether, CalledByWifi, LateDate, Task
<1> QED BY <1>4, <1>6, <1>7, <1>8 DEF TimeInv

(* When nothing changes.                                                   *)
LEMMA Stuttering == ASSUME TimeInv, UNCHANGED vars PROVE TimeInv'
<1>1. UNCHANGED <<timeVars, wifiVars>>
  BY DEF vars
<1>2. UNCHANGED <<wifiRest, requestWaiting, bWifiTimeoutOn, calling>>
  BY <1>1 DEF wifiVars, board, wifiRest
<1>3. TimeTypeOK /\ OneDate
  BY DEF TimeInv
<1>4. (DateThere' <=> DateThere) /\ OneDate' /\ WifiTypeOK'
  BY <1>2, <1>3, MessagesStay DEF TimeTypeOK, WifiTypeOK
<1>5. linkOff' \in BOOLEAN /\ timeIsUpdated' \in 0 .. 2
  BY <1>1, <1>3 DEF TimeTypeOK, timeVars, lanVars
<1> QED BY <1>1, <1>2, <1>4, <1>5, StepElsewhere DEF timeVars, lanVars

(* Whoever runs, whatever is lost: the invariant of the update of the date *)
(* (timeUpdate.c), with the Wi-Fi link of wifi.c.                          *)
THEOREM Invariant == Spec => []TimeInv
<1>1. TimeInit => TimeInv
  BY Initially
<1>2. TimeInv /\ [Next]_vars => TimeInv'
  <2> SUFFICES ASSUME TimeInv, [Next]_vars PROVE TimeInv'
    OBVIOUS
  <2>1. ASSUME NEW t \in Task, TimeNext(t) PROVE TimeInv'
    BY <2>1, RetryStep, SwitchStep, StoreStep, StopStep, ToIdleStep, DoneStep DEF TimeNext
  <2>2. CASE Link
    BY <2>2, LinkStep
  <2>3. CASE DnsNext
    BY <2>3, DnsNextStep
  <2>4. CASE SntpNext
    BY <2>4, SntpNextStep
  <2>5. CASE WifiStep(DateTimeout)
    BY <2>5, DateTimeoutStep
  <2>6. CASE WifiStep(Machine)
    BY <2>6, MachineStep
  <2>7. CASE OverThere
    BY <2>7, OverThereStep
  <2>8. CASE Expired
    BY <2>8, ExpiredStep
  <2>9. CASE HistoStart
    BY <2>9, HistoStartStep
  <2>10. CASE Daily
    BY <2>10, DailyStep
  <2>11. CASE UNCHANGED vars
    BY <2>11, Stuttering
  <2> QED BY <2>1, <2>2, <2>3, <2>4, <2>5, <2>6, <2>7, <2>8, <2>9, <2>10, <2>11 DEF Next
<1> QED BY <1>1, <1>2, PTL DEF Spec

(* The types of both automata, for any number of losses.                   *)
THEOREM TypeCorrect == Spec => []TimeTypeOK
<1>1. TimeInv => TimeTypeOK
  BY DEF TimeInv
<1> QED BY <1>1, Invariant, PTL

(* timeNext has no lock, and its two callers are never in it together.     *)
THEOREM CallersExclude == Spec => []NeverTogether
<1>1. TimeInv => NeverTogether
  BY DEF TimeInv
<1> QED BY <1>1, Invariant, PTL

(* Whoever timeNext waits for will call it.                                *)
THEOREM WillBeCalled == Spec => []SomebodyWillCall
<1>1. TimeInv => SomebodyWillCall
  <2> SUFFICES ASSUME TimeInv, AllOut PROVE SomebodyWillCall
    BY DEF SomebodyWillCall
  <2>1. ~ Inside("main") /\ ~ Inside("lan")
    BY OutsideLoops DEF AllOut, Inside, Task
  <2>2. /\ timeStatus \in Waiting \cup {"IDLE"}
        /\ bWifiTimeoutOn <=> timeStatus = "WIFI_WAIT"
        /\ timer <=> timeStatus = "DELAY"
        /\ (dnsState # 0 \/ sntpRunning) <=> timeStatus = "LAN_WAIT"
    BY <2>1 DEF TimeInv, NobodyInside
  <2> QED BY <2>2 DEF SomebodyWillCall, Waiting
<1> QED BY <1>1, Invariant, PTL

(* A date that the history waits for is being asked for.                   *)
THEOREM StillAsked == Spec => []RequestKept
<1>1. TimeInv => RequestKept
  <2> SUFFICES ASSUME TimeInv, AllOut, timeIsUpdated = 1 PROVE RequestKept
    BY DEF RequestKept
  <2>1. ~ Inside("main") /\ ~ Inside("lan")
    BY OutsideLoops DEF AllOut, Inside, Task
  <2>2. timeStatus # "IDLE"
    BY <2>1 DEF TimeInv, NobodyInside
  <2> QED BY <2>2 DEF RequestKept
<1> QED BY <1>1, Invariant, PTL
-----------------------------------------------------------------------------
(***************************************************************************)
(* Whose answer it is, and why nothing is missed while nothing goes wrong. *)
(***************************************************************************)

NoneOld(s)  == \A i \in DOMAIN s : ~ s[i].old
OnlySync(s) == s = <<>> \/ (Len(s) = 1 /\ Head(s).id = "sync")

(* The module does not wait for the rest of what is in the buffer.         *)
Heeded(s) ==
  s # <<>> /\ \/ Head(s).cut \in {"no", "part"} \/ Len(s) > 1
              \/ Head(s).cut # "data" /\ HasData(Head(s))

(* While its buffer is not garbled, the module begins an exchange with an  *)
(* empty buffer, and nothing on its way to the board but the end of the    *)
(* synchronization; once there is something to read, nothing is left that  *)
(* the board could answer.                                                 *)
LinkInv ==
  /\ esp # "busy" /\ (esp \in {"dead", "stuck"} => toEsp = <<>>)
  /\ esp \in {"dead", "sync", "synced", "stuck"} => ~ skewed
  /\ ~ skewed /\ esp \in {"idle", "synced"} =>
       toEsp = <<>> /\ OnlySync(rxBuff) /\ wifiState # "SyncSend"
  /\ ~ skewed /\ esp \in {"idle", "synced", "wait"} => NoneOld(rxBuff)
  /\ ~ skewed /\ esp \in {"sync", "wait"} /\ toEsp # <<>> =>
       /\ rxBuff = <<>>
       /\ Len(toEsp) = 1 \/ Head(toEsp).cut # "no"
       /\ esp = "sync" \/ Heeded(toEsp) => wifiState # "SyncSend"
       /\ esp = "wait" => ~ Head(toEsp).old

(* Either nothing is under way, or one request, or one answer, all whole.  *)
One(s) == Len(s) = 1 /\ Head(s).cut = "no" /\ Head(s).id # "sync"

SteadyInv ==
  steady =>
    /\ ~ skewed /\ esp \in {"idle", "wait"}
    /\ esp = "idle" => rxBuff = <<>> /\ toEsp = <<>> /\ wifiState \in {"RxHdr", "Tx"}
    /\ esp = "wait" =>
         \/ toEsp = <<>> /\ One(rxBuff) /\ wifiState \in {"RxHdr", "RxData", "Tx"}
         \/ rxBuff = <<>> /\ One(toEsp) /\ wifiState \in {"RxHdr", "Tx"}

linkVars == <<wifiState, rxBuff, toEsp, esp, skewed, steady>>

-----------------------------------------------------------------------------
(* The first message of a buffer, and of a longer one.                     *)
LEMMA Fronts ==
  ASSUME NEW s \in Seq(Msg), NEW m \in Msg
  PROVE  /\ s # <<>> => Head(s) = s[1] /\ 1 \in DOMAIN s /\ Len(s) >= 1
         /\ Len(s) = 1 => s # <<>> /\ Tail(s) = <<>>
         /\ Append(s, m) # <<>> /\ Len(Append(s, m)) = Len(s) + 1
         /\ s # <<>> => Head(Append(s, m)) = Head(s)
         /\ s = <<>> => Head(Append(s, m)) = m /\ Len(Append(s, m)) = 1
         /\ NoneOld(s) /\ ~ m.old => NoneOld(Append(s, m))
         /\ Len(s) \in Nat /\ (Len(s) = 0 <=> s = <<>>)
<1>1. s # <<>> => Head(s) = s[1] /\ 1 \in DOMAIN s /\ Len(s) >= 1 OBVIOUS
<1>5. Len(s) \in Nat /\ (Len(s) = 0 <=> s = <<>>) OBVIOUS
<1>2. ASSUME Len(s) = 1 PROVE s # <<>> /\ Tail(s) = <<>>
  <2>1. s # <<>> BY <1>2, <1>5
  <2>2. Tail(s) \in Seq(Msg) /\ Len(Tail(s)) = 0 BY <1>2, <2>1
  <2>3. \A t \in Seq(Msg) : Len(t) = 0 => t = <<>> OBVIOUS
  <2> QED BY <2>1, <2>2, <2>3
<1>3. /\ Append(s, m) # <<>> /\ Len(Append(s, m)) = Len(s) + 1
      /\ s # <<>> => Head(Append(s, m)) = Head(s)
      /\ s = <<>> => Head(Append(s, m)) = m /\ Len(Append(s, m)) = 1
  OBVIOUS
<1>4. ASSUME NoneOld(s), ~ m.old PROVE NoneOld(Append(s, m))
  <2> DEFINE n == Append(s, m)
  <2>1. /\ DOMAIN n = 1 .. Len(s) + 1 /\ n[Len(s) + 1] = m /\ Len(s) \in Nat
        /\ \A i \in DOMAIN s : n[i] = s[i]
        /\ DOMAIN s = 1 .. Len(s)
    OBVIOUS
  <2>2. \A i \in DOMAIN n : i \in DOMAIN s \/ i = Len(s) + 1 BY <2>1
  <2> HIDE DEF n
  <2>3. NoneOld(n) BY <1>4, <2>1, <2>2 DEF NoneOld
  <2> QED BY <2>3 DEF n
<1> QED BY <1>1, <1>2, <1>3, <1>4, <1>5

(* An empty buffer holds nothing old.                                      *)
LEMMA EmptyIsNew == Old(<<>>) = <<>> /\ NoneOld(<<>>) /\ OnlySync(<<>>)
<1>1. DOMAIN <<>> = {} OBVIOUS
<1>2. NoneOld(<<>>) /\ OnlySync(<<>>) BY <1>1 DEF NoneOld, OnlySync
<1>3. <<>> \in Seq(Msg) OBVIOUS
<1>4. Old(<<>>) \in Seq(Msg) /\ DOMAIN Old(<<>>) = {} BY <1>1, <1>3, Ages
<1>5. \A t \in Seq(Msg) : DOMAIN t = {} => t = <<>> OBVIOUS
<1> QED BY <1>2, <1>4, <1>5

(* What is damaged is lost, or is the last and no longer whole.            *)
LEMMA DamagedIs ==
  ASSUME NEW s \in Seq(Msg), s # <<>>, NEW d \in Damages(s)
  PROVE  /\ d \in Seq(Msg) /\ Len(d) <= Len(s) /\ Len(d) >= Len(s) - 1
         /\ NoneOld(s) => NoneOld(d)
         /\ d # <<>> => Head(d).id = Head(s).id /\ Head(d).old = Head(s).old
         /\ d # <<>> /\ Len(s) > 1 => Head(d) = Head(s)
         /\ d # <<>> /\ Len(s) = 1 => Head(s).cut = "no" /\ Head(d).cut # "no" /\ Len(d) = 1
<1> DEFINE f == Front(s)
           m == Last(s)
           Cut(c) == [m EXCEPT !.cut = c]
<1>1. /\ Len(s) \in Nat /\ Len(s) >= 1 /\ DOMAIN s = 1 .. Len(s) /\ m = s[Len(s)]
      /\ \A i \in DOMAIN s : s[i] \in Msg
  BY DEF Last
<1>2. m \in Msg BY <1>1
<1>3. \A c \in Cuts(m) :
        Cut(c) \in Msg /\ Cut(c).id = m.id /\ Cut(c).old = m.old /\ Cut(c).cut = c
  BY <1>2 DEF Msg, Cuts, HasData
<1>4. f = SubSeq(s, 1, Len(s) - 1) BY DEF Front
<1>5. f \in Seq(Msg) /\ Len(f) = Len(s) - 1 /\ \A i \in 1 .. Len(s) - 1 : f[i] = s[i]
  <2> HIDE DEF f, m, Cut
  <2> QED BY <1>1, <1>4
<1>6. d = f \/ (m.cut = "no" /\ \E c \in Cuts(m) : d = Append(f, Cut(c))) BY DEF Damages
<1>c. \A c \in Cuts(m) : c # "no" BY DEF Cuts
<1>7. Head(s) = s[1] OBVIOUS
<1> HIDE DEF f, m, Cut
<1>8. DOMAIN f = 1 .. Len(s) - 1 BY <1>5
<1>9. f # <<>> => Head(f) = Head(s) /\ Len(s) > 1 BY <1>1, <1>5, <1>7, Fronts, <1>2
<1>10. NoneOld(s) => NoneOld(f) BY <1>1, <1>5, <1>8 DEF NoneOld
<1>11. CASE d = f BY <1>1, <1>5, <1>9, <1>10, <1>11
<1>12. ASSUME NEW c \in Cuts(m), d = Append(f, Cut(c)), m.cut = "no"
       PROVE
         /\ d \in Seq(Msg) /\ Len(d) = Len(s)
         /\ NoneOld(s) => NoneOld(d)
         /\ Head(d).id = Head(s).id /\ Head(d).old = Head(s).old
         /\ Len(s) > 1 => Head(d) = Head(s)
         /\ Len(s) = 1 => Head(s).cut = "no" /\ Head(d).cut # "no"
  <2> DEFINE x == Cut(c)
  <2>1. x \in Msg /\ x.id = m.id /\ x.old = m.old /\ x.cut # "no" BY <1>3, <1>c
  <2> HIDE DEF x
  <2>2. d = Append(f, x) BY <1>12 DEF x
  <2>3. d \in Seq(Msg) /\ Len(d) = Len(s)
    <3>1. d \in Seq(Msg) /\ Len(d) = Len(f) + 1 BY <1>5, <2>1, <2>2
    <3> QED BY <1>1, <1>5, <3>1
  <2>4. NoneOld(s) => NoneOld(d)
    <3>1. NoneOld(s) => ~ x.old BY <1>1, <2>1 DEF NoneOld
    <3> QED BY <1>5, <1>10, <2>1, <2>2, <3>1, Fronts
  <2>5. CASE f = <<>>
    <3>1. Len(s) = 1 /\ m = Head(s) /\ Head(d) = x
      BY <1>1, <1>5, <1>7, <2>1, <2>2, <2>5, Fronts
    <3> QED BY <1>12, <2>1, <2>3, <2>4, <3>1
  <2>6. CASE f # <<>>
    <3>1. Len(s) > 1 /\ Head(d) = Head(s) BY <1>5, <1>9, <2>1, <2>2, <2>6, Fronts
    <3> QED BY <2>3, <2>4, <3>1
  <2> QED BY <2>5, <2>6
<1>13. CASE d # f
  <2>1. PICK c \in Cuts(m) : m.cut = "no" /\ d = Append(f, Cut(c)) BY <1>6, <1>13
  <2>2. /\ d \in Seq(Msg) /\ Len(d) = Len(s)
        /\ NoneOld(s) => NoneOld(d)
        /\ Head(d).id = Head(s).id /\ Head(d).old = Head(s).old
        /\ Len(s) > 1 => Head(d) = Head(s)
        /\ Len(s) = 1 => Head(s).cut = "no" /\ Head(d).cut # "no"
    BY <1>12, <2>1, Zenon
  <2>3. Len(d) <= Len(s) /\ Len(d) >= Len(s) - 1 BY <1>1, <2>2
  <2> QED BY <2>2, <2>3, Zenon
<1> QED BY <1>11, <1>13

-----------------------------------------------------------------------------
(* What wifiNext does to the link.                                         *)
Stays == /\ UNCHANGED <<rxBuff, toEsp>>
         /\ \/ wifiState = "RxHdr"    /\ wifiState' = "RxData" /\ HeaderIn(rxBuff)
            \/ wifiState = "Tx"       /\ wifiState' = "RxHdr"
            \/ wifiState = "SyncTx"   /\ wifiState' = "SyncWait"
            \/ wifiState = "SyncWait" /\ wifiState' = "RxHdr"

Lost  == /\ UNCHANGED <<rxBuff, toEsp>> /\ wifiState' = "SyncSend"
         /\ \/ wifiState \in {"RxHdr", "SyncWait"} /\ ~ HeaderIn(rxBuff) /\ Silent
            \/ wifiState = "RxHdr" /\ HeaderIn(rxBuff) /\ Head(rxBuff).cut = "magic"

Drops == /\ rxBuff' = <<>> /\ UNCHANGED toEsp /\ wifiState = "RxData" /\ wifiState' = "RxHdr"
         /\ ~ Complete(rxBuff) \/ Head(rxBuff).id = "sync" \/ ~ steady'

Syncs == /\ wifiState = "SyncSend" /\ wifiState' = "SyncTx" /\ rxBuff' = <<>>
         /\ toEsp' = Arrived(New("sync"))

Replied == /\ wifiState = "RxData" /\ wifiState' = "Tx"
           /\ rxBuff # <<>> /\ Head(rxBuff).id # "sync" /\ rxBuff' = <<>>
           /\ \E m \in Msg : /\ toEsp' = Arrived(m) /\ m.old = Head(rxBuff).old
                             /\ m.cut = "no" /\ m.id # "sync"

(* Every step of wifiNext is one of these.                                 *)
LEMMA BoardMoves ==
  ASSUME WifiTypeOK, Machine
  PROVE  /\ Stays \/ Lost \/ Drops \/ Syncs \/ Replied
         /\ UNCHANGED <<esp, skewed>> /\ steady' \in {steady, FALSE}
<1> USE DEF module
<1>a. rxBuff \in Seq(Msg) BY DEF WifiTypeOK
<1>1. CASE RxHdr
  BY <1>1 DEF RxHdr, Stays, Lost
<1>2. CASE TxEnd \/ SyncTx \/ SyncEnd
  BY <1>2 DEF TxEnd, SyncTx, SyncEnd, Stays, Drops
<1>3. CASE SyncTimeout
  BY <1>3 DEF SyncTimeout, Stays, Lost
<1>4. CASE SyncSend
  BY <1>4 DEF SyncSend, Syncs
<1>5. CASE RxDataTimeout
  BY <1>5 DEF RxDataTimeout, Stays, Drops
<1>6. CASE RxSync
  BY <1>6 DEF RxSync, Received, Stays, Drops
<1>7. ASSUME NEW id \in Ids, NEW k \in Ids, Received(k), k # "sync", id # "sync", Transmit(id),
             UNCHANGED module, UNCHANGED steady
      PROVE  Replied /\ UNCHANGED <<esp, skewed>> /\ steady' \in {steady, FALSE}
  <2> DEFINE m == [New(id) EXCEPT !.old = Head(rxBuff).old]
  <2>1. rxBuff # <<>> /\ wifiState = "RxData" /\ Head(rxBuff).id # "sync"
    BY <1>7 DEF Received, Complete
  <2>2. m \in Msg /\ m.id = id /\ m.cut = "no" /\ m.old = Head(rxBuff).old
    BY <1>a, <2>1, AnswerIs
  <2>3. rxBuff' = <<>> /\ wifiState' = "Tx" /\ toEsp' = Arrived(m) BY <1>7 DEF Transmit
  <2> HIDE DEF m
  <2>4. Replied BY <1>7, <2>1, <2>2, <2>3 DEF Replied
  <2> QED BY <1>7, <2>1, <2>3, <2>4
<1>8. CASE RxReq
  <2>1. PICK id \in {"askDate", "nack", "data"} : Transmit(id) BY <1>8 DEF RxReq
  <2> QED BY <1>7, <1>8, <2>1, NamesDiffer DEF RxReq
<1>9. CASE RxDate
  BY <1>7, <1>9, NamesDiffer DEF RxDate
<1>10. CASE RxOther
  <2>1. PICK k \in Requests \cup {"date"}, id \in {"data", "nack"} : Received(k) /\ Transmit(id)
    BY <1>10 DEF RxOther
  <2>2. k # "sync" OBVIOUS
  <2> QED BY <1>7, <1>10, <2>1, <2>2, NamesDiffer DEF RxOther
<1> QED BY <1>1, <1>2, <1>3, <1>4, <1>5, <1>6, <1>8, <1>9, <1>10 DEF Machine

(* What the module heeds when its buffer is not garbled.                   *)
LEMMA HeedIs ==
  ASSUME toEsp \in Seq(Msg), esp = "wait", ~ skewed
  PROVE  /\ Heeds <=> Heeded(toEsp)
         /\ Readable \/ Garbled \/ TooLong <=> Heeds
<1>1. CASE toEsp = <<>>
  BY <1>1 DEF Heeds, Heeded, Readable, Garbled, TooLong, Complete, HeaderIn
<1>2. CASE toEsp # <<>>
  <2> DEFINE c == Head(toEsp).cut
  <2>1. c \in {"no", "magic", "size", "part", "data"}
    <3>1. Head(toEsp) \in Msg BY <1>2, Leaves
    <3> QED BY <3>1 DEF Msg
  <2> QED BY <1>2, <2>1 DEF Heeds, Heeded, Readable, Garbled, TooLong, Complete, HeaderIn
<1> QED BY <1>1, <1>2 DEF Heeds

(* wifiNext keeps it: what it transmits answers what the module waits for. *)
LEMMA LinkBoard ==
  ASSUME WifiTypeOK, LinkInv, Machine
  PROVE  LinkInv'
<1>a. rxBuff \in Seq(Msg) /\ toEsp \in Seq(Msg) BY DEF WifiTypeOK
<1>b. UNCHANGED <<esp, skewed>> /\ (Stays \/ Lost \/ Drops \/ Syncs \/ Replied) BY BoardMoves
<1>1. CASE Stays
  BY <1>1, <1>b DEF Stays, LinkInv, Heeded, NoneOld, OnlySync
<1>2. CASE Lost
  <2>1. ASSUME ~ skewed, esp \in {"idle", "synced"} PROVE FALSE
    <3>1. OnlySync(rxBuff) BY <2>1 DEF LinkInv
    <3>2. ~ (HeaderIn(rxBuff) /\ Head(rxBuff).cut = "magic")
      <4>1. \A n : n = 1 => ~ (n > 1) OBVIOUS
      <4>2. \A m : m.id = "sync" => ~ HasData(m) BY DEF HasData
      <4> QED BY <3>1, <4>1, <4>2, Zenon DEF HeaderIn, OnlySync
    <3>3. ~ Silent BY <2>1 DEF Silent
    <3> QED BY <1>2, <3>2, <3>3 DEF Lost
  <2>2. ASSUME ~ skewed, esp \in {"sync", "wait"}, toEsp # <<>> PROVE esp = "wait" /\ ~ Heeded(toEsp)
    <3>1. rxBuff = <<>> BY <2>2 DEF LinkInv
    <3>2. Silent BY <1>2, <3>1 DEF Lost, HeaderIn
    <3>3. esp = "wait" /\ ~ Heeds BY <2>2, <3>2 DEF Silent
    <3> QED BY <1>a, <2>2, <3>3, HeedIs
  <2>3. UNCHANGED <<rxBuff, toEsp, esp, skewed>> BY <1>2, <1>b DEF Lost
  <2> QED BY <2>1, <2>2, <2>3 DEF LinkInv, Heeded, NoneOld, OnlySync
<1>3. CASE Drops
  BY <1>3, <1>b, EmptyIsNew DEF Drops, LinkInv, Heeded
<1>4. CASE Syncs
  <2> DEFINE m == New("sync")
  <2>1. m \in Msg /\ ~ m.old /\ m.cut = "no" BY NamesDiffer, NewIs DEF New
  <2>2. toEsp' = Arrived(m) /\ rxBuff' = <<>> /\ wifiState = "SyncSend" /\ wifiState' = "SyncTx"
    BY <1>4 DEF Syncs
  <2> HIDE DEF m
  <2>3. CASE esp \in {"dead", "stuck"}
    <3>1. toEsp' = <<>> BY <2>2, <2>3 DEF Arrived
    <3> QED BY <1>b, <2>2, <2>3, <3>1, EmptyIsNew DEF LinkInv
  <2>4. CASE esp \notin {"dead", "stuck"} /\ skewed
    BY <1>b, <2>2, <2>4, EmptyIsNew DEF LinkInv
  <2>5. CASE esp \notin {"dead", "stuck"} /\ ~ skewed
    <3>1. toEsp' = Append(toEsp, m) BY <2>2, <2>5 DEF Arrived
    <3>2. esp \in {"sync", "wait"} BY <2>2, <2>5 DEF LinkInv, WifiTypeOK
    <3>3. CASE toEsp = <<>>
      <4>1. Head(toEsp') = m /\ Len(toEsp') = 1 BY <1>a, <2>1, <3>1, <3>3, Fronts
      <4> QED BY <1>b, <2>1, <2>2, <2>5, <3>2, <4>1, EmptyIsNew DEF LinkInv
    <3>4. CASE toEsp # <<>>
      <4>1. Head(toEsp') = Head(toEsp) BY <1>a, <2>1, <3>1, <3>4, Fronts
      <4>2. esp = "wait" /\ Head(toEsp).cut # "no" BY <2>2, <2>5, <3>2, <3>4 DEF LinkInv, Heeded
      <4>3. esp = "wait" => ~ Head(toEsp).old BY <2>5, <3>4 DEF LinkInv
      <4> QED BY <1>b, <2>2, <2>5, <3>2, <4>1, <4>2, <4>3, EmptyIsNew DEF LinkInv
    <3> QED BY <3>3, <3>4
  <2> QED BY <2>3, <2>4, <2>5
<1>5. CASE Replied
  <2>1. PICK m \in Msg : /\ toEsp' = Arrived(m) /\ m.old = Head(rxBuff).old
                         /\ m.cut = "no" /\ m.id # "sync"
    BY <1>5 DEF Replied
  <2>2. rxBuff # <<>> /\ Head(rxBuff).id # "sync" /\ rxBuff' = <<>> /\ wifiState' = "Tx"
    BY <1>5 DEF Replied
  <2>3. CASE esp \in {"dead", "stuck"}
    <3>1. toEsp' = <<>> BY <2>1, <2>3 DEF Arrived
    <3> QED BY <1>b, <2>2, <2>3, <3>1, EmptyIsNew DEF LinkInv
  <2>4. CASE esp \notin {"dead", "stuck"} /\ skewed
    BY <1>b, <2>2, <2>4, EmptyIsNew DEF LinkInv
  <2>5. CASE esp \notin {"dead", "stuck"} /\ ~ skewed
    <3>1. esp \in {"sync", "wait"} BY <2>2, <2>5 DEF LinkInv, WifiTypeOK, OnlySync
    <3>2. toEsp = <<>> BY <2>2, <2>5, <3>1 DEF LinkInv
    <3>3. Head(toEsp') = m /\ Len(toEsp') = 1
      <4>1. toEsp' = Append(toEsp, m) BY <2>1, <2>5 DEF Arrived
      <4> QED BY <1>a, <3>2, <4>1, Fronts
    <3>4. esp = "wait" => ~ m.old
      <4>1. Head(rxBuff) = rxBuff[1] /\ 1 \in DOMAIN rxBuff BY <1>a, <2>2, Leaves
      <4> QED BY <2>1, <2>5, <4>1 DEF LinkInv, NoneOld
    <3> QED BY <1>b, <2>2, <2>5, <3>1, <3>3, <3>4, EmptyIsNew DEF LinkInv
  <2> QED BY <2>3, <2>4, <2>5
<1> QED BY <1>1, <1>2, <1>3, <1>4, <1>5, <1>b

(* What the module has given up stays, but for being old.                  *)
LEMMA AgedIs ==
  ASSUME NEW s \in Seq(Msg)
  PROVE  Old(s) \in Seq(Msg) /\ (Old(s) = <<>> <=> s = <<>>)
<1>1. Old(s) \in Seq(Msg) /\ DOMAIN Old(s) = DOMAIN s BY Ages
<1>2. \A t \in Seq(Msg) : t = <<>> <=> DOMAIN t = {} OBVIOUS
<1> QED BY <1>1, <1>2

(* The module and the line keep it: an exchange that ends with something   *)
(* left in the buffer ends garbled, and a buffer that is not garbled is    *)
(* that of a synchronization.                                              *)
LEMMA LinkModule ==
  ASSUME WifiTypeOK, LinkInv, Module \/ Lose
  PROVE  LinkInv'
<1>a. rxBuff \in Seq(Msg) /\ toEsp \in Seq(Msg) BY DEF WifiTypeOK
<1> USE DEF board, module
<1>1. ASSUME NEW id \in Requests \cup {"req"}, esp = "idle", Ask(id) PROVE LinkInv'
  <2> DEFINE m == New(id)
  <2>1. m \in Msg /\ ~ m.old BY NewIs, NamesDiffer DEF New
  <2>2. rxBuff' = Append(rxBuff, m) /\ esp' = "wait" /\ UNCHANGED <<toEsp, skewed>>
    BY <1>1 DEF Ask
  <2> HIDE DEF m
  <2>3. ~ skewed => toEsp = <<>> /\ NoneOld(rxBuff) BY <1>1 DEF LinkInv
  <2>4. ~ skewed => NoneOld(rxBuff') BY <1>a, <2>1, <2>2, <2>3, Fronts
  <2> QED BY <2>2, <2>3, <2>4 DEF LinkInv
<1>2. CASE Poll \/ \E id \in Requests : AskFor(id)
  BY <1>1, <1>2 DEF Poll, AskFor, LinkInv
<1>3. ASSUME Readable
      PROVE  /\ rxBuff = <<>> /\ Old(rxBuff) = <<>> /\ toEsp # <<>> /\ esp = "wait" /\ ~ skewed
             /\ wifiState # "SyncSend"
             /\ Head(toEsp).cut = "no" => Old(Tail(toEsp)) = <<>>
             /\ Head(toEsp).id = "askDate" => Head(toEsp).cut = "no"
  <2>1. toEsp # <<>> /\ esp = "wait" /\ ~ skewed /\ Complete(toEsp) /\ Head(toEsp) \in Msg
    BY <1>3, <1>a, Leaves DEF Readable, Complete
  <2>2. rxBuff = <<>> /\ (Len(toEsp) = 1 \/ Head(toEsp).cut # "no") /\ wifiState # "SyncSend"
    <3>1. Heeded(toEsp) BY <1>3, <1>a, <2>1, HeedIs
    <3> QED BY <2>1, <3>1 DEF LinkInv
  <2>3. ASSUME Head(toEsp).cut = "no" PROVE Old(Tail(toEsp)) = <<>>
    <3>1. Len(toEsp) = 1 BY <2>2, <2>3
    <3>2. \A s \in Seq(Msg) : Len(s) = 1 => Tail(s) = <<>>
      BY NewIs, NamesDiffer, Fronts
    <3> QED BY <1>a, <3>1, <3>2, EmptyIsNew
  <2>4. ASSUME Head(toEsp).id = "askDate" PROVE Head(toEsp).cut = "no"
    <3>1. ~ HasData(Head(toEsp)) BY <2>4, NamesDiffer DEF HasData
    <3>2. Head(toEsp).cut \in {"no", "magic", "size"} BY <2>1, <3>1 DEF Msg, Cuts
    <3> QED BY <2>1, <3>2 DEF Complete
  <2> QED BY <2>1, <2>2, <2>3, <2>4, EmptyIsNew
<1>4. CASE SendDate
  <2> DEFINE m == New("date")
  <2>1. m \in Msg /\ ~ m.old BY NewIs, NamesDiffer DEF New
  <2>2. /\ Readable /\ rxBuff' = Append(Old(rxBuff), m) /\ toEsp' = Old(Tail(toEsp))
        /\ esp' = esp /\ skewed' = skewed /\ Head(toEsp).id = "askDate"
    BY <1>4 DEF SendDate
  <2> HIDE DEF m
  <2>3. rxBuff' = Append(<<>>, m) /\ NoneOld(<<>>) BY <1>3, <2>2, EmptyIsNew
  <2>4. NoneOld(rxBuff')
    <3>1. <<>> \in Seq(Msg) OBVIOUS
    <3> QED BY <2>1, <2>3, <3>1, Fronts
  <2>5. toEsp' = <<>> BY <1>3, <2>2
  <2> QED BY <1>3, <2>2, <2>4, <2>5 DEF LinkInv
<1>g. ASSUME NEW k, GivenUp(k) PROVE LinkInv'
  BY <1>g DEF GivenUp, ExchangeOver, LinkInv
<1>5. CASE Answered
  <2>1. Readable /\ wifiState' = wifiState BY <1>5 DEF Answered
  <2>2. CASE Head(toEsp).cut = "no"
    <3>1. /\ esp' = "idle" /\ toEsp' = Old(Tail(toEsp)) /\ rxBuff' = Old(rxBuff)
          /\ skewed' = skewed
      BY <1>5, <2>2 DEF Answered, ExchangeOver
    <3>2. rxBuff' = <<>> /\ wifiState' # "SyncSend" /\ toEsp' = <<>>
      BY <1>3, <2>1, <2>2, <3>1
    <3> QED BY <3>1, <3>2, EmptyIsNew DEF LinkInv
  <2>3. CASE Head(toEsp).cut # "no"
    BY <1>5, <1>g, <2>3 DEF Answered
  <2> QED BY <2>2, <2>3
<1>6. ASSUME Synchronize PROVE LinkInv'
  BY <1>6 DEF Synchronize, LinkInv
<1>7. CASE AskedToSync
  BY <1>6, <1>7 DEF AskedToSync
<1>8. CASE BadMagic
  <2>1. CASE Synchronize BY <1>6, <2>1
  <2>2. CASE GivenUp(HeaderEnd) BY <1>g, <2>2
  <2> QED BY <1>8, <2>1, <2>2 DEF BadMagic
<1>15. CASE BadLength
  BY <1>15 DEF BadLength, TooLong, LinkInv
<1>9. CASE SyncReceived
  <2> DEFINE m == New("sync")
  <2>1. m \in Msg /\ ~ m.old /\ m.id = "sync" BY NewIs, NamesDiffer DEF New
  <2>2. /\ esp = "sync" /\ toEsp # <<>> /\ Head(toEsp).cut = "no" /\ wifiState' = wifiState
        /\ esp' = "synced" /\ toEsp' = Tail(toEsp) /\ rxBuff' = Append(rxBuff, m)
        /\ skewed' = skewed
    BY <1>9 DEF SyncReceived
  <2> HIDE DEF m
  <2>3. ~ skewed /\ rxBuff = <<>> /\ Len(toEsp) = 1 /\ wifiState # "SyncSend"
    BY <2>2 DEF LinkInv
  <2>4. toEsp' = <<>> BY <1>a, <2>1, <2>2, <2>3, Fronts
  <2>5. Len(rxBuff') = 1 /\ Head(rxBuff') = m /\ NoneOld(rxBuff')
    BY <1>a, <2>1, <2>2, <2>3, EmptyIsNew, Fronts
  <2> QED BY <2>1, <2>2, <2>3, <2>4, <2>5 DEF LinkInv, OnlySync
<1>10. CASE SyncFlush
  BY <1>10 DEF SyncFlush, LinkInv
<1>11. CASE Synced
  BY <1>11 DEF Synced, LinkInv, OnlySync, NoneOld
<1>12. CASE Die
  BY <1>12 DEF Die, LinkInv
<1>13. CASE Start
  BY <1>13 DEF Start, LinkInv
<1>14. CASE Lose
  <2>1. UNCHANGED <<wifiState, esp, skewed>> BY <1>14 DEF Lose
  <2>2. CASE rxBuff # <<>> /\ rxBuff' \in Damages(rxBuff) /\ UNCHANGED toEsp
    <3> DEFINE d == rxBuff'
    <3>1. /\ NoneOld(rxBuff) => NoneOld(d)
          /\ d # <<>> => Head(d).id = Head(rxBuff).id
          /\ d # <<>> /\ Len(rxBuff) = 1 => Len(d) = 1
      BY <1>a, <2>2, DamagedIs
    <3> HIDE DEF d
    <3>2. OnlySync(rxBuff) => OnlySync(d)
      <4>1. SUFFICES ASSUME OnlySync(rxBuff), d # <<>> PROVE Len(d) = 1 /\ Head(d).id = "sync"
        BY DEF OnlySync
      <4>2. Len(rxBuff) = 1 /\ Head(rxBuff).id = "sync" BY <2>2, <4>1 DEF OnlySync
      <4> QED BY <3>1, <4>1, <4>2, Zenon
    <3>3. OnlySync(rxBuff') <=> OnlySync(d) BY DEF d
    <3>4. NoneOld(rxBuff') <=> NoneOld(d) BY DEF d
    <3> QED BY <2>1, <2>2, <3>1, <3>2, <3>3, <3>4 DEF LinkInv, Heeded
  <2>3. CASE toEsp # <<>> /\ toEsp' \in Damages(toEsp) /\ UNCHANGED rxBuff
    <3> DEFINE d == toEsp'
    <3>1. /\ d \in Seq(Msg) /\ Len(d) <= Len(toEsp) /\ Len(toEsp) \in Nat \ {0} /\ Len(d) \in Nat
          /\ d # <<>> => Head(d).old = Head(toEsp).old
          /\ d # <<>> /\ Len(toEsp) > 1 => Head(d) = Head(toEsp)
          /\ d # <<>> /\ Len(toEsp) = 1 =>
               Head(toEsp).cut = "no" /\ Head(d).cut # "no" /\ Len(d) = 1
      BY <1>a, <2>3, DamagedIs
    <3>2. CASE ~ skewed /\ esp \in {"sync", "wait"}
      <4>1. /\ rxBuff = <<>> /\ (Len(toEsp) = 1 \/ Head(toEsp).cut # "no")
            /\ esp = "sync" \/ Heeded(toEsp) => wifiState # "SyncSend"
            /\ esp = "wait" => ~ Head(toEsp).old
        BY <2>3, <3>2 DEF LinkInv
      <4> HIDE DEF d
      <4>5. Len(toEsp) = 1 \/ Len(toEsp) > 1
        <5>1. \A n \in Nat \ {0} : n = 1 \/ n > 1 OBVIOUS
        <5> QED BY <3>1, <5>1
      <4>6. ~ (1 > 1) OBVIOUS
      <4>2. d # <<>> => Len(d) = 1 \/ Head(d).cut # "no" BY <3>1, <4>1, <4>5, Zenon
      <4>3. Heeded(d) => Heeded(toEsp)
        BY <2>3, <3>1, <4>5, <4>6, Zenon DEF Heeded
      <4>4. d = toEsp' BY DEF d
      <4> QED BY <2>1, <2>3, <3>1, <3>2, <4>1, <4>2, <4>3, <4>4 DEF LinkInv
    <3>3. CASE skewed
      BY <2>1, <2>3, <3>3 DEF LinkInv
    <3>4. ~ skewed => esp \in {"sync", "wait"}
      BY <2>3 DEF LinkInv, WifiTypeOK
    <3> QED BY <3>2, <3>3, <3>4
  <2> QED BY <1>14, <2>2, <2>3 DEF Lose
<1> QED BY <1>2, <1>4, <1>5, <1>7, <1>8, <1>9, <1>10, <1>11, <1>12, <1>13, <1>14, <1>15
        DEF Module, Replies

(* A buffer of one message.                                                *)
LEMMA OneIs ==
  ASSUME NEW m \in Msg, m.cut = "no", m.id # "sync"
  PROVE  One(Append(<<>>, m))
<1>1. <<>> \in Seq(Msg) OBVIOUS
<1>2. Head(Append(<<>>, m)) = m /\ Len(Append(<<>>, m)) = 1 BY <1>1, Fronts
<1> QED BY <1>2 DEF One

(* What is in it is whole, and is read at once.                            *)
LEMMA OneReads ==
  ASSUME NEW s \in Seq(Msg), One(s)
  PROVE  s # <<>> /\ Complete(s) /\ HeaderIn(s) /\ Old(Tail(s)) = <<>>
<1>1. s # <<>> /\ Tail(s) = <<>>
  <2>1. \A t \in Seq(Msg) : Len(t) = 1 => t # <<>> /\ Tail(t) = <<>>
    BY NewIs, NamesDiffer, Fronts
  <2> QED BY <2>1 DEF One
<1>2. Complete(s) /\ HeaderIn(s) BY <1>1 DEF One, Complete, HeaderIn
<1> QED BY <1>1, <1>2, EmptyIsNew

(* While nothing goes wrong wifiNext answers what is asked, and loses      *)
(* nothing.                                                                *)
LEMMA SteadyBoard ==
  ASSUME WifiTypeOK, SteadyInv, Machine
  PROVE  SteadyInv'
<1>a. rxBuff \in Seq(Msg) /\ toEsp \in Seq(Msg) BY DEF WifiTypeOK
<1>b. /\ UNCHANGED <<esp, skewed>> /\ steady' \in {steady, FALSE}
      /\ Stays \/ Lost \/ Drops \/ Syncs \/ Replied
  BY BoardMoves
<1> SUFFICES ASSUME steady, steady' PROVE SteadyInv'
  BY <1>b DEF SteadyInv
<1>1. CASE Stays
  BY <1>1, <1>b DEF Stays, SteadyInv, HeaderIn, One
<1>2. ~ Lost
  <2>1. CASE esp = "idle"
    BY <2>1 DEF Lost, SteadyInv, Silent, HeaderIn
  <2>2. CASE esp = "wait" /\ One(rxBuff)
    BY <1>a, <2>2, OneReads DEF Lost, One
  <2>3. CASE esp = "wait" /\ One(toEsp) /\ rxBuff = <<>>
    <3>1. Complete(toEsp) /\ ~ skewed BY <1>a, <2>3, OneReads DEF SteadyInv
    <3>2. Heeds BY <2>3, <3>1 DEF Heeds, Readable
    <3> QED BY <2>3, <3>2 DEF Lost, Silent, HeaderIn
  <2> QED BY <2>1, <2>2, <2>3 DEF SteadyInv
<1>3. ~ Drops
  BY <1>a, OneReads DEF Drops, SteadyInv, One
<1>4. ~ Syncs
  BY DEF Syncs, SteadyInv
<1>5. CASE Replied
  <2>1. PICK m \in Msg : toEsp' = Arrived(m) /\ m.cut = "no" /\ m.id # "sync"
    BY <1>5 DEF Replied
  <2>2. wifiState = "RxData" /\ wifiState' = "Tx" /\ rxBuff' = <<>> BY <1>5 DEF Replied
  <2>3. esp = "wait" /\ toEsp = <<>> BY <2>2 DEF SteadyInv
  <2>4. toEsp' = Append(<<>>, m) BY <2>1, <2>3 DEF Arrived
  <2>5. One(toEsp') BY <2>1, <2>4, OneIs
  <2>6. One(toEsp)' BY <2>5 DEF One
  <2> QED BY <1>b, <2>2, <2>3, <2>6 DEF SteadyInv
<1> QED BY <1>1, <1>2, <1>3, <1>4, <1>5, <1>b

(* Nor does the module.                                                    *)
LEMMA SteadyModule ==
  ASSUME WifiTypeOK, LinkInv, SteadyInv, Module \/ Lose
  PROVE  SteadyInv'
<1>a. rxBuff \in Seq(Msg) /\ toEsp \in Seq(Msg) BY DEF WifiTypeOK
<1> USE DEF board, module
<1>1. CASE Synced
  BY <1>1 DEF Synced, SteadyInv, LinkInv
<1>2. CASE Die \/ Lose
  BY <1>2 DEF Die, Lose, SteadyInv
<1>3. CASE ~ Synced /\ ~ Die /\ ~ Lose
  <2>1. steady' = steady
    BY <1>3 DEF Module, Poll, AskFor, Ask, Replies, SendDate, AskedToSync, Answered, BadMagic,
                BadLength, SyncReceived, SyncFlush, Start
  <2> SUFFICES ASSUME steady PROVE SteadyInv'
    BY <2>1 DEF SteadyInv
  <2>2. ASSUME NEW id \in Requests \cup {"req"}, Ask(id), esp = "idle" PROVE SteadyInv'
    <3> DEFINE m == New(id)
    <3>1. m \in Msg /\ m.cut = "no" /\ m.id # "sync" BY NewIs, NamesDiffer DEF New
    <3> HIDE DEF m
    <3>2. /\ rxBuff' = Append(rxBuff, m) /\ esp' = "wait"
          /\ UNCHANGED <<wifiState, toEsp, skewed, steady>>
      BY <2>2 DEF Ask, m
    <3>3. rxBuff = <<>> /\ toEsp = <<>> /\ wifiState \in {"RxHdr", "Tx"} /\ ~ skewed
      BY <2>2 DEF SteadyInv
    <3>4. One(Append(<<>>, m)) BY <3>1, OneIs
    <3>5. One(rxBuff)' BY <3>2, <3>3, <3>4 DEF One
    <3> QED BY <3>2, <3>3, <3>5 DEF SteadyInv
  <2>3. CASE Poll \/ \E id \in Requests : AskFor(id)
    BY <2>2, <2>3 DEF Poll, AskFor, SteadyInv
  <2>4. ASSUME Readable \/ Garbled \/ TooLong
        PROVE  /\ esp = "wait" /\ One(toEsp) /\ rxBuff = <<>> /\ wifiState \in {"RxHdr", "Tx"}
               /\ ~ skewed /\ Old(Tail(toEsp)) = <<>> /\ Old(rxBuff) = <<>>
    <3>1. esp = "wait" /\ toEsp # <<>> BY <2>4 DEF Readable, Garbled, TooLong, Complete, HeaderIn
    <3>2. One(toEsp) /\ rxBuff = <<>> /\ wifiState \in {"RxHdr", "Tx"} /\ ~ skewed
      BY <3>1 DEF SteadyInv
    <3> QED BY <1>a, <3>1, <3>2, OneReads, EmptyIsNew
  <2>5. CASE SendDate
    <3> DEFINE m == New("date")
    <3>1. m \in Msg /\ m.cut = "no" /\ m.id # "sync" BY NewIs, NamesDiffer DEF New
    <3> HIDE DEF m
    <3>2. /\ Readable /\ rxBuff' = Append(Old(rxBuff), m) /\ toEsp' = Old(Tail(toEsp))
          /\ esp' = esp /\ skewed' = skewed /\ wifiState' = wifiState /\ steady' = steady
      BY <2>5 DEF SendDate, m
    <3>3. rxBuff' = Append(<<>>, m) /\ toEsp' = <<>> /\ ~ skewed'
      BY <2>4, <3>2 DEF One
    <3>4. One(rxBuff)'
      <4>1. One(Append(<<>>, m)) BY <3>1, OneIs
      <4> QED BY <3>3, <4>1 DEF One
    <3> QED BY <2>4, <3>2, <3>3, <3>4 DEF SteadyInv
  <2>6. CASE Answered
    <3>1. /\ Readable /\ esp' = "idle" /\ toEsp' = Old(Tail(toEsp)) /\ rxBuff' = Old(rxBuff)
          /\ skewed' = skewed /\ wifiState' = wifiState
      BY <2>4, <2>6 DEF Answered, ExchangeOver, One
    <3>2. rxBuff' = <<>> /\ toEsp' = <<>> /\ skewed' = FALSE BY <2>4, <3>1 DEF One
    <3> QED BY <2>4, <3>1, <3>2 DEF SteadyInv
  <2>7. ~ AskedToSync
    BY <2>4 DEF AskedToSync, One
  <2>8. ~ BadMagic /\ ~ BadLength
    BY <2>4 DEF BadMagic, Garbled, BadLength, TooLong, One
  <2>9. ~ SyncReceived /\ ~ SyncFlush /\ ~ Start
    BY DEF SyncReceived, SyncFlush, Start, SteadyInv
  <2> QED BY <1>3, <2>3, <2>5, <2>6, <2>7, <2>8, <2>9 DEF Module, Replies
<1> QED BY <1>1, <1>2, <1>3

(* The link is touched by wifiNext, the module and the line only.          *)
LEMMA LinkElsewhere ==
  ASSUME LinkInv, SteadyInv, UNCHANGED linkVars
  PROVE  LinkInv' /\ SteadyInv'
<1>1. UNCHANGED <<wifiState, rxBuff, toEsp, esp, skewed, steady>> BY DEF linkVars
<1>2. LinkInv' BY <1>1 DEF LinkInv, NoneOld, OnlySync, Heeded
<1>3. SteadyInv' BY <1>1 DEF SteadyInv, One
<1> QED BY <1>2, <1>3

(* Both are kept by every step of the update of the date.                  *)
LEMMA LinkKept ==
  ASSUME TimeTypeOK, LinkInv, SteadyInv, [Next]_vars
  PROVE  LinkInv' /\ SteadyInv'
<1>a. WifiTypeOK BY DEF TimeTypeOK
<1> USE DEF wifiRest, linkVars, module, wifiVars, board
<1>1. ASSUME NEW t \in Task, TimeNext(t) PROVE UNCHANGED linkVars
  BY <1>1 DEF TimeNext, Retry, Switch, Store, Stop, ToIdle, Done
<1>2. CASE Link \/ DnsNext \/ SntpNext
  BY <1>2, LinkElsewhere DEF Link, DnsNext, SntpNext
<1>3. CASE WifiStep(DateTimeout)
  BY <1>3, LinkElsewhere DEF WifiStep, DateTimeout
<1>4. CASE WifiStep(Machine)
  BY <1>4, <1>a, LinkBoard, SteadyBoard DEF WifiStep
<1>5. CASE OverThere
  BY <1>5, <1>a, LinkModule, SteadyModule DEF OverThere
<1>6. CASE Expired \/ HistoStart \/ Daily
  BY <1>6, LinkElsewhere DEF Expired, HistoStart, Daily, UpdateRequest
<1>7. CASE UNCHANGED vars
  BY <1>7, LinkElsewhere DEF vars
<1> QED BY <1>1, <1>2, <1>3, <1>4, <1>5, <1>6, <1>7, LinkElsewhere DEF Next

(* For any number of messages lost or damaged, and whatever is asked: the  *)
(* buffers of wifi.c and of the module are as the two invariants say.      *)
LEMMA LinkHolds == Spec => [](LinkInv /\ SteadyInv)
<1>1. TimeInit => LinkInv /\ SteadyInv
  BY DEF TimeInit, WifiInit, LinkInv, SteadyInv
<1>2. TimeTypeOK /\ LinkInv /\ SteadyInv /\ [Next]_vars => (LinkInv /\ SteadyInv)'
  BY LinkKept
<1> QED BY <1>1, <1>2, TypeCorrect, PTL DEF Spec

(* What the module takes for an answer (message_exchange) answers what it  *)
(* asked, or is a SYNC, whatever was lost or damaged before.               *)
THEOREM AnswersAreMine == Spec => []AnswerIsMine
<1>1. LinkInv => AnswerIsMine BY DEF LinkInv, AnswerIsMine, Readable, Complete
<1> QED BY <1>1, LinkHolds, PTL

(* While nothing goes wrong wifiNext does not synchronize again.           *)
THEOREM InSync == Spec => []StaysInSync
<1>1. SteadyInv => StaysInSync BY DEF SteadyInv, StaysInSync
<1> QED BY <1>1, LinkHolds, PTL
=============================================================================
