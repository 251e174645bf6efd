----------------------------- MODULE AASunWifi -----------------------------
(***************************************************************************)
(* The main board (AASun) and the Wi-Fi module (ESP32) over their UART:    *)
(* wifiNext on the board, message_exchange and uartSynchronize in the      *)
(* module.  The module asks and the board answers; what the board wants,   *)
(* it says when the module polls it (WM_ID_REQ).  Of a message the model   *)
(* keeps its kind, which byte of it was lost, and whether the module has   *)
(* ceased to wait for it: it was in the buffer when an exchange ended, or  *)
(* it answers a request that was given up.                                 *)
(***************************************************************************)
EXTENDS Naturals, SequencesExt

CONSTANTS
  Requests,       \* what the module asks for besides polling: "cgi" is for a browser
  Losses          \* how many messages are lost or damaged

ASSUME WifiAssumption == Requests \subseteq {"cgi", "other"} /\ Losses \in Nat

VARIABLES
  \* the board
  wifiState,      \* WST_..., Msg standing for the message data
  rxBuff,         \* what was received since wifiRxStart
  requestWaiting, requestActive, bWifiTimeoutOn,
  calling,        \* what wifiNext tells timeUpdate.c, until that returns
  \* the module
  esp,            \* what its task is doing
  exchange,       \* the request it waits for
  toEsp,          \* its receive buffer
  skewed,         \* the buffer begins with the end of a message
  losses,
  steady          \* nothing has gone wrong since both were synchronized

board    == <<wifiState, requestWaiting, requestActive, bWifiTimeoutOn, calling>>
module   == <<esp, exchange, skewed>>
wifiVars == <<board, rxBuff, toEsp, module, losses, steady>>

Ids == Requests \cup {"req", "date", "sync", "nack", "ack", "askDate", "data"}
HasData(m) == m.id \in Requests \cup {"date", "data"}

(* The byte that is lost is one of the magic; one of the identifier or of  *)
(* the length, which is then followed by the first byte of the data, or of *)
(* the next message: "size" if that makes a length beyond any buffer,      *)
(* "part" if one that stops short of the end; or one of the data.          *)
Cuts(m) == {"magic", "size"} \cup IF HasData(m) THEN {"part", "data"} ELSE {}
Msg == {m \in [id : Ids, old : BOOLEAN, cut : {"no", "magic", "size", "part", "data"}] :
          m.cut = "no" \/ m.cut \in Cuts(m)}
New(id) == [id |-> id, old |-> FALSE, cut |-> "no"]

(* There are the bytes of a header, and of all the data it announces; what *)
(* is missing is made up by the next message.                              *)
HeaderIn(s) == s # <<>> /\ (Head(s).cut = "no" \/ HasData(Head(s)) \/ Len(s) > 1)
Complete(s) == s # <<>> /\ (Head(s).cut \in {"no", "part"} \/ (Head(s).cut = "data" /\ Len(s) > 1))

WifiInit ==
  /\ wifiState = "SyncSend" /\ rxBuff = <<>>
  /\ requestWaiting = FALSE /\ requestActive = FALSE /\ bWifiTimeoutOn = FALSE
  /\ calling = "none"
  /\ esp = "dead" /\ exchange = "req" /\ toEsp = <<>> /\ skewed = FALSE
  /\ losses = 0 /\ steady = FALSE

WifiTypeOK ==
  /\ wifiState \in {"RxHdr", "RxData", "Tx", "SyncSend", "SyncTx", "SyncWait"}
  /\ rxBuff \in Seq(Msg) /\ toEsp \in Seq(Msg)
  /\ requestWaiting \in BOOLEAN /\ requestActive \in BOOLEAN
  /\ bWifiTimeoutOn \in BOOLEAN /\ calling \in {"none", "retry", "reset"}
  /\ esp \in {"dead", "sync", "synced", "idle", "busy", "wait", "stuck"}
  /\ exchange \in Requests \cup {"req", "date"}
  /\ skewed \in BOOLEAN /\ losses \in 0..Losses /\ steady \in BOOLEAN

-----------------------------------------------------------------------------
(* The board.  Its low priority task calls wifiNext, one step per call.    *)

(* message_exchange finds a message, or a header that is not one, or a     *)
(* header whose data can never be there.                                   *)
Readable == esp = "wait" /\ ~ skewed /\ Complete(toEsp)
Garbled  == esp = "wait" /\ \/ skewed /\ toEsp # <<>>
                            \/ HeaderIn(toEsp) /\ Head(toEsp).cut = "magic"
TooLong  == esp = "wait" /\ ~ skewed /\ HeaderIn(toEsp) /\ Head(toEsp).cut = "size"
Heeds    == Readable \/ Garbled \/ TooLong

(* The module answers, or asks, within half a second unless it waits; what *)
(* is not a SYNC it throws away within half of the board's time-out.       *)
Silent == \/ esp \in {"dead", "busy", "stuck"}
          \/ esp = "wait" /\ ~ Heeds
          \/ esp = "sync" /\ toEsp = <<>>

Arrived(m) == IF esp \in {"dead", "stuck"} THEN <<>> ELSE Append(toEsp, m)

(* builHdrAndSend, and its like for the other answers: the reception       *)
(* starts again before the transmission has ended.                         *)
Transmit(id) ==
  /\ rxBuff' = <<>> /\ wifiState' = "Tx"
  /\ toEsp' = Arrived([New(id) EXCEPT !.old = Head(rxBuff).old])

(* Fault: the automaton of the date is not told.                           *)
DateTimeoutUntold ==
  /\ calling = "none" /\ bWifiTimeoutOn
  /\ bWifiTimeoutOn' = FALSE /\ requestWaiting' = FALSE
  /\ UNCHANGED <<wifiState, rxBuff, requestActive, calling, toEsp, module, losses, steady>>

(* WIFI_TIMEOUT: the date has not come.                                    *)
DateTimeout ==
  /\ calling = "none" /\ bWifiTimeoutOn
  /\ bWifiTimeoutOn' = FALSE /\ requestWaiting' = FALSE /\ calling' = "retry"
  /\ UNCHANGED <<wifiState, rxBuff, requestActive, toEsp, module, losses, steady>>

(* A header: of what it says only the magic is checked.                    *)
RxHdr ==
  /\ calling = "none" /\ wifiState = "RxHdr" /\ HeaderIn(rxBuff)
  /\ wifiState' = IF Head(rxBuff).cut = "magic" THEN "SyncSend" ELSE "RxData"
  /\ UNCHANGED <<requestWaiting, requestActive, bWifiTimeoutOn, calling, rxBuff, toEsp, module,
                 losses, steady>>

(* The time-out comes first: when the loop that calls wifiNext was late by *)
(* 200 ms, a message that is there is dropped.                             *)
RxDataTimeout ==
  /\ calling = "none" /\ wifiState = "RxData"
  /\ wifiState' = "RxHdr" /\ rxBuff' = <<>> /\ steady' = (steady /\ ~ Complete(rxBuff))
  /\ UNCHANGED <<requestWaiting, requestActive, bWifiTimeoutOn, calling, toEsp, module, losses>>

Received(id) == /\ calling = "none" /\ wifiState = "RxData" /\ Complete(rxBuff)
                /\ Head(rxBuff).id = id

(* Fault: a SYNC is acknowledged.                                          *)
RxSyncAnswered ==
  /\ Received("sync") /\ Transmit("ack")
  /\ UNCHANGED <<requestWaiting, requestActive, bWifiTimeoutOn, calling, module, losses, steady>>

(* A SYNC is not answered.                                                 *)
RxSync ==
  /\ Received("sync") /\ wifiState' = "RxHdr" /\ rxBuff' = <<>>
  /\ UNCHANGED <<requestWaiting, requestActive, bWifiTimeoutOn, calling, toEsp, module, losses,
                 steady>>

(* The module polls: there is something for its telnet client, or it is    *)
(* asked for the date, or has nothing to do.                               *)
RxReq ==
  /\ Received("req")
  /\ \/ Transmit("data") /\ UNCHANGED requestActive
     \/ Transmit(IF requestWaiting THEN "askDate" ELSE "nack") /\ requestActive' = requestWaiting
  /\ UNCHANGED <<requestWaiting, bWifiTimeoutOn, calling, module, losses, steady>>

(* The date, which the module may not know.  (It is acknowledged when      *)
(* timeUpdateWifi has returned; wifiNext does nothing until then.)         *)
RxDate ==
  /\ Received("date") /\ bWifiTimeoutOn' = FALSE
  /\ calling' \in {"reset", "retry"} /\ Transmit("ack")
  /\ UNCHANGED <<requestWaiting, requestActive, module, losses, steady>>

(* A request of the module; or, as a byte of its header was lost, nothing  *)
(* wifiNext knows.                                                         *)
RxOther ==
  /\ \/ \E id \in Requests : Received(id) /\ Transmit("data")
     \/ \E id \in Requests \cup {"date"} : /\ Received(id) /\ Head(rxBuff).cut = "part"
                                           /\ Transmit("nack")
  /\ UNCHANGED <<requestWaiting, requestActive, bWifiTimeoutOn, calling, module, losses, steady>>

(* Fault: the reception starts again at the end of the transmission.       *)
TxEndFlushes ==
  /\ calling = "none" /\ wifiState = "Tx" /\ wifiState' = "RxHdr" /\ rxBuff' = <<>>
  /\ requestWaiting' = (requestWaiting /\ ~ requestActive) /\ requestActive' = FALSE
  /\ UNCHANGED <<bWifiTimeoutOn, calling, toEsp, module, losses, steady>>

TxEnd ==
  /\ calling = "none" /\ wifiState = "Tx" /\ wifiState' = "RxHdr"
  /\ requestWaiting' = (requestWaiting /\ ~ requestActive) /\ requestActive' = FALSE
  /\ UNCHANGED <<bWifiTimeoutOn, calling, rxBuff, toEsp, module, losses, steady>>

(* Fault: only the answer to a SYNC is waited for with a time-out.         *)
SyncTimeoutOnce ==
  /\ calling = "none" /\ wifiState = "SyncWait" /\ ~ HeaderIn(rxBuff) /\ Silent
  /\ wifiState' = "SyncSend"
  /\ UNCHANGED <<requestWaiting, requestActive, bWifiTimeoutOn, calling, rxBuff, toEsp, module,
                 losses, steady>>

(* SYNC_TMO: nothing but parts of a header for three seconds.              *)
SyncTimeout ==
  /\ calling = "none" /\ wifiState \in {"RxHdr", "SyncWait"} /\ ~ HeaderIn(rxBuff) /\ Silent
  /\ wifiState' = "SyncSend"
  /\ UNCHANGED <<requestWaiting, requestActive, bWifiTimeoutOn, calling, rxBuff, toEsp, module,
                 losses, steady>>

SyncSend ==
  /\ calling = "none" /\ wifiState = "SyncSend" /\ wifiState' = "SyncTx"
  /\ rxBuff' = <<>>
  /\ toEsp' = Arrived(New("sync"))
  /\ UNCHANGED <<requestWaiting, requestActive, bWifiTimeoutOn, calling, module, losses, steady>>

SyncTx ==
  /\ calling = "none" /\ wifiState = "SyncTx" /\ wifiState' = "SyncWait"
  /\ UNCHANGED <<requestWaiting, requestActive, bWifiTimeoutOn, calling, rxBuff, toEsp, module,
                 losses, steady>>

(* Whatever header comes ends the synchronization, and aborts a request.   *)
SyncEnd ==
  /\ calling = "none" /\ wifiState = "SyncWait" /\ HeaderIn(rxBuff) /\ wifiState' = "RxHdr"
  /\ requestWaiting' = (requestWaiting /\ ~ requestActive) /\ requestActive' = FALSE
  /\ UNCHANGED <<bWifiTimeoutOn, calling, rxBuff, toEsp, module, losses, steady>>

Machine == \/ RxHdr \/ RxDataTimeout \/ RxSync \/ RxReq \/ RxDate \/ RxOther \/ TxEnd
           \/ SyncTimeout \/ SyncSend \/ SyncTx \/ SyncEnd

(* Fault: the time-out is not started.                                     *)
RequestNoTimeout == requestWaiting' = TRUE /\ UNCHANGED bWifiTimeoutOn

(* wifiDateRequest, called by either task: refused if one waits already.   *)
Request == /\ requestWaiting' = TRUE
           /\ bWifiTimeoutOn' = (bWifiTimeoutOn \/ ~ requestWaiting)

-----------------------------------------------------------------------------
(* The module.                                                             *)

(* What the module has ceased to wait for.                                 *)
Old(s) == [i \in DOMAIN s |-> [s[i] EXCEPT !.old = TRUE]]

Ask(id) == /\ rxBuff' = Append(rxBuff, New(id)) /\ exchange' = id /\ esp' = "wait"
           /\ UNCHANGED <<board, toEsp, skewed, losses, steady>>

(* Bound: how many messages the module may be behind what it reads.        *)
Lag == 1

Poll    == /\ esp = "idle" /\ (skewed => rxBuff = <<>> /\ Len(toEsp) <= Lag)
           /\ Ask("req")
AskFor(id) == esp \in {"idle", "busy"} /\ Ask(id)

(* With the mutex taken, the module waits for the body of a POST, for room *)
(* in the socket of a telnet client, or for its flash to be erased.        *)
Busy    == /\ esp = "idle" /\ esp' = "busy" /\ steady' = FALSE
           /\ UNCHANGED <<board, rxBuff, toEsp, exchange, skewed, losses>>
BusyEnd == /\ esp = "busy" /\ esp' = "idle"
           /\ UNCHANGED <<board, rxBuff, toEsp, exchange, skewed, losses, steady>>

(* What can be left of the buffer when the last byte that was read is one  *)
(* of the k-th message: data makes further headers, which are no headers.  *)
Left(s, k) == LET t == SubSeq(s, k, Len(s))
              IN {Tail(t)} \cup IF HasData(Head(t)) THEN {[t EXCEPT ![1].cut = "magic"]} ELSE {}

ExchangeOver(s) == esp' = "idle" /\ toEsp' = Old(s) /\ rxBuff' = Old(rxBuff)

(* Of what is short of a byte the end is the first byte of what follows.   *)
GivenUp(k) == skewed' = TRUE /\ \E s \in Left(toEsp, k) : ExchangeOver(s)

(* uartSynchronize begins.                                                 *)
Synchronize  == esp' = "sync" /\ toEsp' = <<>> /\ skewed' = FALSE /\ rxBuff' = Old(rxBuff)

(* wifiRequest: the board wants the date, or is not synchronized.          *)
SendDate ==
  /\ Readable /\ exchange = "req" /\ Head(toEsp).id = "askDate"
  /\ exchange' = "date"
  /\ toEsp' = Old(Tail(toEsp)) /\ rxBuff' = Append(Old(rxBuff), New("date"))
  /\ UNCHANGED <<board, esp, skewed, losses, steady>>

AskedToSync ==
  /\ Readable /\ exchange = "req" /\ Head(toEsp).id = "sync" /\ Synchronize
  /\ UNCHANGED <<board, exchange, losses, steady>>

Answered ==
  /\ Readable /\ (exchange = "req" => Head(toEsp).id \notin {"askDate", "sync"})
  /\ CASE Head(toEsp).cut = "no"   -> ExchangeOver(Tail(toEsp)) /\ UNCHANGED skewed
       [] Head(toEsp).cut = "part" -> GivenUp(1)
       [] OTHER                    -> GivenUp(2)
  /\ UNCHANGED <<board, exchange, losses, steady>>

HeaderEnd == IF skewed \/ HasData(Head(toEsp)) THEN 1 ELSE 2

(* Fault: cgi_message_exchange gives up too.                               *)
BadMagicKept ==
  /\ Garbled /\ GivenUp(HeaderEnd)
  /\ UNCHANGED <<board, exchange, losses, steady>>

(* cgi_message_exchange synchronizes again, message_exchange gives up.     *)
BadMagic ==
  /\ Garbled
  /\ IF exchange = "cgi" THEN Synchronize ELSE GivenUp(HeaderEnd)
  /\ UNCHANGED <<board, exchange, losses, steady>>

(* The data that the header announces is more than the buffer can hold.    *)
BadLength ==
  /\ TooLong /\ esp' = "stuck" /\ toEsp' = <<>>
  /\ UNCHANGED <<board, rxBuff, exchange, skewed, losses, steady>>

(* uartSynchronize: only a SYNC is heeded, and sent back; a last message   *)
(* is awaited and thrown away.                                             *)
SyncReceived ==
  /\ esp = "sync" /\ toEsp # <<>> /\ Head(toEsp).id = "sync" /\ Head(toEsp).cut = "no"
  /\ esp' = "synced" /\ toEsp' = Tail(toEsp) /\ rxBuff' = Append(rxBuff, New("sync"))
  /\ UNCHANGED <<board, exchange, skewed, losses, steady>>

SyncFlush ==
  /\ esp = "sync" /\ toEsp # <<>> /\ (Head(toEsp).id # "sync" \/ Head(toEsp).cut # "no")
  /\ toEsp' = <<>>
  /\ UNCHANGED <<board, rxBuff, module, losses, steady>>

Synced ==
  /\ esp = "synced" /\ esp' = "idle" /\ toEsp' = <<>>
  /\ steady' = (wifiState = "RxHdr" /\ rxBuff = <<>>)
  /\ UNCHANGED <<board, rxBuff, exchange, skewed, losses>>

Replies == SendDate \/ AskedToSync \/ Answered \/ BadMagic \/ BadLength \/ SyncReceived \/ SyncFlush
           \/ Synced

(* It is switched off, or crashes, and starts with uartSynchronize.        *)
Die   == /\ esp # "dead" /\ esp' = "dead" /\ toEsp' = <<>> /\ skewed' = FALSE /\ steady' = FALSE
         /\ rxBuff' = Old(rxBuff) /\ UNCHANGED <<board, exchange, losses>>
Start == /\ esp = "dead" /\ esp' = "sync"
         /\ UNCHANGED <<board, rxBuff, toEsp, exchange, skewed, losses, steady>>

Module == Poll \/ (\E id \in Requests : AskFor(id)) \/ Replies \/ Die \/ Start
Slow   == Busy \/ BusyEnd

-----------------------------------------------------------------------------
(* The line: the message on its way is lost, or one byte of it.            *)
Damages(s) ==
  LET m == Last(s)
  IN IF m.cut # "no" THEN {}
     ELSE {Front(s)} \cup {Append(Front(s), [m EXCEPT !.cut = c]) : c \in Cuts(m)}

Lose ==
  /\ losses < Losses /\ losses' = losses + 1 /\ steady' = FALSE
  /\ \/ rxBuff # <<>> /\ rxBuff' \in Damages(rxBuff) /\ UNCHANGED toEsp
     \/ toEsp # <<>> /\ toEsp' \in Damages(toEsp) /\ UNCHANGED rxBuff
  /\ UNCHANGED <<board, module>>

-----------------------------------------------------------------------------
(* What the module takes for the answer of the board to a request is the   *)
(* answer to that request, or a SYNC: never what an earlier one left in    *)
(* the buffer, nor what the board answers to an earlier one.               *)
AnswerIsMine == Readable => ~ Head(toEsp).old

(* While nothing goes wrong the board does not synchronize again: no       *)
(* message is missed because the receiver was being started or stopped.    *)
StaysInSync == steady => wifiState # "SyncSend"

(* Whatever is lost, but for a byte of the identifier or of the length of  *)
(* an answer, the module does not wait for an answer for ever.             *)
SizeLost     == \E i \in DOMAIN toEsp : toEsp[i].cut = "size"
ExchangeEnds == []~ SizeLost => ((esp \in {"wait", "stuck"}) ~> (esp \notin {"wait", "stuck"}))

(* Garbled messages come to an end as long as browsers make requests.      *)
Recovers == skewed ~> ~ skewed
=============================================================================
