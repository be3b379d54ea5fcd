----------------------------- MODULE Connection -----------------------------
(***************************************************************************)
(* How the dashboard knows whether its proxy is there: pings, each under   *)
(* way for as long as five seconds, and the status they leave behind.      *)
(*                                                                         *)
(* A ping is not called off when the address or the status changes; its    *)
(* answer counts whenever it comes, and in any order.                      *)
(***************************************************************************)
EXTENDS Naturals, BagsExt, Bags

CONSTANTS
    MaxPings     \* pings under way when the next one is due

ASSUME ConnectionConstants == MaxPings \in Nat \ {0}

VARIABLES
    up,      \* the proxy answers within five seconds
    link,    \* the address, the status and the failures in a row
    pings    \* the pings under way, a bag

linkVars == <<up, link, pings>>

-----------------------------------------------------------------------------
\* The proxy's address, none, or one where nothing is.
Addresses == {"none", "proxy", "wrong"}

Link == [address : Addresses, failures : 0..3,
         status : {"connected", "disconnected", "reconnecting"}]

Ping == [address : Addresses, result : {"waiting", "ok", "failed"}]

LinkTypeOK ==
    /\ up \in BOOLEAN
    /\ link \in Link
    /\ IsABag(pings) /\ BagToSet(pings) \subseteq Ping

LinkInit ==
    /\ up \in BOOLEAN
    /\ link \in [address : {"none", "proxy"}, failures : {0}, status : {"disconnected"}]
    /\ pings = IF link.address = "none" THEN EmptyBag
               ELSE SetToBag({[address |-> link.address, result |-> "waiting"]})

isConnected == link.status = "connected"

-----------------------------------------------------------------------------
\* checkHealth.
Pinged(bag, a) == BagAdd(bag, [address |-> a, result |-> "waiting"])

\* With another address or status the interval starts afresh, with a ping.
Becomes(next, bag) ==
    /\ link' = next
    /\ pings' = IF next.address # link.address \/ next.status # link.status
                THEN Pinged(bag, next.address) ELSE bag
    /\ UNCHANGED up

\* Mutant: only a connected dashboard goes on pinging.
Pings_WhenConnected == isConnected

Pings == link.address # "none"

\* Every fifteen seconds, or five while it is not connected.
Interval ==
    /\ Pings
    /\ BagCardinality(pings) < MaxPings
    /\ pings' = Pinged(pings, link.address)
    /\ UNCHANGED <<up, link>>

\* The button of the popover, which rests while a connection is sought, pings on top of
\* what the new status does.
Reconnect ==
    /\ link.address # "none" /\ link.status # "reconnecting"
    /\ BagCardinality(pings) < MaxPings
    /\ LET next == [link EXCEPT !.failures = 0, !.status = "reconnecting"]
       IN  Becomes(next, Pinged(pings, link.address))

\* setProxyUrl, with the address on file or another one.
SetAddress(a) ==
    /\ BagCardinality(pings) < MaxPings
    /\ Becomes([address |-> a, failures |-> 0, status |-> "reconnecting"], pings)

PingServed(a) ==
    LET p == [address |-> a, result |-> "waiting"]
    IN  /\ BagIn(p, pings)
        /\ pings' = BagAdd(BagRemove(pings, p),
                           [p EXCEPT !.result = IF up /\ a = "proxy" THEN "ok" ELSE "failed"])
        /\ UNCHANGED <<up, link>>

\* The answer counts for whatever address there is by now.
PingSucceeded ==
    \E p \in BagToSet(pings) :
        /\ p.result = "ok"
        /\ Becomes([link EXCEPT !.failures = 0, !.status = "connected"], BagRemove(pings, p))

PingFailed ==
    \E p \in BagToSet(pings) :
        LET failures == IF link.failures = 3 THEN 3 ELSE link.failures + 1
        IN  /\ p.result = "failed"
            /\ Becomes([link EXCEPT !.failures = failures,
                           !.status = IF failures = 3 THEN "disconnected" ELSE "reconnecting"],
                       BagRemove(pings, p))

UpOrDown == up' = ~up /\ UNCHANGED <<link, pings>>

LinkNext ==
    \/ Interval \/ Reconnect \/ \E a \in Addresses \ {"none"} : SetAddress(a)
    \/ \E a \in Addresses : PingServed(a)
    \/ PingSucceeded \/ PingFailed \/ UpOrDown

-----------------------------------------------------------------------------
\* A dashboard whose proxy stays there connects to it again and again, and one whose
\* proxy is gone, or that has the wrong address, at last shows no connection for good:
\* whatever old answers, changes of address and clicks come in between
\* (ProxyConnectionContext.tsx:45-109).
ConnectionSettles ==
    /\ <>[](up /\ link.address = "proxy") => []<>isConnected
    /\ <>[](~up) \/ <>[](link.address # "proxy") => <>[](~isConnected)
=============================================================================
