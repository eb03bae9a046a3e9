-------------------------------- MODULE Market --------------------------------
(***************************************************************************)
(* MarketScheduler.MarketSync stores the prices of the symbols under a key *)
(* made from the hour.  MarketService keeps the first answer that it gets  *)
(* from the price API and asks again only while it has none.               *)
(***************************************************************************)
EXTENDS Integers, Sequences, FiniteSets

CONSTANTS MaxSymbol,  \* the symbols, in their order
          Stamp,      \* month, day and hour of some of a year's hours, in their order
          NoAnswer    \* the list that the service starts with

VARIABLES
    now,     \* index of the last hour
    fired,   \* the cron ran in this hour
    life,    \* how many times the process was started, which Len(Stamp) bounds
    info,    \* the answer that the service keeps: its hour and symbols
    next,    \* symbol that the pass is at; 0 when it is idle
    data,    \* the hour of the prices that it collected, 0 for a price of 0
    rows     \* table market

vars == <<now, fired, life, info, next, data, rows>>

Times == DOMAIN Stamp
Symbols == 1..MaxSymbol

Less(k, l) ==
    \/ k[1] < l[1]
    \/ k[1] = l[1] /\ (k[2] < l[2] \/ (k[2] = l[2] /\ k[3] < l[3]))

MarketAssumption ==
    /\ Stamp \in Seq((1..12) \X (1..31) \X (0..23)) /\ Stamp # <<>>
    /\ \A t, u \in Times : t < u => Less(Stamp[t], Stamp[u])
    /\ MaxSymbol \in Nat \ {0}

\* Mutant of KeyOf: the hour of a clock of twelve hours.
KeyOf12(t) == <<Stamp[t][2], Stamp[t][1], ((Stamp[t][3] + 11) % 12) + 1>>

\* 'YYYY-DD-MM:HH' within a year.
KeyOf(t) == <<Stamp[t][2], Stamp[t][1], Stamp[t][3]>>

Prices == [Symbols -> 0..Len(Stamp)]
Zeros == [s \in Symbols |-> 0]

TypeOK ==
    /\ now \in Times /\ fired \in BOOLEAN /\ life \in 1..Len(Stamp)
    /\ info \in [at : Times, has : SUBSET Symbols] \cup {NoAnswer}
    /\ next \in 0..MaxSymbol /\ data \in Prices
    /\ \A r \in rows : r.at \in Times /\ r.price \in Prices

Init ==
    /\ now = 1 /\ fired = FALSE /\ life = 1 /\ info = NoAnswer
    /\ next = 0 /\ data = Zeros /\ rows = {}

\* The next hour of the cron; a pass takes less than an hour.
Hour ==
    /\ now < Len(Stamp) /\ next = 0
    /\ now' = now + 1 /\ fired' = FALSE
    /\ UNCHANGED <<life, info, next, data, rows>>

\* The row of the hour: save replaces one with the same key.
Stored(price) ==
    {r \in rows : r.key # KeyOf(now)} \cup {[key |-> KeyOf(now), at |-> now, price |-> price]}

Begin ==
    /\ ~fired
    /\ fired' = TRUE /\ next' = 1
    /\ UNCHANGED <<now, life, info, data, rows>>

PriceIn(answer, s) == IF answer # NoAnswer /\ s \in answer.has THEN answer.at ELSE 0

\* Mutant of Asks: it refreshes what it knows when that lacks the symbol.
AsksForMissing == PriceIn(info, next) = 0

\* getTokenPrice refreshes what it knows when that is empty.
Asks == info = NoAnswer

\* The price of a symbol: from the kept answer or from a new one that the API gives;
\* if it rejects, or gives an empty list, the old one stays.  After the last
\* symbol the row is saved.
Price(answer) ==
    LET prices == [data EXCEPT ![next] = PriceIn(answer, next)]
        last == next = MaxSymbol
    IN /\ next # 0
       /\ answer # info => Asks
       /\ info' = answer
       /\ next' = IF last THEN 0 ELSE next + 1
       /\ data' = IF last THEN Zeros ELSE prices
       /\ rows' = IF last THEN Stored(prices) ELSE rows
       /\ UNCHANGED <<now, fired, life>>

\* The process dies and is started again.
Restart ==
    /\ life < Len(Stamp)
    /\ life' = life + 1 /\ info' = NoAnswer /\ next' = 0 /\ data' = Zeros
    /\ UNCHANGED <<now, fired, rows>>

Answers == {info} \cup [at : {now}, has : SUBSET Symbols]

Next ==
    \/ Hour \/ Begin \/ Restart
    \/ \E answer \in Answers : Price(answer)

Spec == Init /\ [][Next]_vars

-----------------------------------------------------------------------------
(* Properties.                                                              *)

\* fetchLatestMarketData: the row with the greatest key.
Latest == CHOOSE r \in rows : \A q \in rows : ~Less(r.key, q.key)

\* It is the last one that was saved, as long as all rows are of one month.  In
\* the next month the days begin again, and an old row of a later day comes first
\* (market.service.ts:99, 118-127).
LatestWithinMonth ==
    (\A q, r \in rows : Stamp[q.at][1] = Stamp[r.at][1]) =>
        \A r \in rows : r.at <= Latest.at

\* A row mixes no prices that were given in different hours: it is a snapshot, be it
\* an old one, although a pass asks for one symbol after the other, answers lack
\* symbols, the API rejects in between and the process is started again
\* (market.scheduler.ts:28-44, market.service.ts:74-84).
OneHourARow ==
    \A r \in rows, s, t \in Symbols :
        r.price[s] # 0 /\ r.price[t] # 0 => r.price[s] = r.price[t]
===============================================================================
