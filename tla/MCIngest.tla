------------------------------ MODULE MCIngest ------------------------------
(***************************************************************************)
(* Instances of Ingest for TLC: one session of a European option chain and  *)
(* the rate future it is anchored by, in archives that differ from a clean  *)
(* one by the order of their definitions, a damaged, missing, duplicated or *)
(* misplaced payload, an instrument without a definition, an unusable or    *)
(* off-grid quote, or a manifest that does not match.                       *)
(***************************************************************************)
EXTENDS Ingest, TLC

MCDates == {1}
MCProduct ==
    [chain |-> [kind |-> "option", schemas |-> {Definitions, "cbbo-1m"},
                role |-> "cash_settled_control", selection |-> NoValue,
                underlying |-> NoValue, proxy |-> "fut", root |-> "X", nbbo |-> FALSE],
     fut   |-> [kind |-> "future", schemas |-> {Definitions, "bbo-1m", Statistics},
                role |-> "rate_control", selection |-> NearestOutright,
                underlying |-> NoValue, proxy |-> NoValue, root |-> "Y", nbbo |-> FALSE]]
MCMinima == [strikes |-> 1, expiries |-> 1, sessions |-> 1, heldOut |-> 0]
MCPolicy == [positiveBid |-> TRUE, positiveSpread |-> TRUE, positiveSizes |-> TRUE,
             excludeFlagged |-> TRUE, excludeStale |-> FALSE]

Option(key, right, stamp, action) ==
    [message |-> Definitions, key |-> key, stamp |-> stamp, action |-> action, class |-> right,
     osi |-> [root |-> "X", right |-> right, strike |-> 10, expiry |-> 5],
     strike |-> 10, expiry |-> 5, name |-> key, multiplier |-> 100, style |-> "european"]
Future(key, class, expiry) ==
    [message |-> Definitions, key |-> key, stamp |-> NoValue, action |-> "A",
     class |-> class, osi |-> NoValue, strike |-> NoValue, expiry |-> expiry,
     name |-> key, multiplier |-> NoValue, style |-> NoValue]
Disagreeing(key, stamp, action) == [Option(key, "C", stamp, action) EXCEPT !.osi.right = "P"]
Foreign(r) == [r EXCEPT !.message = "other"]
Mini(stamp) == [Option(1, "C", stamp, "M") EXCEPT !.multiplier = 10]

Call == Option(1, "C", 1, "A")
Put == Option(2, "P", 1, "A")
DefinitionLists == {
    <<Call, Put>>,
    <<Call, Put, Option(1, "C", 2, Delete)>>,
    <<Option(1, "C", 2, Delete), Put, Call>>,
    <<Call, Put, Option(1, "C", 1, Delete)>>,
    <<Disagreeing(2, 2, Delete), Call, Put>>,
    <<Mini(2), Put, Call>>,
    <<Call, Mini(2), Put>>,
    <<Call, Foreign(Mini(2)), Put>>,
    <<Call, Disagreeing(2, 1, "A")>>}

Quote(key, ts, bid, ask) ==
    [key |-> key, ts |-> ts, levels |-> TRUE, bid |-> bid, ask |-> ask,
     bidSize |-> 1, askSize |-> 1, suspect |-> FALSE]
QuoteLists == {
    <<Quote(1, 2, 3, 4), Quote(2, 2, 3, 4)>>,
    <<Quote(1, 2, 3, 4), Quote(1, 4, 3, 4), Quote(2, 4, 5, 4)>>,
    <<Quote(7, 2, 3, 4), Quote(2, 2, NoValue, 4)>>,
    <<Quote(1, 3, 3, 4), [Quote(2, 2, 3, 4) EXCEPT !.levels = FALSE]>>,
    <<Quote(1, 0, 0, 4), Quote(1, 2, 4, 4)>>}

FutureDefinitions == <<Future(8, Outright, 9), Future(9, "S", 9)>>
FutureQuotes == <<Quote(8, 4, 6, 8), Quote(9, 2, 1, 2), Quote(8, 2, 5, 6)>>
Settlement(key, value) == [message |-> Statistics, ts |-> 1, key |-> key,
                           type |-> "settlement", ref |-> 1, value |-> value, update |-> "NEW"]
FutureStatistics == <<Settlement(8, 5), [Settlement(8, 6) EXCEPT !.ts = NoValue],
                      Settlement(8, 5), Foreign(Settlement(9, 6)), Settlement(9, 5)>>

Payload(product, schema, serial, records) ==
    [product |-> product, schema |-> schema, date |-> 1, serial |-> serial,
     layout |-> "dated", request |-> product, records |-> records, damage |-> NoValue]
Lines(n) == [i \in 1..n |-> [path |-> i, digest |-> i]]
Archive(definitions, quotes) ==
    [manifest |-> Lines(2), disk |-> [p \in {0, 1, 2} |-> p],
     payloads |-> {Payload("chain", Definitions, 1, definitions),
                   Payload("chain", "cbbo-1m", 2, quotes),
                   Payload("fut", Definitions, 3, FutureDefinitions),
                   Payload("fut", "bbo-1m", 4, FutureQuotes),
                   Payload("fut", Statistics, 5, FutureStatistics)},
     conditions |-> [r \in {"chain", "fut"} |-> {[date |-> 1, available |-> TRUE]}],
     series |-> [sofr |-> {1}],
     sources |-> {[capability |-> "surface", required |-> FALSE, state |-> "absent"]}]
Clean == Archive(<<Call, Put>>, <<Quote(1, 2, 3, 4), Quote(2, 2, 3, 4)>>)

Damage(a, serial, n) == [a EXCEPT !.payloads =
    {IF f.serial = serial THEN [f EXCEPT !.damage = n] ELSE f : f \in @}]
MCArchives ==
    {Archive(d, q) : d \in DefinitionLists, q \in QuoteLists}
    \cup {Damage(Clean, serial, n) : serial \in 1..5, n \in {0, 1}}
    \cup {Damage(Clean, 2, 2)}
    \cup {[Clean EXCEPT !.payloads = {f \in @ : f.serial # serial}] : serial \in 1..5}
    \cup {[Clean EXCEPT !.payloads = @ \cup {Payload("chain", "cbbo-1m", 6, <<>>)}],
          [Clean EXCEPT !.payloads = @ \cup {[Payload("chain", "cbbo-1m", 0, <<>>)
                                                EXCEPT !.layout = "undated"]}],
          [Clean EXCEPT !.conditions["fut"] = NoValue],
          [Clean EXCEPT !.manifest = Append(@, [path |-> 1, digest |-> 5])],
          [Clean EXCEPT !.manifest = Append(@, [path |-> 3, digest |-> 5])],
          [Clean EXCEPT !.disk[2] = Unreadable],
          [Clean EXCEPT !.disk = (4 :> 4) @@ @]}
=============================================================================
