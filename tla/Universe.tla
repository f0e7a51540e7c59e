------------------------------ MODULE Universe ------------------------------
(***************************************************************************)
(* Contract resolution in market/instruments.py: a definition record is     *)
(* checked against the option symbol it carries, and a product's universe   *)
(* is the last effective definition of each instrument, whatever order the  *)
(* records come in.  A definition record is                                 *)
(*   [key, stamp, action, class, osi, strike, expiry, name, multiplier,     *)
(*    style]                                                                *)
(* where osi is the decoded symbol [root, right, strike, expiry] or NoValue *)
(* and name orders the raw symbols.  Days and prices are integers.          *)
(***************************************************************************)
EXTENDS Integers, FiniteSets, Functions, FiniteSetsExt

CONSTANT NoValue

Delete == "D"
Outright == "F"
NearestOutright == "nearest_outright"
SingleInstrument == "single_instrument"

\* The symbol and the definition must name one contract; half a tick of
\* float error in the strike is what the code forgives, none is left here.
OptionResolves(r) ==
    /\ r.class \in {"C", "P"}
    /\ r.osi # NoValue
    /\ r.osi.right = r.class
    /\ r.strike # NoValue /\ r.strike = r.osi.strike
    /\ r.expiry # NoValue /\ r.expiry = r.osi.expiry

OptionContract(r, root) ==
    [key |-> r.key, standard |-> r.osi.root = root, right |-> r.class,
     strike |-> r.strike, expiry |-> r.expiry,
     multiplier |-> r.multiplier, style |-> r.style]

FutureResolves(r) == r.class # ""

FutureContract(r) ==
    [key |-> r.key, outright |-> r.class = Outright, expiry |-> r.expiry,
     name |-> r.name]

\* f with v at k: how every dictionary of the package is updated.
With(f, k, v) == [j \in DOMAIN f \cup {k} |-> IF j = k THEN v ELSE f[j]]

-----------------------------------------------------------------------------
(* _EffectiveTimeLedger: one entry per instrument, the last one effective.  *)

Counters == {"records", "superseded", "deleted", "out_of_order"}
EmptyUniverse == [ledger |-> <<>>, counters |-> [c \in Counters |-> 0], failures |-> 0]

Bump(counters, c) == [counters EXCEPT ![c] = @ + 1]

Effective(r) == IF r.stamp = NoValue THEN 0 ELSE r.stamp

Before(a, b) == a.stamp < b.stamp \/ (a.stamp = b.stamp /\ a.order < b.order)

\* A ledger that takes a later word and keeps the contract it had.
OfferKeepingContract(u, r, order, payload) ==
    LET known == r.key \in DOMAIN u.ledger
        held == IF known THEN u.ledger[r.key].payload ELSE NoValue
        entry == [stamp |-> Effective(r), order |-> order, action |-> r.action,
                  payload |-> IF NoValue \in {held, payload} THEN payload ELSE held]
    IN  IF known /\ Before(entry, u.ledger[r.key]) THEN u
        ELSE [u EXCEPT !.ledger = With(@, r.key, entry)]

Offer(u, r, order, payload) ==
    LET entry == [stamp |-> Effective(r), order |-> order, action |-> r.action,
                  payload |-> payload]
        known == r.key \in DOMAIN u.ledger
    IN  IF known /\ Before(entry, u.ledger[r.key])
        THEN [u EXCEPT !.counters = Bump(@, "out_of_order")]
        ELSE [u EXCEPT
                !.ledger = With(@, r.key, entry),
                !.counters = IF r.action = Delete THEN Bump(@, "deleted")
                             ELSE IF known THEN Bump(@, "superseded") ELSE @]

Contracts(u) ==
    LET live == {k \in DOMAIN u.ledger :
                     u.ledger[k].action # Delete /\ u.ledger[k].payload # NoValue}
    IN  [k \in live |-> u.ledger[k].payload]

\* One record of a definition payload.  A delete that no longer resolves still
\* retires its instrument; any other record that does not resolve is a failure.
DefinitionStep(u, r, order, resolves, payload) ==
    LET counted == [u EXCEPT !.counters = Bump(@, "records")]
    IN  IF resolves THEN Offer(counted, r, order, payload)
        ELSE IF r.action = Delete THEN Offer(counted, r, order, NoValue)
        ELSE [counted EXCEPT !.failures = @ + 1]

OptionStep(u, r, order, root) ==
    DefinitionStep(u, r, order, OptionResolves(r),
                   IF OptionResolves(r) THEN OptionContract(r, root) ELSE NoValue)

FutureStep(u, r, order) ==
    DefinitionStep(u, r, order, FutureResolves(r), FutureContract(r))

-----------------------------------------------------------------------------
Outrights(contracts) == {k \in DOMAIN contracts : contracts[k].outright}

UnexpiredOutrights(contracts, date) ==
    {k \in Outrights(contracts) :
        contracts[k].expiry # NoValue /\ contracts[k].expiry >= date}

\* FutureUniverse.select_reference: a key, or NoValue with a reason.
SelectReference(contracts, rule, date) ==
    LET eligible == UnexpiredOutrights(contracts, date)
        Sooner(a, b) == \/ contracts[a].expiry < contracts[b].expiry
                        \/ /\ contracts[a].expiry = contracts[b].expiry
                           /\ contracts[a].name <= contracts[b].name
    IN  CASE rule = NearestOutright /\ eligible # {} ->
               CHOOSE k \in eligible : \A j \in eligible : Sooner(k, j)
          [] rule = SingleInstrument /\ Cardinality(DOMAIN contracts) = 1 ->
               CHOOSE k \in DOMAIN contracts : TRUE
          [] OTHER -> NoValue
=============================================================================
